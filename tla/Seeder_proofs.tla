---------------------------- MODULE Seeder_proofs ----------------------------
(***************************************************************************)
(* Theorems about Seeder, for any number of arrivals, any plans and any    *)
(* lengths of history, windings and windows.                               *)
(***************************************************************************)
EXTENDS Seeder, FiniteSetTheorems, SequenceTheorems, TLAPS

(* What a record says at an instant: nothing in it happens later, but for  *)
(* the boundary of the state that runs.                                    *)
Lasting(rec, at) ==
    /\ rec \in Subscription /\ Bounded(rec)
    /\ rec.cancelled_at # None => rec.cancelled_at <= at
    /\ rec.state = "trial" => rec.expires = None
    /\ rec.state \in {"grace", "expired"} /\ rec.expires # None => rec.expires <= at

(* A paid period only grows.                                               *)
Extends(rec, from) == from.expires # None => rec.expires # None /\ rec.expires >= from.expires

(* The renewals somebody was asked about come one after the other, and the *)
(* period they have runs to the last of them at least.                     *)
Asked(rec, list) ==
    /\ list \in Seq(Int)
    /\ \A i, j \in 1 .. Len(list) : i < j => list[i] < list[j]
    /\ list # <<>> => rec.expires # None /\ list[Len(list)] <= rec.expires

(* ruled_on remembers the last.                                            *)
Remembered(u) ==
    /\ u \in DOMAIN ruled_on <=> rolls[u] # <<>>
    /\ rolls[u] # <<>> => ruled_on[u] = rolls[u][Len(rolls[u])]

(* The wall clock at the first day.                                        *)
First == FirstDays * Day

(* Nobody's period is over that the last day of a run or the ticker saw.   *)
Ahead(u) == records[u].state = "active" => records[u].expires > First + offset

ClockOK ==
    /\ wall \in Int /\ offset \in Int /\ First <= wall /\ wall <= First + MaxWall
    /\ day \in Nat /\ left \in Nat /\ stock \in BOOLEAN

UsersOK ==
    /\ \E known \in Nat : DOMAIN records = 1 .. known
    /\ DOMAIN rolls = DOMAIN records /\ DOMAIN ruled_on \subseteq DOMAIN records
    /\ DOMAIN joined_on = DOMAIN records /\ DOMAIN arrived = DOMAIN records

RenewalsOK ==
    \A u \in DOMAIN records :
        /\ Lasting(records[u], Now) /\ Ahead(u)
        /\ Asked(records[u], rolls[u]) /\ Remembered(u)

(* Whoever arrived lives since, a day for each that was run.               *)
LivesOK ==
    /\ \A u \in DOMAIN records :
         /\ arrived[u] \in Int /\ joined_on[u] \in Nat /\ joined_on[u] < day
         /\ arrived[u] + AgeOf(u) <= Now
    /\ DOMAIN last_active \subseteq DOMAIN records
    /\ \A u \in DOMAIN last_active : last_active[u] \in Int

IInv == ClockOK /\ UsersOK /\ RenewalsOK /\ LivesOK

-----------------------------------------------------------------------------
(* The engine, as far as renewals go *)

LEMMA Terms ==
  ASSUME NEW plan \in Plan
  PROVE  /\ Period[plan] \in Nat /\ TrialDays[plan] \in Nat
         /\ GraceDays[plan] \in Nat /\ Price[plan] \in Nat
<1>1. /\ Period \in [Plan -> Nat] /\ TrialDays \in [Plan -> Nat]
      /\ GraceDays \in [Plan -> Nat] /\ Price \in [Plan -> Nat]
  BY TermsAssumption
<1> QED BY <1>1

LEMMA Moments ==
  /\ None \notin Int
  /\ \A moment \in Moment : moment # None => moment \in Int
  /\ \A moment \in Int : moment \in Moment /\ moment # None
BY SeederAssumption DEF Moment

LEMMA SubscriptionFields ==
  ASSUME NEW rec \in Subscription
  PROVE  /\ rec.state \in State /\ rec.plan \in Plan /\ rec.pending \in Plan \cup {None}
         /\ rec.trial_ends \in Moment /\ rec.expires \in Moment /\ rec.cancelled_at \in Moment
BY DEF Subscription

LEMMA MovedFields ==
  ASSUME NEW rec \in Subscription, NEW state \in State
  PROVE  LET r == [rec EXCEPT !.state = state]
         IN /\ r \in Subscription /\ r.state = state /\ r.expires = rec.expires
            /\ r.cancelled_at = rec.cancelled_at /\ r.plan = rec.plan
            /\ r.trial_ends = rec.trial_ends
BY DEF Subscription

(* A boundary crossed.                                                     *)
LEMMA CrossedIs ==
  ASSUME NEW rec \in Subscription, rec.state # "expired"
  PROVE  \/ Crossed(rec).rec = [rec EXCEPT !.state = "expired"]
            /\ (rec.state = "active" => GraceDays[rec.plan] = 0)
         \/ rec.state = "active" /\ Crossed(rec).rec = [rec EXCEPT !.state = "grace"]
<1>1. rec.state \in {"trial", "cancelled", "grace", "active"}
  BY SubscriptionFields DEF State
<1>2. CASE rec.state = "trial"
  BY <1>2 DEF Crossed, Out
<1>3. CASE rec.state = "cancelled"
  BY <1>3 DEF Crossed, Out
<1>4. CASE rec.state = "grace"
  BY <1>4 DEF Crossed, Out
<1>5. CASE rec.state = "active"
  BY <1>5 DEF Crossed, Out
<1> QED BY <1>1, <1>2, <1>3, <1>4, <1>5

(* Who has caught up has lost nothing of the period, and nothing is due.   *)
LEMMA CaughtUpIs ==
  ASSUME NEW rec, NEW from \in Int, NEW at \in Int, from <= at, Lasting(rec, from)
  PROVE  LET r == CaughtUp(rec, at).rec
         IN /\ Lasting(r, at) /\ ~IsDue(r, at)
            /\ r.expires = rec.expires /\ r.cancelled_at = rec.cancelled_at
            /\ r.state = rec.state \/ (IsDue(rec, at) /\ r.state \in {"grace", "expired"})
            /\ rec.state = "active" /\ at < rec.expires + GraceDays[rec.plan]
                 => r.state \in {"active", "grace"}
<1> DEFINE once == Crossed(rec).rec
           twice == Crossed(once).rec
<1>1. /\ rec \in Subscription /\ rec.state \in State /\ rec.plan \in Plan
      /\ GraceDays[rec.plan] \in Nat
      /\ rec.expires \in Moment /\ rec.cancelled_at \in Moment /\ rec.trial_ends \in Moment
  BY SubscriptionFields, Terms DEF Lasting
<1>2. CASE ~IsDue(rec, at)
  <2>1. CaughtUp(rec, at).rec = rec
    BY <1>2 DEF CaughtUp, Out
  <2>2. Lasting(rec, at)
    BY <1>1, Moments DEF Lasting
  <2>3. rec.state = "active" => rec.state \in {"active", "grace"}
    OBVIOUS
  <2> QED BY <1>2, <2>1, <2>2, <2>3
<1>3. CASE IsDue(rec, at)
  <2>1. rec.state # "expired"
    BY <1>1, <1>3 DEF IsDue, Due
  <2>2. rec.state \in {"active", "cancelled"} => rec.expires \in Int /\ rec.expires <= at
    BY <1>1, <1>3, Moments DEF IsDue, Due
  <2>3. rec.state \in {"trial", "grace", "cancelled", "active"}
    BY <1>1, <2>1 DEF State
  <2>4. rec.expires # None => rec.expires <= at
    BY <1>1, <2>2, <2>3, Moments DEF Lasting
  <2>5. ASSUME NEW r, r = [rec EXCEPT !.state = "expired"]
        PROVE  /\ Lasting(r, at) /\ ~IsDue(r, at) /\ r.state = "expired"
               /\ r.expires = rec.expires /\ r.cancelled_at = rec.cancelled_at
    <3>1. /\ r \in Subscription /\ r.state = "expired" /\ r.expires = rec.expires
          /\ r.cancelled_at = rec.cancelled_at
      BY <1>1, <2>5, MovedFields DEF State
    <3>2. ~IsDue(r, at)
      BY <3>1 DEF IsDue, Due
    <3>3. r.cancelled_at # None => r.cancelled_at <= at
      BY <1>1, <3>1, Moments DEF Lasting
    <3> QED BY <2>4, <3>1, <3>2, <3>3 DEF Lasting, Bounded
  <2>6. CASE once = [rec EXCEPT !.state = "expired"] /\ (rec.state = "active" => GraceDays[rec.plan] = 0)
    <3>1. ~IsDue(once, at)
      BY <2>5, <2>6
    <3>2. CaughtUp(rec, at).rec = once
      BY <1>3, <3>1 DEF CaughtUp
    <3>3. ~(rec.state = "active" /\ at < rec.expires + GraceDays[rec.plan])
      BY <2>2, <2>6, <1>1
    <3> HIDE DEF once
    <3> QED BY <1>3, <2>5, <2>6, <3>2, <3>3
  <2>7. CASE rec.state = "active" /\ once = [rec EXCEPT !.state = "grace"]
    <3>1. /\ once \in Subscription /\ once.state = "grace" /\ once.expires = rec.expires
          /\ once.cancelled_at = rec.cancelled_at /\ once.plan = rec.plan
      <4>1. "grace" \in State
        BY DEF State
      <4> HIDE DEF once
      <4> QED BY <1>1, <2>7, <4>1, MovedFields
    <3>2. Lasting(once, at)
      BY <1>1, <2>2, <2>7, <3>1, Moments DEF Lasting, Bounded
    <3>3. Due(once) = rec.expires + GraceDays[rec.plan]
      BY <2>2, <2>7, <3>1, Moments DEF Due, GraceEnds
    <3>4. CASE ~IsDue(once, at)
      <4>1. CaughtUp(rec, at).rec = once
        BY <1>3, <3>4 DEF CaughtUp
      <4> HIDE DEF once
      <4> QED BY <1>3, <3>1, <3>2, <3>4, <4>1
    <3>5. CASE IsDue(once, at)
      <4>1. CaughtUp(rec, at).rec = twice
        BY <1>3, <3>5 DEF CaughtUp, Out
      <4>2. twice = [once EXCEPT !.state = "expired"]
        BY <3>1, CrossedIs
      <4>3. twice = [rec EXCEPT !.state = "expired"]
        BY <1>1, <2>7, <4>2 DEF Subscription
      <4>4. ~(at < rec.expires + GraceDays[rec.plan])
        BY <1>1, <2>2, <2>7, <3>3, <3>5 DEF IsDue
      <4> HIDE DEF once, twice
      <4> QED BY <1>3, <2>5, <4>1, <4>3, <4>4
    <3> QED BY <3>4, <3>5
  <2> QED BY <1>1, <2>1, <2>6, <2>7, CrossedIs
<1> QED BY <1>2, <1>3

(* The record of an outcome is not touched by the events before it.        *)
LEMMA RecordOf ==
  ASSUME NEW rec, NEW events, NEW code, NEW before
  PROVE  /\ [Out(rec, events) EXCEPT !.events = before \o @].rec = rec
         /\ [Refusal(rec, events, code) EXCEPT !.events = before \o @].rec = rec
BY DEF Out, Refusal

LEMMA PayIs ==
  ASSUME NEW rec, NEW from \in Int, NEW at \in Int, from <= at, Lasting(rec, from), NEW amount
  PROVE  LET r == Pay(rec, amount, at).rec
         IN Lasting(r, at) /\ Extends(r, rec) /\ r.cancelled_at = rec.cancelled_at
<1> DEFINE c == CaughtUp(rec, at)
           r == c.rec
           until == (IF r.state = "active" THEN r.expires ELSE at) + Period[Bought(r)]
           paid == [r EXCEPT !.state = "active", !.plan = Bought(r), !.pending = None,
                             !.expires = until]
<1>1. Pay(rec, amount, at).rec \in {r, paid} /\ (r.state = "cancelled" => Pay(rec, amount, at).rec = r)
  <2> DEFINE recorded == <<Event("payment.recorded", amount)>>
             short == <<Event("payment.underpaid", Price[Bought(r)])>>
             kind == IF r.state \in {"active", "grace"}
                     THEN "subscription.renewed" ELSE "subscription.activated"
             rest == CASE r.state = "cancelled" -> Out(r, recorded)
                       [] r.state # "cancelled" /\ amount < Price[Bought(r)] -> Out(r, recorded \o short)
                       [] OTHER -> Out(paid, recorded \o <<Event(kind, until)>>)
  <2>1. Pay(rec, amount, at) = [rest EXCEPT !.events = c.events \o @]
    BY DEF Pay, After
  <2>2. CASE r.state = "cancelled"
    <3>1. rest = Out(r, recorded)
      BY <2>2
    <3> HIDE DEF rest, c
    <3> QED BY <2>1, <3>1, RecordOf
  <2>3. CASE r.state # "cancelled" /\ amount < Price[Bought(r)]
    <3>1. rest = Out(r, recorded \o short)
      BY <2>3
    <3> HIDE DEF rest, c
    <3> QED BY <2>1, <2>3, <3>1, RecordOf
  <2>4. CASE r.state # "cancelled" /\ ~(amount < Price[Bought(r)])
    <3>1. rest = Out(paid, recorded \o <<Event(kind, until)>>)
      BY <2>4
    <3> HIDE DEF rest, c, paid
    <3> QED BY <2>1, <2>4, <3>1, RecordOf
  <2> QED BY <2>2, <2>3, <2>4
<1>2. Lasting(r, at) /\ r.expires = rec.expires /\ r.cancelled_at = rec.cancelled_at
  BY CaughtUpIs
<1> HIDE DEF c
<1>3. /\ r \in Subscription /\ r.state \in State /\ Bought(r) \in Plan /\ r.expires \in Moment
      /\ r.cancelled_at \in Moment
  BY <1>2, SubscriptionFields DEF Lasting, Bought
<1>4. r.state # "cancelled" =>
        until \in Int /\ (r.expires # None => r.expires <= until)
  <2>1. Period[Bought(r)] \in Nat
    BY <1>3, Terms
  <2>2. r.state = "active" => r.expires \in Int
    BY <1>2 DEF Lasting, Bounded
  <2>3. r.state \in {"active", "grace", "expired", "trial", "cancelled"}
    BY <1>3 DEF State
  <2>4. r.state \in {"grace", "expired", "trial"} /\ r.expires # None => r.expires \in Int /\ r.expires <= at
    BY <1>2, <1>3, Moments DEF Lasting
  <2> QED BY <2>1, <2>2, <2>3, <2>4
<1> HIDE DEF until
<1>5. ASSUME until \in Int
      PROVE  /\ paid \in Subscription /\ paid.state = "active" /\ paid.expires = until
             /\ paid.cancelled_at = r.cancelled_at
  <2>1. "active" \in State /\ until \in Moment
    BY <1>5 DEF State, Moment
  <2> QED BY <1>3, <2>1 DEF Subscription
<1>6. ASSUME until \in Int PROVE Lasting(paid, at)
  <2>1. paid.cancelled_at # None => paid.cancelled_at <= at
    BY <1>2, <1>5, <1>6 DEF Lasting
  <2> HIDE DEF paid
  <2> QED BY <1>5, <1>6, <2>1 DEF Lasting, Bounded
<1> HIDE DEF paid
<1>7. Extends(r, rec)
  BY <1>2, <1>3, Moments DEF Extends
<1>8. ASSUME until \in Int, r.expires # None => r.expires <= until PROVE Extends(paid, rec)
  BY <1>2, <1>5, <1>8, Moments DEF Extends
<1>9. CASE r.state = "cancelled"
  BY <1>1, <1>2, <1>7, <1>9
<1>10. CASE r.state # "cancelled"
  BY <1>1, <1>2, <1>4, <1>5, <1>6, <1>7, <1>8, <1>10
<1> QED BY <1>9, <1>10

LEMMA CancelIs ==
  ASSUME NEW rec, NEW from \in Int, NEW at \in Int, from <= at, Lasting(rec, from)
  PROVE  LET r == Cancel(rec, at).rec
         IN /\ Lasting(r, at) /\ r.expires = rec.expires
            /\ CaughtUp(rec, at).rec.state \in {"active", "grace"} => r.cancelled_at = at
<1> DEFINE c == CaughtUp(rec, at)
           r == c.rec
           gone == [r EXCEPT !.state = "cancelled", !.cancelled_at = at]
           events == <<Event("subscription.cancelled", r.expires)>>
           rest == IF Ended(r) THEN Out(r, <<>>) ELSE Out(gone, events)
<1>1. Cancel(rec, at) = [rest EXCEPT !.events = c.events \o @]
  BY DEF Cancel, After
<1>2. Lasting(r, at) /\ r.expires = rec.expires
  BY CaughtUpIs
<1> HIDE DEF c
<1>3. CASE Ended(r)
  <2>1. rest = Out(r, <<>>)
    BY <1>3
  <2>2. r.state \notin {"active", "grace"}
    BY <1>3 DEF Ended
  <2> HIDE DEF rest
  <2> QED BY <1>1, <1>2, <2>1, <2>2, RecordOf DEF c
<1>4. CASE ~Ended(r)
  <2>1. rest = Out(gone, events)
    BY <1>4
  <2>2. /\ gone \in Subscription /\ gone.state = "cancelled" /\ gone.cancelled_at = at
        /\ gone.expires = r.expires
    <3>1. r \in Subscription /\ "cancelled" \in State /\ at \in Moment
      BY <1>2 DEF Lasting, State, Moment
    <3> QED BY <3>1 DEF Subscription
  <2> HIDE DEF gone
  <2>3. Lasting(gone, at)
    BY <2>2 DEF Lasting, Bounded
  <2> HIDE DEF rest, events
  <2>4. Cancel(rec, at).rec = gone
    BY <1>1, <2>1, RecordOf
  <2> QED BY <1>2, <2>2, <2>3, <2>4
<1> QED BY <1>3, <1>4

(* Whoever arrives has no period yet.                                      *)
LEMMA BegunIs ==
  ASSUME NEW plan \in Plan, NEW at \in Int
  PROVE  LET r == Subscribe(None, plan, at).rec
         IN Lasting(r, at) /\ r.expires = None /\ r.state \in {"trial", "expired"}
<1> DEFINE trial == TrialDays[plan] > 0 /\ (None = None \/ ~None.trialled)
           state == IF trial THEN "trial" ELSE "expired"
           ends == IF trial THEN at + TrialDays[plan] ELSE None
           once == trial \/ (None # None /\ None.trialled)
           begun == [state |-> state, plan |-> plan, pending |-> None, trial_ends |-> ends,
                     expires |-> None, cancelled_at |-> None, promo |-> None, trialled |-> once]
<1>1. Subscribe(None, plan, at).rec = begun
  BY DEF Subscribe, Begun, Out
<1>2. /\ state \in {"trial", "expired"} /\ ends \in Moment /\ None \in Moment
      /\ state = "trial" => ends \in Int
  BY Terms DEF Moment
<1>3. once \in BOOLEAN
  <2>1. once <=> trial
    OBVIOUS
  <2>2. trial <=> TrialDays[plan] > 0
    OBVIOUS
  <2> QED BY <2>1, <2>2
<1> HIDE DEF state, ends, once
<1>4. begun \in Subscription
  <2>1. state \in State
    BY <1>2 DEF State
  <2> QED BY <1>2, <1>3, <2>1 DEF Subscription
<1>5. begun.state = state /\ begun.expires = None /\ begun.cancelled_at = None /\ begun.trial_ends = ends
  OBVIOUS
<1> HIDE DEF begun
<1> QED BY <1>1, <1>2, <1>4, <1>5 DEF Lasting, Bounded

LEMMA RedeemIs ==
  ASSUME NEW rec, NEW at \in Int, Lasting(rec, at), rec.expires = None, NEW code \in Code
  PROVE  Lasting(Redeem(rec, code, FALSE, at).rec, at) /\ Redeem(rec, code, FALSE, at).rec.expires = None
<1> DEFINE c == CaughtUp(rec, at)
           r == c.rec
           redeemed == <<Event("promo.redeemed", code)>>
           longer == [r EXCEPT !.expires = @ + GrantDays]
           bound == [r EXCEPT !.promo = code]
           later == [r EXCEPT !.trial_ends = @ + GrantDays]
           woken == <<Event("subscription.activated", longer.expires)>>
           rest == CASE FALSE -> Refusal(r, <<>>, "PROMO_LIMIT_REACHED")
                     [] ~FALSE /\ code = "discount" ->
                          IF r.promo # None THEN Refusal(r, <<>>, "PROMO_ALREADY_BOUND")
                          ELSE Out(bound, redeemed)
                     [] ~FALSE /\ code = "days" ->
                          CASE r.state = "trial" -> Out(later, redeemed)
                            [] r.state = "active" -> Out(longer, redeemed)
                            [] r.state = "grace" /\ longer.expires > at ->
                                 Out([longer EXCEPT !.state = "active"], redeemed \o woken)
                            [] OTHER -> Out(r, redeemed)
           done == Redeem(rec, code, FALSE, at)
<1>1. done = [rest EXCEPT !.events = c.events \o @]
  BY DEF Redeem, After
<1>2. Lasting(r, at) /\ r.expires = None
  BY CaughtUpIs
<1> HIDE DEF c, done
<1>3. r \in Subscription /\ r.state \notin {"active", "grace"}
  BY <1>2, Moments DEF Lasting, Bounded
<1>4. Lasting(bound, at) /\ bound.expires = None
  <2>1. /\ bound \in Subscription /\ bound.state = r.state /\ bound.expires = r.expires
        /\ bound.cancelled_at = r.cancelled_at /\ bound.trial_ends = r.trial_ends
    BY <1>3 DEF Subscription
  <2> HIDE DEF bound
  <2> QED BY <1>2, <2>1 DEF Lasting, Bounded
<1>5. ASSUME r.state = "trial" PROVE Lasting(later, at) /\ later.expires = None
  <2>1. r.trial_ends + GrantDays \in Int
    BY <1>2, <1>5, TermsAssumption DEF Lasting, Bounded
  <2>2. /\ later \in Subscription /\ later.state = r.state /\ later.expires = r.expires
        /\ later.cancelled_at = r.cancelled_at /\ later.trial_ends = r.trial_ends + GrantDays
    BY <1>3, <2>1 DEF Subscription, Moment
  <2> HIDE DEF later
  <2> QED BY <1>2, <1>5, <2>1, <2>2 DEF Lasting, Bounded
<1>6. ASSUME code = "discount" PROVE Lasting(done.rec, at) /\ done.rec.expires = None
  <2>1. CASE r.promo # None
    <3>1. rest = Refusal(r, <<>>, "PROMO_ALREADY_BOUND")
      BY <1>6, <2>1
    <3> HIDE DEF rest
    <3>2. done.rec = r
      BY <1>1, <3>1, RecordOf
    <3> QED BY <1>2, <3>2
  <2>2. CASE ~(r.promo # None)
    <3>1. rest = Out(bound, redeemed)
      BY <1>6, <2>2
    <3> HIDE DEF rest, bound, redeemed
    <3>2. done.rec = bound
      BY <1>1, <3>1, RecordOf
    <3> QED BY <1>4, <3>2
  <2> QED BY <2>1, <2>2
<1>7. ASSUME code = "days" PROVE Lasting(done.rec, at) /\ done.rec.expires = None
  <2>1. CASE r.state = "trial"
    <3>1. rest = Out(later, redeemed)
      BY <1>7, <2>1
    <3> HIDE DEF rest, later, redeemed
    <3>2. done.rec = later
      BY <1>1, <3>1, RecordOf
    <3> QED BY <1>5, <2>1, <3>2
  <2>2. CASE r.state # "trial"
    <3>1. rest = Out(r, redeemed)
      BY <1>3, <1>7, <2>2
    <3> HIDE DEF rest, redeemed
    <3>2. done.rec = r
      BY <1>1, <3>1, RecordOf
    <3> QED BY <1>2, <3>2
  <2> QED BY <2>1, <2>2
<1>8. Lasting(done.rec, at) /\ done.rec.expires = None
  BY <1>6, <1>7 DEF Code
<1> QED BY <1>8 DEF done

LEMMA WelcomeIs ==
  ASSUME NEW arrival \in [plan: Plan, code: Offered \cup {None}], NEW at \in Int
  PROVE  Lasting(Welcome(arrival, at).rec, at) /\ Welcome(arrival, at).rec.expires = None
<1> DEFINE begun == Subscribe(None, arrival.plan, at)
           redeemed == Redeem(begun.rec, arrival.code, FALSE, at)
<1>1. Lasting(begun.rec, at) /\ begun.rec.expires = None
  BY BegunIs
<1>2. arrival.code # None => arrival.code \in Code
  BY SeederAssumption
<1>3. arrival.code # None => Lasting(redeemed.rec, at) /\ redeemed.rec.expires = None
  BY <1>1, <1>2, RedeemIs
<1>4. /\ arrival.code = None => Welcome(arrival, at).rec = begun.rec
      /\ arrival.code # None => Welcome(arrival, at) = [redeemed EXCEPT !.events = begun.events \o @]
  BY DEF Welcome
<1>5. [redeemed EXCEPT !.events = begun.events \o @].rec = redeemed.rec
  OBVIOUS
<1> HIDE DEF begun, redeemed
<1> QED BY <1>1, <1>3, <1>4, <1>5

(* What somebody's day may make of the record: nothing is due at its end,  *)
(* no paid period is shorter, whoever lets things be stays as they are but *)
(* for what falls due, and whoever cancels in time is known to have.       *)
Makes(r, rec, choice, from, at) ==
    /\ Lasting(r, at) /\ ~IsDue(r, at) /\ Extends(r, rec)
    /\ choice = "pass" => r.state = rec.state \/ IsDue(rec, at)
    /\ /\ choice = "cancel" /\ rec.state = "active" /\ from < at
       /\ at < rec.expires + GraceDays[rec.plan]
       => r.cancelled_at # rec.cancelled_at

(* What a day makes of a record.                                           *)
LEMMA DayIs ==
  ASSUME NEW rec, NEW from \in Int, NEW at \in Int, from <= at, Lasting(rec, from),
         NEW choice \in {"pass", "cancel", "pay"}
  PROVE  Makes(DayOf(rec, choice, at).rec, rec, choice, from, at)
<1> DEFINE d == Decide(rec, choice, at).rec
           r == CaughtUp(d, at).rec
<1>1. DayOf(rec, choice, at).rec = r
  BY DEF DayOf
<1>2. rec \in Subscription /\ rec.expires \in Moment /\ rec.cancelled_at \in Moment
  BY SubscriptionFields DEF Lasting
<1>3. /\ choice = "pass" => d = rec
      /\ choice = "cancel" => d = Cancel(rec, at).rec
      /\ choice = "pay" => d = Pay(rec, Price[rec.plan], at).rec
  BY DEF Decide, Out
<1> HIDE DEF d
<1>4. Lasting(rec, at)
  BY <1>2, Moments DEF Lasting
<1>5. Extends(rec, rec)
  BY <1>2, Moments DEF Extends
<1>6. Lasting(d, at) /\ Extends(d, rec)
  <2>1. CASE choice = "pass"
    BY <1>3, <1>4, <1>5, <2>1
  <2>2. CASE choice = "cancel"
    <3>1. Lasting(d, at) /\ d.expires = rec.expires
      BY <1>3, <2>2, CancelIs
    <3> QED BY <1>5, <3>1 DEF Extends
  <2>3. CASE choice = "pay"
    BY <1>3, <2>3, PayIs
  <2> QED BY <2>1, <2>2, <2>3
<1>7. /\ Lasting(r, at) /\ ~IsDue(r, at) /\ r.expires = d.expires /\ r.cancelled_at = d.cancelled_at
      /\ r.state = d.state \/ IsDue(d, at)
  BY <1>6, CaughtUpIs
<1> HIDE DEF r
<1>8. Extends(r, rec)
  BY <1>6, <1>7 DEF Extends
<1>9. ASSUME choice = "cancel", rec.state = "active", from < at,
             at < rec.expires + GraceDays[rec.plan]
      PROVE  r.cancelled_at # rec.cancelled_at
  <2>1. CaughtUp(rec, at).rec.state \in {"active", "grace"}
    BY <1>9, CaughtUpIs
  <2>2. d.cancelled_at = at
    BY <1>3, <1>9, <2>1, CancelIs
  <2>3. rec.cancelled_at # None => rec.cancelled_at <= from
    BY DEF Lasting
  <2> QED BY <1>2, <1>7, <1>9, <2>2, <2>3, Moments
<1> QED BY <1>1, <1>3, <1>7, <1>8, <1>9 DEF Makes

-----------------------------------------------------------------------------
(* The steps *)

(* Those who have come to a renewal and decide about it.                   *)
Rolled(here, choice, at) ==
    {u \in DOMAIN here : here[u].state = "active" /\ choice[u] # "cancel" /\ Rolls(u, here[u], at)}

(* Who is there on a day: the known people, and those who have just come.  *)
Attending(here, at) ==
    /\ Users \subseteq DOMAIN here
    /\ \E all \in Nat : DOMAIN here = 1 .. all
    /\ \A u \in DOMAIN here :
         IF u \in Users THEN here[u] = records[u]
         ELSE Lasting(here[u], at) /\ here[u].expires = None

(* What the day makes of them.                                             *)
Spent(here, choice, at) ==
    /\ \A u \in DOMAIN here : choice[u] \in MayDecide(u, here[u], at)
    /\ records' = [u \in DOMAIN here |-> DayOf(here[u], choice[u], at).rec]
    /\ ruled_on' = [u \in DOMAIN ruled_on \cup Rolled(here, choice, at) |->
                       IF u \in Rolled(here, choice, at) THEN Due(here[u]) ELSE ruled_on[u]]
    /\ rolls' = [u \in DOMAIN here |->
                    (IF u \in Users THEN rolls[u] ELSE <<>>)
                    \o (IF u \in Rolled(here, choice, at) THEN <<Due(here[u])>> ELSE <<>>)]
    /\ joined_on' = [u \in DOMAIN here |-> IF u \in Users THEN joined_on[u] ELSE day]
    /\ arrived' = [u \in DOMAIN here |-> IF u \in Users THEN arrived[u] ELSE at]

LEMMA NowIsInt == ClockOK => Now \in Int /\ Day \in Nat /\ Day > 0 /\ First \in Nat
BY CalendarAssumption, SeederAssumption DEF ClockOK, Now, First

LEMMA SpendIs ==
  ASSUME NEW welcome, NEW here, NEW choice, NEW at, DOMAIN here = 1 .. Len(here),
         Spend(welcome, here, choice, at)
  PROVE  Spent(here, choice, at)
BY DEF Spend, Spent, Rolled

LEMMA OneDayIs ==
  ASSUME ClockOK, UsersOK, OneDay
  PROVE  \E here, choice :
           /\ Attending(here, Now + Day) /\ Spent(here, choice, Now + Day)
           /\ DOMAIN choice = DOMAIN here
           /\ \A u \in DOMAIN here : choice[u] \in {"pass", "cancel", "pay"}
<1>1. PICK known \in Nat : Users = 1 .. known
  BY DEF UsersOK, Users
<1> DEFINE at == Now + Day
<1>2. Cardinality(Users) = known /\ at \in Int
  <2>1. Cardinality(1 .. known) = IF 1 > known THEN 0 ELSE known - 1 + 1
    BY FS_Interval
  <2>2. Now \in Int /\ Day \in Nat
    BY NowIsInt
  <2> QED BY <1>1, <2>1, <2>2
<1> HIDE DEF at
<1>3. PICK arrivals \in SeqOf([plan: Plan, code: Offered \cup {None}], MaxUsers - known) :
        LET all == known + Len(arrivals)
            welcome == [u \in known + 1 .. all |-> Welcome(arrivals[u - known], at)]
            here == [u \in 1 .. all |-> IF u \in Users THEN records[u] ELSE welcome[u].rec]
        IN \E choice \in [1 .. all -> {"pass", "cancel", "pay"}] : Spend(welcome, here, choice, at)
  <2> DEFINE Goes(n, m) ==
        \E arrivals \in SeqOf([plan: Plan, code: Offered \cup {None}], MaxUsers - n) :
          LET all == n + Len(arrivals)
              welcome == [u \in n + 1 .. all |-> Welcome(arrivals[u - n], m)]
              here == [u \in 1 .. all |-> IF u \in Users THEN records[u] ELSE welcome[u].rec]
          IN \E choice \in [1 .. all -> {"pass", "cancel", "pay"}] : Spend(welcome, here, choice, m)
  <2>1. Goes(Cardinality(Users), Now + Day)
    BY DEF OneDay
  <2> HIDE DEF Goes
  <2>2. Goes(known, at)
    BY <1>2, <2>1 DEF at
  <2> QED BY <2>2 DEF Goes
<1>4. /\ Len(arrivals) \in Nat
      /\ \A i \in 1 .. Len(arrivals) : arrivals[i] \in [plan: Plan, code: Offered \cup {None}]
  BY DEF SeqOf
<1> DEFINE all == known + Len(arrivals)
           welcome == [u \in known + 1 .. all |-> Welcome(arrivals[u - known], at)]
           here == [u \in 1 .. all |-> IF u \in Users THEN records[u] ELSE welcome[u].rec]
<1>5. PICK choice \in [1 .. all -> {"pass", "cancel", "pay"}] : Spend(welcome, here, choice, at)
  BY <1>3
<1>6. ASSUME NEW u \in 1 .. all, u \notin Users PROVE Lasting(here[u], at) /\ here[u].expires = None
  <2>1. u - known \in 1 .. Len(arrivals) /\ u \in known + 1 .. all
    BY <1>1, <1>4, <1>6
  <2>2. here[u] = Welcome(arrivals[u - known], at).rec
    BY <1>6, <2>1
  <2> HIDE DEF here, at
  <2> QED BY <1>2, <1>4, <2>1, <2>2, WelcomeIs
<1>7. all \in Nat /\ known <= all
  BY <1>4
<1>8. DOMAIN here = 1 .. all /\ \A u \in 1 .. all : u \in Users => here[u] = records[u]
  OBVIOUS
<1>9. Len(here) = all
  <2>1. here \in [1 .. all -> {here[u] : u \in 1 .. all}]
    BY <1>8
  <2> HIDE DEF here, all
  <2> QED BY <1>7, <1>8, <2>1
<1> HIDE DEF here, at, all, welcome
<1>10. Attending(here, at)
  <2>1. Users \subseteq DOMAIN here
    BY <1>1, <1>7, <1>8
  <2> QED BY <1>6, <1>7, <1>8, <2>1 DEF Attending
<1>11. Spent(here, choice, at)
  BY <1>5, <1>8, <1>9, SpendIs
<1> QED BY <1>5, <1>8, <1>10, <1>11 DEF at

(* Another renewal is asked about.                                         *)
LEMMA OneMoreAsked ==
  ASSUME NEW rec, NEW from, NEW list, Asked(from, list), Extends(rec, from),
         rec.expires \in Moment, from.expires \in Int,
         list # <<>> => list[Len(list)] # from.expires
  PROVE  LET more == list \o <<from.expires>>
         IN /\ Asked(rec, more) /\ more # <<>> /\ more[Len(more)] = from.expires
            /\ from.expires \in ToSet(more)
<1> DEFINE e == from.expires
           more == list \o <<e>>
<1>1. /\ list \in Seq(Int) /\ e \in Int /\ e # None
      /\ \A k, j \in 1 .. Len(list) : k < j => list[k] < list[j]
      /\ list # <<>> => list[Len(list)] < e
  BY Moments DEF Asked
<1>2. rec.expires # None /\ rec.expires \in Int /\ e <= rec.expires
  BY <1>1, Moments DEF Extends
<1> HIDE DEF e
<1>3. /\ more \in Seq(Int) /\ Len(more) = Len(list) + 1 /\ more[Len(more)] = e
      /\ \A k \in 1 .. Len(list) : more[k] = list[k]
  BY <1>1
<1>4. \A k \in 1 .. Len(list) : list[k] < e
  <2> SUFFICES ASSUME NEW k \in 1 .. Len(list) PROVE list[k] < e
    OBVIOUS
  <2>1. list # <<>> /\ Len(list) \in 1 .. Len(list) /\ list[Len(list)] \in Int /\ list[k] \in Int
    BY <1>1
  <2>2. CASE k = Len(list)
    BY <1>1, <2>1, <2>2
  <2>3. CASE k < Len(list)
    BY <1>1, <2>1, <2>3
  <2> QED BY <1>1, <2>2, <2>3
<1>5. \A k, j \in 1 .. Len(more) : k < j => more[k] < more[j]
  <2> SUFFICES ASSUME NEW k \in 1 .. Len(more), NEW j \in 1 .. Len(more), k < j
               PROVE  more[k] < more[j]
    OBVIOUS
  <2>1. k \in 1 .. Len(list) /\ (j \in 1 .. Len(list) \/ j = Len(more))
    BY <1>1, <1>3
  <2> HIDE DEF more
  <2> QED BY <1>1, <1>3, <1>4, <2>1
<1>6. more # <<>> /\ e \in ToSet(more)
  <2>1. Len(more) \in DOMAIN more
    BY <1>1, <1>3
  <2> HIDE DEF more
  <2> QED BY <1>3, <2>1 DEF ToSet
<1> HIDE DEF more
<1>7. Asked(rec, more)
  BY <1>2, <1>3, <1>5, <1>6 DEF Asked
<1> QED BY <1>3, <1>6, <1>7 DEF more, e

LEMMA AskedStays ==
  ASSUME NEW rec, NEW from, NEW list, Asked(from, list), Extends(rec, from),
         rec.expires \in Moment, from.expires \in Moment
  PROVE  Asked(rec, list)
<1>1. list # <<>> => Len(list) \in 1 .. Len(list) /\ list[Len(list)] \in Int
  BY DEF Asked
<1>2. list # <<>> => rec.expires \in Int /\ from.expires \in Int /\ from.expires <= rec.expires
  BY Moments DEF Asked, Extends
<1>3. list # <<>> => rec.expires # None /\ list[Len(list)] <= rec.expires
  <2>1. list # <<>> => list[Len(list)] <= from.expires
    BY DEF Asked
  <2> QED BY <1>1, <1>2, <2>1, Moments
<1> QED BY <1>3 DEF Asked

(* A day in the life of one of them.                                       *)
LEMMA OneOfThem ==
  ASSUME IInv, NEW here, NEW choice, OneDay,
         Attending(here, Now + Day), Spent(here, choice, Now + Day),
         DOMAIN choice = DOMAIN here, NEW u \in DOMAIN here,
         choice[u] \in {"pass", "cancel", "pay"}
  PROVE  /\ Lasting(records'[u], Now + Day) /\ Ahead(u)'
         /\ Asked(records'[u], rolls'[u]) /\ Remembered(u)'
         /\ /\ u \in Users /\ records[u].state = "active"
            /\ records'[u].state \in {"grace", "expired"}
            /\ records'[u].cancelled_at = records[u].cancelled_at
            => Due(records[u]) \in ToSet(rolls'[u])
<1> DEFINE at == Now + Day
           rec == here[u]
           list == IF u \in Users THEN rolls[u] ELSE <<>>
           rolled == u \in Rolled(here, choice, at)
<1>1. Now \in Int /\ Day \in Nat /\ Now < at /\ at \in Int /\ First \in Nat
  BY NowIsInt DEF IInv
<1>2. Users = DOMAIN records
  BY DEF Users
<1>3. /\ Asked(rec, list) /\ (u \in DOMAIN ruled_on <=> list # <<>>)
      /\ list # <<>> => ruled_on[u] = list[Len(list)]
  <2>1. CASE u \in Users
    BY <1>2, <2>1 DEF Attending, IInv, RenewalsOK, Remembered
  <2>2. CASE u \notin Users
    <3>1. list = <<>> /\ u \notin DOMAIN ruled_on
      BY <1>2, <2>2 DEF IInv, UsersOK
    <3>2. <<>> \in Seq(Int) /\ Len(<<>>) = 0
      OBVIOUS
    <3> HIDE DEF list
    <3> QED BY <3>1, <3>2 DEF Asked
  <2> QED BY <2>1, <2>2
<1>4. PICK from \in Int : from <= at /\ Lasting(rec, from) /\ (u \in Users => from = Now)
  <2>1. CASE u \in Users
    BY <1>1, <1>2, <2>1 DEF Attending, IInv, RenewalsOK
  <2>2. CASE u \notin Users
    BY <1>1, <2>2 DEF Attending
  <2> QED BY <2>1, <2>2
<1>5. /\ records'[u] = DayOf(rec, choice[u], at).rec
      /\ rolls'[u] = list \o (IF rolled THEN <<Due(rec)>> ELSE <<>>)
      /\ choice[u] \in MayDecide(u, rec, at)
      /\ rolled <=> rec.state = "active" /\ choice[u] # "cancel" /\ Rolls(u, rec, at)
      /\ DOMAIN ruled_on' = DOMAIN ruled_on \cup Rolled(here, choice, at)
      /\ rolled \/ u \in DOMAIN ruled_on => ruled_on'[u] = IF rolled THEN Due(rec) ELSE ruled_on[u]
  <2>1. /\ records'[u] = DayOf(rec, choice[u], at).rec
        /\ rolls'[u] = list \o (IF rolled THEN <<Due(rec)>> ELSE <<>>)
    BY DEF Spent
  <2>2. /\ choice[u] \in MayDecide(u, rec, at)
        /\ rolled <=> rec.state = "active" /\ choice[u] # "cancel" /\ Rolls(u, rec, at)
    BY DEF Spent, Rolled
  <2>3. DOMAIN ruled_on' = DOMAIN ruled_on \cup Rolled(here, choice, at)
    BY DEF Spent
  <2>4. rolled \/ u \in DOMAIN ruled_on => ruled_on'[u] = IF rolled THEN Due(rec) ELSE ruled_on[u]
    BY DEF Spent
  <2> QED BY <2>1, <2>2, <2>3, <2>4
<1>6. Makes(records'[u], rec, choice[u], from, at)
  <2> HIDE DEF rec, at
  <2>1. Makes(DayOf(rec, choice[u], at).rec, rec, choice[u], from, at)
    BY <1>1, <1>4, DayIs
  <2> QED BY <1>5, <2>1
<1>7. /\ rec.expires \in Moment /\ records'[u].expires \in Moment /\ rec.plan \in Plan
      /\ rec.state = "active" => rec.expires \in Int /\ Due(rec) = rec.expires
      /\ records'[u].state = "active" =>
           records'[u].expires \in Int /\ Due(records'[u]) = records'[u].expires
  <2>1. /\ rec \in Subscription /\ (rec.state = "active" => rec.expires \in Int)
        /\ records'[u] \in Subscription
        /\ records'[u].state = "active" => records'[u].expires \in Int
    BY <1>4, <1>6 DEF Lasting, Bounded, Makes
  <2>2. /\ rec.state = "active" => Due(rec) = rec.expires
        /\ records'[u].state = "active" => Due(records'[u]) = records'[u].expires
    BY DEF Due
  <2> QED BY <2>1, <2>2, SubscriptionFields
<1>8. Rolls(u, rec, at) => (rec.state = "active" /\ u \in DOMAIN ruled_on => ruled_on[u] # Due(rec))
  BY DEF Rolls
<1> HIDE DEF rec, list, rolled
<1>9. /\ Asked(records'[u], rolls'[u])
      /\ rolled => /\ rolls'[u] # <<>> /\ rolls'[u][Len(rolls'[u])] = Due(rec)
                   /\ Due(rec) \in ToSet(rolls'[u])
      /\ ~rolled => rolls'[u] = list
  <2>1. CASE rolled
    <3>1. rec.state = "active" /\ rec.expires \in Int /\ Due(rec) = rec.expires
      BY <1>5, <1>7, <2>1
    <3>2. list # <<>> => list[Len(list)] # rec.expires
      BY <1>3, <1>5, <1>8, <2>1, <3>1
    <3>3. rolls'[u] = list \o <<rec.expires>>
      BY <1>5, <2>1, <3>1
    <3> QED BY <1>3, <1>6, <1>7, <2>1, <3>1, <3>2, <3>3, OneMoreAsked DEF Makes
  <2>2. CASE ~rolled
    <3>1. rolls'[u] = list \o <<>> /\ list \in Seq(Int)
      BY <1>3, <1>5, <2>2 DEF Asked
    <3>2. rolls'[u] = list
      BY <3>1
    <3> QED BY <1>3, <1>6, <1>7, <2>2, <3>2, AskedStays DEF Makes
  <2> QED BY <2>1, <2>2
<1>10. Remembered(u)'
  <2>1. CASE rolled
    <3>1. u \in DOMAIN ruled_on'
      BY <1>5, <2>1 DEF rolled
    <3> QED BY <1>5, <1>9, <2>1, <3>1 DEF Remembered
  <2>2. CASE ~rolled
    <3>1. u \in DOMAIN ruled_on' <=> u \in DOMAIN ruled_on
      BY <1>5, <2>2 DEF rolled
    <3> QED BY <1>3, <1>5, <1>9, <2>2, <3>1 DEF Remembered
  <2> QED BY <2>1, <2>2
<1>11. wall \in Int /\ offset \in Int /\ offset' = offset + Day /\ at = wall + offset + Day
       /\ First <= wall /\ wall <= First + MaxWall
  BY DEF IInv, ClockOK, OneDay, Now
<1>12. Ahead(u)'
  <2> SUFFICES ASSUME records'[u].state = "active"
               PROVE  records'[u].expires > First + offset'
    BY DEF Ahead, First
  <2>1. records'[u].expires \in Int /\ ~(records'[u].expires <= at)
    BY <1>6, <1>7, Moments DEF IsDue, Makes
  <2> HIDE DEF at
  <2> QED BY <1>1, <1>11, <2>1
<1>13. ASSUME u \in Users, rec.state = "active", records'[u].state \in {"grace", "expired"},
              records'[u].cancelled_at = rec.cancelled_at
       PROVE  Due(rec) \in ToSet(rolls'[u])
  <2>1. rec.expires > First + offset /\ rec.expires \in Int /\ from = Now
    <3>1. Ahead(u) /\ rec = records[u]
      BY <1>2, <1>13 DEF IInv, RenewalsOK, Attending, rec
    <3> QED BY <1>4, <1>7, <1>13, <3>1 DEF Ahead
  <2>2. at < rec.expires + GraceDays[rec.plan]
    <3>1. GraceDays[rec.plan] >= Day + MaxWall /\ GraceDays[rec.plan] \in Nat /\ MaxWall \in Nat
      BY <1>7, GraceAssumption, Terms, SeederAssumption
    <3> HIDE DEF at
    <3> QED BY <1>1, <1>11, <2>1, <3>1
  <2>3. choice[u] # "cancel"
    BY <1>1, <1>6, <1>13, <2>1, <2>2 DEF Makes
  <2>4. CASE rolled
    BY <1>9, <2>4
  <2>5. CASE ~rolled
    <3>1. ~Rolls(u, rec, at)
      BY <1>5, <1>13, <2>3, <2>5
    <3>2. choice[u] = "pass"
      BY <1>5, <1>13, <2>3, <3>1 DEF MayDecide
    <3>3. IsDue(rec, at)
      BY <1>6, <1>13, <3>2 DEF Makes
    <3>4. DueSoon(rec, at)
      <4>1. Due(rec) # None /\ Due(rec) <= at /\ Due(rec) \in Int
        BY <1>7, <1>13, <3>3 DEF IsDue
      <4> HIDE DEF at
      <4> QED BY <1>1, <4>1, NowIsInt DEF DueSoon, IInv
    <3>5. u \in DOMAIN ruled_on /\ ruled_on[u] = Due(rec)
      BY <3>1, <3>4 DEF Rolls
    <3>6. list # <<>> /\ list \in Seq(Int) /\ list[Len(list)] = Due(rec)
      BY <1>3, <3>5 DEF Asked
    <3>7. Len(list) \in DOMAIN list
      BY <3>6
    <3> QED BY <1>9, <2>5, <3>6, <3>7 DEF ToSet
  <2> QED BY <2>4, <2>5
<1>14. u \in Users => rec = records[u]
  BY DEF Attending, rec
<1> QED BY <1>6, <1>9, <1>10, <1>12, <1>13, <1>14 DEF Makes

LEMMA LastingLater ==
  ASSUME NEW rec, NEW from \in Int, NEW at \in Int, from <= at, Lasting(rec, from)
  PROVE  Lasting(rec, at)
<1>1. rec \in Subscription /\ rec.expires \in Moment /\ rec.cancelled_at \in Moment
  BY SubscriptionFields DEF Lasting
<1> QED BY <1>1, Moments DEF Lasting

LEMMA NextDay ==
  ASSUME NEW d \in Nat, NEW j \in Nat, NEW length \in Nat
  PROVE  /\ (d - 1 - j) * length \in Int
         /\ (d + 1 - 1 - j) * length = (d - 1 - j) * length + length
         /\ (d + 1 - 1 - d) * length = 0
<1>1. d - 1 - j \in Int /\ d + 1 - 1 - j = (d - 1 - j) + 1 /\ d + 1 - 1 - d = 0
  OBVIOUS
<1>2. \A k \in Int : k * length \in Int /\ (k + 1) * length = k * length + length /\ 0 * length = 0
  OBVIOUS
<1> QED BY <1>1, <1>2

LEMMA OneDayStep == IInv /\ OneDay => IInv'
<1> SUFFICES ASSUME IInv, OneDay PROVE IInv'
  OBVIOUS
<1>1. PICK here, choice :
        /\ Attending(here, Now + Day) /\ Spent(here, choice, Now + Day)
        /\ DOMAIN choice = DOMAIN here
        /\ \A u \in DOMAIN here : choice[u] \in {"pass", "cancel", "pay"}
  BY OneDayIs DEF IInv
<1> DEFINE at == Now + Day
<1>2. /\ Now \in Int /\ Day \in Nat /\ Day > 0 /\ at \in Int
      /\ wall' = wall /\ offset' = offset + Day /\ Now' = at
      /\ day' = day + 1 /\ day \in Nat
  <2>1. wall' = wall /\ offset' = offset + Day /\ day' = day + 1
    BY DEF OneDay
  <2>2. wall \in Int /\ offset \in Int /\ day \in Nat
    BY DEF IInv, ClockOK
  <2> QED BY <2>1, <2>2, NowIsInt DEF IInv, Now
<1>3. Users = DOMAIN records
  BY DEF Users
<1>4. /\ DOMAIN records' = DOMAIN here /\ DOMAIN rolls' = DOMAIN here
      /\ DOMAIN joined_on' = DOMAIN here /\ DOMAIN arrived' = DOMAIN here
      /\ DOMAIN ruled_on' = DOMAIN ruled_on \cup Rolled(here, choice, at)
      /\ \A u \in DOMAIN here :
           /\ joined_on'[u] = IF u \in Users THEN joined_on[u] ELSE day
           /\ arrived'[u] = IF u \in Users THEN arrived[u] ELSE at
  BY <1>1 DEF Spent
<1>5. \A u \in DOMAIN here :
        /\ Lasting(records'[u], at) /\ Ahead(u)' /\ Asked(records'[u], rolls'[u]) /\ Remembered(u)'
  <2> SUFFICES ASSUME NEW u \in DOMAIN here
               PROVE  /\ Lasting(records'[u], at) /\ Ahead(u)'
                      /\ Asked(records'[u], rolls'[u]) /\ Remembered(u)'
    OBVIOUS
  <2> QED BY <1>1, OneOfThem
<1> HIDE DEF at
<1>6. ClockOK'
  <2>1. left > 0 /\ left' = left - 1 /\ (stock' = (left = 1))
    BY DEF OneDay
  <2>2. stock' \in BOOLEAN
    BY <2>1, Zenon
  <2> QED BY <1>2, <2>1, <2>2 DEF IInv, ClockOK, First
<1>7. UsersOK'
  <2>1. \E known \in Nat : DOMAIN records' = 1 .. known
    BY <1>1, <1>4 DEF Attending
  <2>2. DOMAIN ruled_on' \subseteq DOMAIN records'
    BY <1>1, <1>3, <1>4 DEF IInv, UsersOK, Rolled, Attending
  <2> QED BY <1>4, <2>1, <2>2 DEF UsersOK
<1>8. RenewalsOK'
  <2>1. \A u \in DOMAIN records' :
          /\ Lasting(records'[u], Now') /\ Ahead(u)'
          /\ Asked(records'[u], rolls'[u]) /\ Remembered(u)'
    BY <1>2, <1>4, <1>5
  <2> QED BY <2>1 DEF RenewalsOK
<1>9. LivesOK'
  <2>1. ASSUME NEW u \in DOMAIN here
        PROVE  /\ arrived'[u] \in Int /\ joined_on'[u] \in Nat /\ joined_on'[u] < day'
               /\ arrived'[u] + (day' - 1 - joined_on'[u]) * Day <= at
    <3>1. CASE u \in Users
      <4>1. /\ arrived'[u] = arrived[u] /\ joined_on'[u] = joined_on[u]
            /\ arrived[u] \in Int /\ joined_on[u] \in Nat /\ joined_on[u] < day
            /\ arrived[u] + (day - 1 - joined_on[u]) * Day <= Now
        BY <1>3, <1>4, <3>1 DEF IInv, LivesOK, AgeOf
      <4> DEFINE age == (day - 1 - joined_on[u]) * Day
      <4>2. age \in Int /\ (day' - 1 - joined_on'[u]) * Day = age + Day
        <5>1. joined_on[u] \in Nat /\ day \in Nat /\ Day \in Nat
          BY <1>2, <4>1
        <5>2. age \in Int /\ (day + 1 - 1 - joined_on[u]) * Day = age + Day
          BY <5>1, NextDay
        <5>3. (day' - 1 - joined_on'[u]) * Day = (day + 1 - 1 - joined_on[u]) * Day
          <6>1. day' - 1 - joined_on'[u] = day + 1 - 1 - joined_on[u]
            BY <1>2, <4>1
          <6> QED BY <6>1, Zenon
        <5> HIDE DEF age
        <5> QED BY <5>2, <5>3
      <4> HIDE DEF age
      <4>3. arrived[u] + age <= Now
        BY <4>1 DEF age
      <4> QED BY <1>2, <4>1, <4>2, <4>3 DEF at
    <3>2. CASE u \notin Users
      <4>1. arrived'[u] = at /\ joined_on'[u] = day
        BY <1>4, <3>2
      <4>2. (day' - 1 - joined_on'[u]) * Day = 0
        BY <1>2, <4>1, NextDay
      <4> QED BY <1>2, <4>1, <4>2
    <3> QED BY <3>1, <3>2
  <2>2. last_active' = last_active
    BY DEF OneDay
  <2>3. DOMAIN last_active' \subseteq DOMAIN records' /\ \A u \in DOMAIN last_active' : last_active'[u] \in Int
    BY <1>1, <1>3, <1>4, <2>2 DEF IInv, LivesOK, Attending
  <2> QED BY <1>2, <1>4, <2>1, <2>3 DEF LivesOK, AgeOf
<1> QED BY <1>6, <1>7, <1>8, <1>9 DEF IInv

LEMMA ElapseStep == IInv /\ Elapse => IInv'
<1> SUFFICES ASSUME IInv, Elapse PROVE IInv'
  OBVIOUS
<1>1. /\ wall' = wall + 1 /\ wall < First + MaxWall
      /\ UNCHANGED <<offset, records, joined_on, ruled_on, last_active, day, left, stock, rolls, arrived>>
  BY DEF Elapse, population, history, First
<1>2. ClockOK'
  BY <1>1, SeederAssumption, NowIsInt DEF IInv, ClockOK, First
<1>3. Now' = Now + 1 /\ Now \in Int
  <2>1. wall \in Int /\ offset \in Int
    BY DEF IInv, ClockOK
  <2> QED BY <1>1, <2>1 DEF Now
<1>4. UsersOK'
  BY <1>1 DEF IInv, UsersOK
<1>5. RenewalsOK'
  <2> SUFFICES ASSUME NEW u \in DOMAIN records
               PROVE  /\ Lasting(records[u], Now') /\ Ahead(u)'
                      /\ Asked(records[u], rolls[u]) /\ Remembered(u)'
    BY <1>1 DEF RenewalsOK
  <2>1. Lasting(records[u], Now) /\ Ahead(u) /\ Asked(records[u], rolls[u]) /\ Remembered(u)
    BY DEF IInv, RenewalsOK
  <2>2. Now + 1 \in Int /\ Now <= Now + 1
    BY <1>3
  <2>3. Lasting(records[u], Now + 1)
    BY <1>3, <2>1, <2>2, LastingLater
  <2>4. Ahead(u)' /\ Remembered(u)'
    BY <1>1, <2>1 DEF Ahead, Remembered, First
  <2> QED BY <1>3, <2>1, <2>3, <2>4
<1>6. LivesOK'
  <2>1. ASSUME NEW u \in DOMAIN records
        PROVE  /\ arrived[u] \in Int /\ joined_on[u] \in Nat /\ joined_on[u] < day
               /\ arrived[u] + AgeOf(u) <= Now'
    <3>1. /\ arrived[u] \in Int /\ joined_on[u] \in Nat /\ joined_on[u] < day
          /\ arrived[u] + AgeOf(u) <= Now
      BY DEF IInv, LivesOK
    <3>2. AgeOf(u) \in Int
      BY <3>1, NowIsInt, NextDay DEF IInv, ClockOK, AgeOf
    <3> QED BY <1>3, <3>1, <3>2
  <2> QED BY <1>1, <2>1 DEF IInv, LivesOK, AgeOf
<1> QED BY <1>2, <1>4, <1>5, <1>6 DEF IInv

LEMMA CarryOnStep == IInv /\ (\E days \in 1 .. MaxDays : CarryOn(days)) => IInv'
<1> SUFFICES ASSUME IInv, NEW days \in 1 .. MaxDays, CarryOn(days) PROVE IInv'
  OBVIOUS
<1>1. /\ left' = days
      /\ UNCHANGED <<wall, offset, records, joined_on, ruled_on, last_active, day, stock, rolls, arrived>>
  BY DEF CarryOn, population, history
<1>2. days \in Nat
  BY SeederAssumption
<1>3. ClockOK' /\ Now' = Now
  BY <1>1, <1>2 DEF IInv, ClockOK, First, Now
<1>4. UsersOK'
  BY <1>1 DEF IInv, UsersOK
<1>5. RenewalsOK'
  BY <1>1, <1>3 DEF IInv, RenewalsOK, Ahead, Remembered, First
<1>6. LivesOK'
  BY <1>1, <1>3 DEF IInv, LivesOK, AgeOf
<1> QED BY <1>3, <1>4, <1>5, <1>6 DEF IInv

LEMMA TickStep == IInv /\ Tick => IInv'
<1> SUFFICES ASSUME IInv, Tick PROVE IInv'
  OBVIOUS
<1>1. UNCHANGED <<wall, offset, joined_on, ruled_on, last_active, day, left, stock, rolls, arrived>>
  BY DEF Tick, population
<1>2. records' = [u \in DOMAIN records |-> CaughtUp(records[u], Now).rec]
  BY DEF Tick, Users
<1>3. Now' = Now /\ ClockOK' /\ Now \in Int
  BY <1>1, NowIsInt DEF IInv, ClockOK, First, Now
<1>4. UsersOK'
  BY <1>1, <1>2 DEF IInv, UsersOK
<1>5. RenewalsOK'
  <2> SUFFICES ASSUME NEW u \in DOMAIN records
               PROVE  /\ Lasting(records'[u], Now) /\ Ahead(u)'
                      /\ Asked(records'[u], rolls[u]) /\ Remembered(u)'
    BY <1>1, <1>2, <1>3 DEF RenewalsOK
  <2>1. Lasting(records[u], Now) /\ Ahead(u) /\ Asked(records[u], rolls[u]) /\ Remembered(u)
    BY DEF IInv, RenewalsOK
  <2> DEFINE r == CaughtUp(records[u], Now).rec
  <2>2. /\ Lasting(r, Now) /\ ~IsDue(r, Now)
        /\ r.expires = records[u].expires
        /\ r.state = records[u].state \/ r.state \in {"grace", "expired"}
    <3>1. Now <= Now
      BY <1>3
    <3> QED BY <1>3, <2>1, <3>1, CaughtUpIs
  <2>3. records'[u] = r
    BY <1>2
  <2> HIDE DEF r
  <2>4. Ahead(u)'
    BY <1>1, <2>1, <2>2, <2>3 DEF Ahead, First
  <2>5. Asked(r, rolls[u])
    <3>1. Extends(r, records[u])
      <4>1. records[u].expires # None => records[u].expires \in Int
        BY <2>1, SubscriptionFields, Moments DEF Lasting
      <4> QED BY <2>2, <4>1 DEF Extends
    <3>2. r.expires \in Moment /\ records[u].expires \in Moment
      BY <2>1, <2>2, SubscriptionFields DEF Lasting
    <3> QED BY <2>1, <3>1, <3>2, AskedStays
  <2>6. Remembered(u)'
    BY <1>1, <2>1 DEF Remembered
  <2> QED BY <2>2, <2>3, <2>4, <2>5, <2>6
<1>6. LivesOK'
  BY <1>1, <1>2, <1>3 DEF IInv, LivesOK, AgeOf
<1> QED BY <1>3, <1>4, <1>5, <1>6 DEF IInv

LEMMA EndsOfTwo ==
  ASSUME NEW a \in Int, NEW b \in Int
  PROVE  /\ Min({a, b}) \in {a, b} /\ Min({a, b}) <= a /\ Min({a, b}) <= b
         /\ Max({a, b}) \in {a, b} /\ Max({a, b}) >= a /\ Max({a, b}) >= b
<1>1. \E x \in {a, b} : \A y \in {a, b} : x <= y
  <2>1. CASE a <= b
    BY <2>1
  <2>2. CASE b <= a
    BY <2>2
  <2> QED BY <2>1, <2>2
<1>2. \E x \in {a, b} : \A y \in {a, b} : x >= y
  <2>1. CASE a >= b
    BY <2>1
  <2>2. CASE b >= a
    BY <2>2
  <2> QED BY <2>1, <2>2
<1> QED BY <1>1, <1>2 DEF Min, Max

(* Where a mark may fall: FRESHEST behind now at least, within the life or *)
(* just there, and not before the window or the life asks for.             *)
LEMMA SeenWhen ==
  ASSUME NEW window \in Nat \X Nat, window[1] <= window[2], NEW moment \in Int, NEW age \in Int,
         NEW seen \in LastSeenAt(window, moment, age)
  PROVE  /\ seen \in Int /\ moment - seen >= FRESHEST
         /\ moment - seen <= age \/ moment - seen = FRESHEST
         /\ moment - seen >= Min({window[1], age})
<1> DEFINE high == Min({window[2], age})
           low == Min({window[1], high})
           least == Min({window[1], age})
<1>1. /\ window[1] \in Int /\ window[2] \in Int /\ FRESHEST \in Int
  BY SeederAssumption
<1>2. high \in Int /\ high <= age /\ (high = window[2] \/ high = age)
  <2>1. high \in {window[2], age} /\ high <= age
    BY <1>1, EndsOfTwo, Zenon
  <2> HIDE DEF high
  <2> QED BY <1>1, <2>1
<1>3. least \in Int /\ least <= window[1] /\ least <= age
  <2>1. least \in {window[1], age} /\ least <= window[1] /\ least <= age
    BY <1>1, EndsOfTwo, Zenon
  <2> HIDE DEF least
  <2> QED BY <1>1, <2>1
<1>4. PICK gap \in {low, high} : seen = moment - Max({gap, FRESHEST})
  BY DEF LastSeenAt
<1> HIDE DEF high, least
<1>5. low \in Int /\ low <= high /\ (low = window[1] \/ low = high)
  <2>1. low \in {window[1], high} /\ low <= high
    BY <1>1, <1>2, EndsOfTwo, Zenon
  <2> HIDE DEF low
  <2> QED BY <1>1, <1>2, <2>1
<1> HIDE DEF low
<1>6. gap \in Int /\ gap <= age /\ least <= gap
  BY <1>1, <1>2, <1>3, <1>4, <1>5
<1> DEFINE far == Max({gap, FRESHEST})
<1>7. far \in Int /\ far >= gap /\ far >= FRESHEST /\ (far = gap \/ far = FRESHEST)
  <2>1. far \in {gap, FRESHEST} /\ far >= gap /\ far >= FRESHEST
    BY <1>1, <1>6, EndsOfTwo, Zenon
  <2> HIDE DEF far
  <2> QED BY <1>1, <1>6, <2>1
<1> HIDE DEF far
<1>8. moment - seen = far /\ seen \in Int
  BY <1>4, <1>7 DEF far
<1> QED BY <1>3, <1>6, <1>7, <1>8, <1>1 DEF least

LEMMA TheWindow ==
  ASSUME NEW state, NEW isQuiet
  PROVE  /\ WindowFor(state, isQuiet) \in Nat \X Nat
         /\ WindowFor(state, isQuiet)[1] <= WindowFor(state, isQuiet)[2]
<1>1. WindowFor(state, isQuiet) \in {QUIET_WINDOW, PRESENT_WINDOW, EXPIRED_WINDOW, CANCELLED_WINDOW}
  <2>1. CASE state = "cancelled"
    BY <2>1 DEF WindowFor
  <2>2. CASE state = "expired"
    BY <2>2 DEF WindowFor
  <2>3. CASE state # "cancelled" /\ state # "expired"
    BY <2>3 DEF WindowFor
  <2> QED BY <2>1, <2>2, <2>3
<1> QED BY <1>1, SeederAssumption

(* What taking stock does to somebody's mark.                              *)
LEMMA StockIs ==
  ASSUME IInv, TakeStock
  PROVE  /\ DOMAIN last_active' = Users
         /\ \A u \in Users \ Redrawn : u \in DOMAIN last_active /\ last_active'[u] = last_active[u]
         /\ \A u \in Redrawn :
              \E seen \in LastSeenAt(WindowFor(records[u].state, u \in quiet'), Now, AgeOf(u)) :
                 /\ seen \in Int
                 /\ u \notin DOMAIN last_active => last_active'[u] = seen
                 /\ u \in DOMAIN last_active =>
                      last_active'[u] \in {last_active[u], seen} /\ last_active'[u] >= last_active[u]
<1>1. PICK drawn \in [Redrawn -> 0 .. Now] :
        /\ \A u \in Redrawn :
             drawn[u] \in LastSeenAt(WindowFor(records[u].state, u \in quiet'), Now, AgeOf(u))
        /\ last_active' =
             [u \in Users |->
                 IF u \notin Redrawn THEN last_active[u]
                 ELSE IF u \in DOMAIN last_active THEN Max({last_active[u], drawn[u]}) ELSE drawn[u]]
  BY DEF TakeStock
<1>2. ASSUME NEW u \in Redrawn
      PROVE  \E seen \in LastSeenAt(WindowFor(records[u].state, u \in quiet'), Now, AgeOf(u)) :
                 /\ seen \in Int
                 /\ u \notin DOMAIN last_active => last_active'[u] = seen
                 /\ u \in DOMAIN last_active =>
                      last_active'[u] \in {last_active[u], seen} /\ last_active'[u] >= last_active[u]
  <2>1. /\ drawn[u] \in Int /\ u \in Users
        /\ drawn[u] \in LastSeenAt(WindowFor(records[u].state, u \in quiet'), Now, AgeOf(u))
    <3>1. Now \in Int
      BY NowIsInt DEF IInv
    <3> QED BY <1>1, <3>1 DEF Redrawn
  <2>2. u \in DOMAIN last_active => last_active[u] \in Int
    BY DEF IInv, LivesOK
  <2>3. /\ u \notin DOMAIN last_active => last_active'[u] = drawn[u]
        /\ u \in DOMAIN last_active => last_active'[u] = Max({last_active[u], drawn[u]})
    BY <1>1, <2>1
  <2>4. u \in DOMAIN last_active =>
          last_active'[u] \in {last_active[u], drawn[u]} /\ last_active'[u] >= last_active[u]
    BY <2>1, <2>2, <2>3, EndsOfTwo, Zenon
  <2> QED BY <2>1, <2>3, <2>4
<1>3. /\ DOMAIN last_active' = Users
      /\ \A u \in Users \ Redrawn : u \in DOMAIN last_active /\ last_active'[u] = last_active[u]
  BY <1>1 DEF Redrawn
<1> QED BY <1>2, <1>3

LEMMA TakeStockStep == IInv /\ TakeStock => IInv'
<1> SUFFICES ASSUME IInv, TakeStock PROVE IInv'
  OBVIOUS
<1>1. /\ stock' = FALSE
      /\ UNCHANGED <<wall, offset, records, joined_on, ruled_on, day, left, rolls, arrived>>
  BY DEF TakeStock, history
<1>2. ClockOK' /\ Now' = Now
  BY <1>1 DEF IInv, ClockOK, First, Now
<1>3. UsersOK'
  BY <1>1 DEF IInv, UsersOK
<1>4. RenewalsOK'
  BY <1>1, <1>2 DEF IInv, RenewalsOK, Ahead, Remembered, First
<1>5. LivesOK'
  <2>1. DOMAIN last_active' = Users
    BY StockIs
  <2>2. ASSUME NEW u \in Users PROVE last_active'[u] \in Int
    <3>1. u \in DOMAIN last_active => last_active[u] \in Int
      BY DEF IInv, LivesOK
    <3>2. CASE u \in Redrawn
      BY <3>1, <3>2, StockIs
    <3>3. CASE u \notin Redrawn
      BY <3>1, <3>3, StockIs
    <3> QED BY <3>2, <3>3
  <2> QED BY <1>1, <1>2, <2>1, <2>2 DEF IInv, LivesOK, AgeOf, Users
<1> QED BY <1>2, <1>3, <1>4, <1>5 DEF IInv

LEMMA InitInv == Init => IInv
<1> SUFFICES ASSUME Init PROVE IInv
  OBVIOUS
<1>1. /\ wall = First /\ offset = -First /\ day = 0 /\ left = FirstDays /\ stock = FALSE
      /\ records = Nothing /\ joined_on = Nothing /\ ruled_on = Nothing /\ last_active = Nothing
      /\ rolls = Nothing /\ arrived = Nothing
  BY DEF Init, First
<1>2. DOMAIN Nothing = {} /\ {} = 1 .. 0 /\ 0 \in Nat
  BY DEF Nothing
<1>3. First \in Nat /\ FirstDays \in Nat /\ MaxWall \in Nat
  BY SeederAssumption, CalendarAssumption DEF First
<1>4. ClockOK
  <2>1. stock \in BOOLEAN
    BY <1>1, Zenon
  <2> QED BY <1>1, <1>3, <2>1 DEF ClockOK
<1>5. UsersOK
  BY <1>1, <1>2 DEF UsersOK
<1>6. RenewalsOK /\ LivesOK
  BY <1>1, <1>2 DEF RenewalsOK, LivesOK
<1> QED BY <1>4, <1>5, <1>6 DEF IInv

LEMMA Inductive == IInv /\ [Next]_vars => IInv'
<1> SUFFICES ASSUME IInv, [Next]_vars PROVE IInv'
  OBVIOUS
<1>1. CASE OneDay
  BY <1>1, OneDayStep
<1>2. CASE TakeStock
  BY <1>2, TakeStockStep
<1>3. CASE \E days \in 1 .. MaxDays : CarryOn(days)
  BY <1>3, CarryOnStep
<1>4. CASE Elapse
  BY <1>4, ElapseStep
<1>5. CASE Tick
  BY <1>5, TickStep
<1>6. CASE UNCHANGED vars
  <2>1. UNCHANGED <<wall, offset, records, joined_on, ruled_on, last_active, day, left, stock, rolls, arrived>>
    BY <1>6 DEF vars
  <2>2. ClockOK' /\ Now' = Now
    BY <2>1 DEF IInv, ClockOK, First, Now
  <2>3. UsersOK'
    BY <2>1 DEF IInv, UsersOK
  <2>4. RenewalsOK'
    BY <2>1, <2>2 DEF IInv, RenewalsOK, Ahead, Remembered, First
  <2>5. LivesOK'
    BY <2>1, <2>2 DEF IInv, LivesOK, AgeOf
  <2> QED BY <2>2, <2>3, <2>4, <2>5 DEF IInv
<1> QED BY <1>1, <1>2, <1>3, <1>4, <1>5, <1>6 DEF Next

(* At every moment whoever is there holds a record the engine could have   *)
(* left, runs the period they last paid for, and is remembered to have     *)
(* been asked about the last renewal they were asked about: ruled_on is    *)
(* what keeps the next day from asking again (_one_day).                   *)
THEOREM Invariance == Spec => []IInv
BY InitInv, Inductive, PTL DEF Spec

LEMMA AskedOnce ==
  ASSUME NEW rec, NEW list, Asked(rec, list)
  PROVE  IsInjective(list)
<1>1. /\ list \in Seq(Int) /\ DOMAIN list = 1 .. Len(list) /\ Len(list) \in Nat
      /\ \A i, j \in 1 .. Len(list) : i < j => list[i] < list[j]
  BY DEF Asked
<1>2. ASSUME NEW i \in DOMAIN list, NEW j \in DOMAIN list, list[i] = list[j] PROVE i = j
  <2>1. list[i] \in Int /\ i \in 1 .. Len(list) /\ j \in 1 .. Len(list)
    BY <1>1
  <2>2. ~(i < j) /\ ~(j < i)
    BY <1>1, <1>2, <2>1
  <2> QED BY <2>1, <2>2
<1> QED BY <1>2 DEF IsInjective

LEMMA RuledOnceStep ==
  ASSUME IInv, IInv', [Next]_vars
  PROVE  /\ \A u \in DOMAIN rolls' : IsInjective(rolls'[u])
         /\ \A u \in Users :
              /\ left > 0 /\ records[u].state = "active" /\ records'[u].state \in {"grace", "expired"}
              /\ records'[u].cancelled_at = records[u].cancelled_at
              => Due(records[u]) \in ToSet(rolls'[u])
<1>1. \A u \in DOMAIN rolls' : IsInjective(rolls'[u])
  BY AskedOnce DEF IInv, UsersOK, RenewalsOK
<1>2. ASSUME NEW u \in Users, left > 0, records[u].state = "active",
             records'[u].state \in {"grace", "expired"},
             records'[u].cancelled_at = records[u].cancelled_at
      PROVE  Due(records[u]) \in ToSet(rolls'[u])
  <2>1. OneDay
    <3>1. records' # records
      BY <1>2
    <3>2. ~Tick
      BY <1>2 DEF Tick, Running
    <3> QED BY <3>1, <3>2 DEF Next, vars, TakeStock, CarryOn, Elapse
  <2>2. PICK here, choice :
          /\ Attending(here, Now + Day) /\ Spent(here, choice, Now + Day)
          /\ DOMAIN choice = DOMAIN here
          /\ \A v \in DOMAIN here : choice[v] \in {"pass", "cancel", "pay"}
    BY <2>1, OneDayIs DEF IInv
  <2>3. u \in DOMAIN here
    BY <2>2 DEF Attending
  <2> QED BY <1>2, <2>1, <2>2, <2>3, OneOfThem
<1> QED BY <1>1, <1>2

(* What taking stock does to one of them is honest.                        *)
LEMMA OneMark ==
  ASSUME IInv, TakeStock, NEW u \in Users
  PROVE  LET known == u \in DOMAIN last_active
             silence == Now - last_active'[u]
             moved == ~known \/ last_active'[u] # last_active[u]
         IN /\ known => last_active'[u] >= last_active[u]
            /\ known /\ records[u].state \notin LIVE => ~moved
            /\ moved => /\ silence >= FRESHEST
                        /\ last_active'[u] >= arrived[u] \/ silence = FRESHEST
            /\ moved /\ u \in quiet' /\ records[u].state \in LIVE
                 => silence >= Min({QUIET_WINDOW[1], AgeOf(u)})
<1> DEFINE known == u \in DOMAIN last_active
           silence == Now - last_active'[u]
           moved == ~known \/ last_active'[u] # last_active[u]
           window == WindowFor(records[u].state, u \in quiet')
<1>1. /\ arrived[u] \in Int /\ AgeOf(u) \in Int /\ arrived[u] + AgeOf(u) <= Now /\ Now \in Int
      /\ known => last_active[u] \in Int
  <2>1. /\ arrived[u] \in Int /\ joined_on[u] \in Nat /\ day \in Nat /\ Day \in Nat
        /\ arrived[u] + AgeOf(u) <= Now /\ Now \in Int
        /\ known => last_active[u] \in Int
    BY NowIsInt DEF IInv, LivesOK, Users, ClockOK
  <2>2. AgeOf(u) \in Int
    BY <2>1, NextDay DEF AgeOf
  <2> QED BY <2>1, <2>2
<1>2. CASE u \notin Redrawn
  BY <1>1, <1>2, StockIs
<1>3. CASE u \in Redrawn
  <2>1. PICK seen \in LastSeenAt(window, Now, AgeOf(u)) :
          /\ seen \in Int
          /\ ~known => last_active'[u] = seen
          /\ known => last_active'[u] \in {last_active[u], seen} /\ last_active'[u] >= last_active[u]
    BY <1>3, StockIs
  <2>2. window \in Nat \X Nat /\ window[1] <= window[2]
    BY TheWindow
  <2>3. u \in quiet' /\ records[u].state \in LIVE => window = QUIET_WINDOW
    BY DEF WindowFor, LIVE
  <2>4. known => records[u].state \in LIVE
    BY <1>3 DEF Redrawn
  <2> HIDE DEF window
  <2>5. /\ Now - seen >= FRESHEST
        /\ Now - seen <= AgeOf(u) \/ Now - seen = FRESHEST
        /\ Now - seen >= Min({window[1], AgeOf(u)})
    BY <1>1, <2>1, <2>2, SeenWhen
  <2>6. moved => last_active'[u] = seen
    BY <2>1
  <2>7. seen >= arrived[u] \/ Now - seen = FRESHEST
    BY <1>1, <2>1, <2>5
  <2>8. moved /\ u \in quiet' /\ records[u].state \in LIVE
          => silence >= Min({QUIET_WINDOW[1], AgeOf(u)})
    BY <2>3, <2>5, <2>6
  <2> QED BY <2>1, <2>4, <2>5, <2>6, <2>7, <2>8
<1> QED BY <1>2, <1>3

LEMMA MarksStep ==
  ASSUME IInv, [Next]_vars, stock
  PROVE  /\ quiet \subseteq quiet' /\ quiet' \cap decided \subseteq quiet
         /\ last_active' # last_active => TakeStock
<1>1. CASE TakeStock
  <2>1. PICK gone \in SUBSET {u \in Redrawn : records[u].state \in LIVE /\ u \notin decided} :
          quiet' = quiet \cup gone
    BY <1>1 DEF TakeStock
  <2> QED BY <1>1, <2>1
<1>2. CASE ~TakeStock
  <2>1. quiet' = quiet /\ last_active' = last_active
    BY <1>2 DEF Next, vars, OneDay, CarryOn, Elapse, Tick, population
  <2> QED BY <2>1
<1> QED BY <1>1, <1>2

(* No renewal is decided about twice, and on no day of a run does a period *)
(* run out for somebody who did not cancel and was not asked (_one_day and *)
(* ruled_on).                                                              *)
THEOREM RenewalsRuledOnce == Spec => RenewalsAreRuledOnce
<1>1. IInv /\ IInv' /\ [Next]_vars =>
        [/\ \A u \in DOMAIN rolls' : IsInjective(rolls'[u])
         /\ \A u \in Users :
              /\ left > 0 /\ records[u].state = "active" /\ records'[u].state \in {"grace", "expired"}
              /\ records'[u].cancelled_at = records[u].cancelled_at
              => Due(records[u]) \in ToSet(rolls'[u])]_vars
  BY RuledOnceStep
<1> QED BY <1>1, Invariance, PTL DEF Spec, RenewalsAreRuledOnce

(* Taking stock never makes activity un-happen, moves no mark of somebody  *)
(* who has left, sets none to before the subscriber existed unless         *)
(* FRESHEST demands it, and lets nobody who has gone quiet speak within    *)
(* the quiet window (_take_stock, last_seen_at).                           *)
THEOREM HonestMarks == Spec => MarksAreHonest
<1>1. IInv /\ [Next]_vars =>
        [stock =>
         /\ quiet \subseteq quiet' /\ quiet' \cap decided \subseteq quiet
         /\ \A u \in Users :
              LET known == u \in DOMAIN last_active
                  silence == Now - last_active'[u]
                  moved == ~known \/ last_active'[u] # last_active[u]
              IN (last_active' # last_active) =>
                   /\ known => last_active'[u] >= last_active[u]
                   /\ known /\ records[u].state \notin LIVE => ~moved
                   /\ moved => /\ silence >= FRESHEST
                               /\ last_active'[u] >= arrived[u] \/ silence = FRESHEST
                   /\ moved /\ u \in quiet' /\ records[u].state \in LIVE
                        => silence >= Min({QUIET_WINDOW[1], AgeOf(u)})]_vars
  BY MarksStep, OneMark
<1> QED BY <1>1, Invariance, PTL DEF Spec, MarksAreHonest
=============================================================================
