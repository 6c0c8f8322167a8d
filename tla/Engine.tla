------------------------------ MODULE Engine ------------------------------
(***************************************************************************)
(* The subscription engine, substate: an external library.  Its rules are  *)
(* modelled from what this repository uses, asserts and explains of them:  *)
(* backend/tests/test_subscriber_operations.py, test_worlds.py,            *)
(* test_analytics.py, seed/catalogue.py and frontend/src/domain/events.ts. *)
(*                                                                         *)
(* An operator takes a record and answers with what becomes of it, the     *)
(* events it emits in their order, and whether it was refused.             *)
(***************************************************************************)
EXTENDS Integers, Sequences

CONSTANTS
    Plan,
    Period, TrialDays, GraceDays,   \* [Plan -> Nat], in ticks of the model
    Price,                          \* [Plan -> Nat]
    GrantDays,                      \* what a code that grants days grants
    None                            \* no value

State == {"grace", "trial", "active", "cancelled", "expired"}

(* A code is a discount or a grant of days.                                *)
Code == {"discount", "days"}

ASSUME TermsAssumption ==
    /\ {Period, TrialDays, GraceDays, Price} \subseteq [Plan -> Nat]
    /\ GrantDays \in Nat

(* A subscriber's record; the state that runs has its boundary.            *)
Moment == Int \cup {None}
Subscription ==
    [state: State, plan: Plan, pending: Plan \cup {None}, trial_ends: Moment,
     expires: Moment, cancelled_at: Moment, promo: Code \cup {None}, trialled: BOOLEAN]
Bounded(rec) ==
    /\ rec \in Subscription
    /\ rec.state = "trial" => rec.trial_ends \in Int
    /\ rec.state \in {"active", "grace"} => rec.expires \in Int

Out(rec, events) == [rec |-> rec, events |-> events, refusal |-> None]
Refusal(rec, events, code) == [rec |-> rec, events |-> events, refusal |-> code]

Event(type, detail) == [type |-> type, detail |-> detail]

GraceEnds(rec) == IF rec.expires = None THEN None ELSE rec.expires + GraceDays[rec.plan]

(* due_at: when the record changes by itself, if it does.                  *)
Due(rec) ==
    CASE rec.state = "trial" -> rec.trial_ends
      [] rec.state \in {"active", "cancelled"} -> rec.expires
      [] rec.state = "grace" -> GraceEnds(rec)
      [] rec.state = "expired" -> None

(* access_until: the boundary of the state the record is in.               *)
AccessUntil(rec) == IF rec.state = "expired" THEN rec.expires ELSE Due(rec)

Ended(rec) == rec.state \in {"cancelled", "expired"}

(* One boundary crossed, with the reason of an expiry.                     *)
Crossed(rec) ==
    LET over(reason) ==
            Out([rec EXCEPT !.state = "expired"], <<Event("subscription.expired", reason)>>)
    IN CASE rec.state = "trial" -> over("trial_not_converted")
         [] rec.state = "cancelled" -> over("cancelled")
         [] rec.state = "grace" -> over("grace_ended")
         [] rec.state = "active" ->
              IF GraceDays[rec.plan] = 0 THEN over("not_renewed")
              ELSE Out([rec EXCEPT !.state = "grace"],
                       <<Event("subscription.entering_grace", None)>>)

IsDue(rec, now) == Due(rec) # None /\ Due(rec) <= now

(* The record caught up with the clock: nobody pays, so two boundaries are *)
(* all there can be.                                                       *)
CaughtUp(rec, now) ==
    LET once == Crossed(rec)
        twice == Crossed(once.rec)
    IN IF ~IsDue(rec, now) THEN Out(rec, <<>>)
       ELSE IF ~IsDue(once.rec, now) THEN once
       ELSE Out(twice.rec, once.events \o twice.events)

(* Catch up, then do the rest.                                             *)
After(rec, now, rest(_)) ==
    LET caught == CaughtUp(rec, now)
        done == rest(caught.rec)
    IN [done EXCEPT !.events = caught.events \o @]

(* A cycle begins in place; a trial is granted once in a record's life.    *)
Begun(rec, plan, now) ==
    LET trial == TrialDays[plan] > 0 /\ (rec = None \/ ~rec.trialled)
        state == IF trial THEN "trial" ELSE "expired"
    IN Out([state |-> state, plan |-> plan, pending |-> None,
            trial_ends |-> IF trial THEN now + TrialDays[plan] ELSE None,
            expires |-> None, cancelled_at |-> None, promo |-> None,
            trialled |-> trial \/ (rec # None /\ rec.trialled)],
           <<Event("subscription.created", state)>>)

Subscribe(rec, plan, now) ==
    IF plan \notin Plan THEN Refusal(rec, <<>>, "UNKNOWN_PLAN")
    ELSE IF rec = None THEN Begun(rec, plan, now)
    ELSE After(rec, now, LAMBDA r : IF Ended(r) THEN Begun(r, plan, now)
                                    ELSE Refusal(r, <<>>, "ALREADY_SUBSCRIBED"))

(* Cancelling what has ended already changes nothing.                      *)
Cancel(rec, now) ==
    After(rec, now, LAMBDA r :
        IF Ended(r) THEN Out(r, <<>>)
        ELSE Out([r EXCEPT !.state = "cancelled", !.cancelled_at = now],
                 <<Event("subscription.cancelled", r.expires)>>))

(* Naming the plan it is on drops a pending change.                        *)
ChangePlan(rec, plan, now) ==
    IF plan \notin Plan THEN Refusal(rec, <<>>, "UNKNOWN_PLAN")
    ELSE After(rec, now, LAMBDA r :
        LET pending == IF plan = r.plan THEN None ELSE plan
        IN IF pending = r.pending THEN Out(r, <<>>)
           ELSE Out([r EXCEPT !.pending = pending],
                    <<Event("subscription.plan_changed", pending)>>))

(* An unknown code is refused before the record is looked at, a spent one  *)
(* after it was caught up.  Days push the boundary of the state.           *)
Redeem(rec, code, spent, now) ==
    IF code \notin Code THEN Refusal(rec, <<>>, "UNKNOWN_PROMO_CODE")
    ELSE After(rec, now, LAMBDA r :
        LET redeemed == <<Event("promo.redeemed", code)>>
            longer == [r EXCEPT !.expires = @ + GrantDays]
        IN CASE spent -> Refusal(r, <<>>, "PROMO_LIMIT_REACHED")
             [] ~spent /\ code = "discount" ->
                  IF r.promo # None THEN Refusal(r, <<>>, "PROMO_ALREADY_BOUND")
                  ELSE Out([r EXCEPT !.promo = code], redeemed)
             [] ~spent /\ code = "days" ->
                  CASE r.state = "trial" -> Out([r EXCEPT !.trial_ends = @ + GrantDays], redeemed)
                    [] r.state = "active" -> Out(longer, redeemed)
                    [] r.state = "grace" /\ longer.expires > now ->
                         Out([longer EXCEPT !.state = "active"],
                             redeemed \o <<Event("subscription.activated", longer.expires)>>)
                    [] OTHER -> Out(r, redeemed))

(* What the next payment buys.                                             *)
Bought(rec) == IF rec.pending = None THEN rec.plan ELSE rec.pending

(* A payment is recorded whatever it does.  On a cancelled record, or      *)
(* short of the price, it does nothing more.                               *)
Pay(rec, amount, now) ==
    After(rec, now, LAMBDA r :
        LET recorded == <<Event("payment.recorded", amount)>>
            until == (IF r.state = "active" THEN r.expires ELSE now) + Period[Bought(r)]
            paid == [r EXCEPT !.state = "active", !.plan = Bought(r), !.pending = None,
                              !.expires = until]
            kind == IF r.state \in {"active", "grace"}
                    THEN "subscription.renewed" ELSE "subscription.activated"
        IN CASE r.state = "cancelled" -> Out(r, recorded)
             [] r.state # "cancelled" /\ amount < Price[Bought(r)] ->
                  Out(r, recorded \o <<Event("payment.underpaid", Price[Bought(r)])>>)
             [] OTHER -> Out(paid, recorded \o <<Event(kind, until)>>))
=============================================================================
