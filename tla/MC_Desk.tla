------------------------------ MODULE MC_Desk ------------------------------
(* Desk with three subscribers: one whose period ends on the second tick,  *)
(* one in trial, one whose subscription has ended; two requests from a     *)
(* menu that has every action, a reference sent twice, a spent code and a  *)
(* subscriber nobody knows.                                                *)
EXTENDS Desk, TLC

Slots == Permutations(Request)

Plans == {"weekly", "monthly"}
Periods == [p \in Plans |-> IF p = "weekly" THEN 3 ELSE 4]
Trials == [p \in Plans |-> IF p = "weekly" THEN 0 ELSE 2]
Graces == [p \in Plans |-> 1]
Prices == [p \in Plans |-> IF p = "weekly" THEN 2 ELSE 5]
Bands == <<5>>
OneEach == [c \in {"discount", "days"} |-> 1]

Standing(state, plan, trial_ends, expires, trialled) ==
    [state |-> state, plan |-> plan, pending |-> None, trial_ends |-> trial_ends, expires |-> expires,
     cancelled_at |-> None, promo |-> None, trialled |-> trialled]

People ==
    <<Standing("active", "monthly", 7, 11, TRUE), Standing("trial", "monthly", 12, None, TRUE),
      Standing("expired", "weekly", None, 9, FALSE)>>
Views == <<[name |-> 3, last |-> 4], [name |-> 1, last |-> 9]>>

Past(number, type) ==
    [seq |-> number, user |-> 1, type |-> type, at |-> 8, detail |-> None, by |-> None]
Earlier == {Past(1, "payment.recorded"), Past(2, "subscription.renewed")}
Abroad ==
    {[seq |-> 3, at |-> 9, action |-> "role.update", target |-> 1, outcome |-> "ok", code |-> None,
      world |-> "elsewhere", by |-> None]}

Op(action, user, value, reference) ==
    [action |-> action, user |-> user, value |-> value, reference |-> reference]
Menu ==
    {Op("payment", 1, 5, "inv"), Op("payment", 2, 5, "inv"), Op("redeem", 1, "days", None),
     Op("change_plan", 1, "weekly", None), Op("cancel", 1, None, None), Op("cancel", 9, None, None),
     Op("subscribe", 3, "monthly", None), Op("assign_program", 1, "nobody's", None),
     Op("redeem", 1, "nope", None), Op("payment", 1, 2, None)}

From(kind, outcome, page) == [kind |-> kind, outcome |-> outcome, page |-> page]
Walks ==
    {From("events", None, 1), From("events", None, 4), From("audit", None, 1),
     From("audit", "refused", 2), From("users", None, 1)}
=============================================================================
