----------------------------- MODULE MC_Seeder -----------------------------
(* Seeder over a few days of two ticks: a plan without a trial and one     *)
(* with one, weeks of two days and months of three.                        *)
EXTENDS Seeder

Plans == {"weekly", "monthly"}
Periods == [p \in Plans |-> IF p = "weekly" THEN 6 ELSE 8]
Trials == [p \in Plans |-> IF p = "weekly" THEN 0 ELSE 2]
Graces == [p \in Plans |-> 4]
Prices == [p \in Plans |-> IF p = "weekly" THEN 2 ELSE 5]
Bands == <<6>>
Months == {0, 6, 12, 18, 24}
QuietWindow == <<5, 8>>
PresentWindow == <<1, 3>>
ExpiredWindow == <<2, 6>>
CancelledWindow == <<3, 8>>
=============================================================================
