--------------------------- MODULE SlidingWindow ---------------------------
(***************************************************************************)
(* What a rate limiter promises, without saying how it remembers: at every *)
(* instant it knows exactly the events still inside each counter's window, *)
(* and its answers are those of that knowledge.  It may forget a counter   *)
(* before its time in three ways only: the counter is cleared, the process *)
(* restarts, or its memory is full and the counter is among the ones least *)
(* recently touched (src/backend/app/security/ratelimit.py, its docstrings *)
(* at lines 1-13, 109-114, 132-139 and 186-195).                           *)
(***************************************************************************)
EXTENDS Integers, FiniteSets, Sequences

CONSTANTS
    Counter,      \* what is counted apart
    Limit,        \* [Counter -> Nat]: events allowed inside a window
    Window,       \* [Counter -> Nat]: the length of the window
    Horizon,      \* how long a counter is of any interest
    Capacity,     \* counters it can remember
    Batch,        \* counters it forgets at once when it has to
    Nobody        \* who asked before anybody did

VARIABLES
    now,
    live,         \* [Counter -> Seq(time)]: the events inside the window
    touched,      \* [Counter -> time]: the latest event, if within Horizon
    answer        \* the last decision

vars == <<now, live, touched, answer>>

Never == -1

(* The events after a moment: times never decrease along a counter, so     *)
(* they are what is left when as many are dropped as are not after it.     *)
After(events, moment) ==
    SubSeq(events, Cardinality({i \in DOMAIN events : events[i] <= moment}) + 1, Len(events))

Touched == {c \in Counter : touched[c] # Never}

(* What may be forgotten to make room for c: nothing, or, when Capacity    *)
(* counters are remembered, the Batch least recently touched of them.      *)
Forgettable(c) ==
    IF live[c] # <<>> \/ Cardinality(Touched) < Capacity THEN {{}}
    ELSE {K \in SUBSET (Touched \ {c}) :
            /\ Cardinality(K) <= Batch
            /\ \A k \in K, o \in Touched \ K : touched[k] <= touched[o]}

-----------------------------------------------------------------------------
Admit(c) ==
    /\ Len(live[c]) < Limit[c]
    /\ \E K \in Forgettable(c) :
         /\ live' = [d \in Counter |-> IF d = c THEN Append(live[c], now)
                                       ELSE IF d \in K THEN <<>> ELSE live[d]]
         /\ touched' = [d \in Counter |-> IF d = c THEN now
                                          ELSE IF d \in K THEN Never ELSE touched[d]]
    /\ answer' = [asked |-> c, allowed |-> TRUE]
    /\ UNCHANGED now

Refuse(c) ==
    /\ Len(live[c]) >= Limit[c]
    /\ answer' = [asked |-> c, allowed |-> FALSE]
    /\ UNCHANGED <<now, live, touched>>

Clear(c) ==
    /\ live' = [live EXCEPT ![c] = <<>>]
    /\ touched' = [touched EXCEPT ![c] = Never]
    /\ UNCHANGED <<now, answer>>

Restart ==
    /\ live' = [c \in Counter |-> <<>>]
    /\ touched' = [c \in Counter |-> Never]
    /\ UNCHANGED <<now, answer>>

Elapse ==
    /\ now' = now + 1
    /\ live' = [c \in Counter |-> After(live[c], now' - Window[c])]
    /\ touched' = [c \in Counter |-> IF touched[c] > now' - Horizon THEN touched[c] ELSE Never]
    /\ UNCHANGED answer

Init ==
    /\ now = 0
    /\ live = [c \in Counter |-> <<>>]
    /\ touched = [c \in Counter |-> Never]
    /\ answer = [asked |-> Nobody, allowed |-> TRUE]

Next == \/ \E c \in Counter : Admit(c) \/ Refuse(c) \/ Clear(c)
        \/ Restart \/ Elapse

Spec == Init /\ [][Next]_vars
=============================================================================
