---------------------------- MODULE Desk_proofs ----------------------------
(***************************************************************************)
(* Theorems about Desk, for any number of requests, subscribers, plans and *)
(* references, any page size and any tables to begin with.                 *)
(***************************************************************************)
EXTENDS Desk, FiniteSetTheorems, SequenceTheorems, WellFoundedInduction, TLAPS

-----------------------------------------------------------------------------
(* Induction, as a least element, and what it tells of sequences and sets *)

(* A set of naturals that is not empty has a least element; what is to be  *)
(* proved by induction is proved of the least counterexample.              *)
LEMMA Least ==
  ASSUME NEW S, S \subseteq Nat, S # {}
  PROVE  \E least \in S : \A n \in S : least <= n
<1> DEFINE R == {p \in Nat \X Nat : p[1] < p[2]}
<1>1. IsWellFoundedOn(R, Nat)
  BY NatLessThanWellFounded DEF OpToRel
<1>2. \A m, n \in Nat : <<n, m>> \in R <=> n < m
  OBVIOUS
<1> HIDE DEF R
<1>3. PICK least \in S : \A n \in S : <<n, least>> \notin R
  BY <1>1, WFMin
<1>4. least \in Nat
  OBVIOUS
<1>5. ASSUME NEW n \in S PROVE least <= n
  <2>1. n \in Nat
    OBVIOUS
  <2>2. ~(n < least)
    BY <1>2, <1>3, <1>4, <2>1
  <2> QED BY <1>4, <2>1, <2>2
<1> QED BY <1>5

(* The first m concatenations of FlattenSeq.                               *)
Flattens(g, seqs, S, m) ==
    /\ g \in [1 .. m -> Seq(S)]
    /\ g[1] = seqs[1]
    /\ \A i \in 2 .. m : g[i] = g[i-1] \o seqs[i]

LEMMA FlattensOneMore ==
  ASSUME NEW S, NEW seqs \in Seq(Seq(S)), NEW m \in 2 .. Len(seqs),
         NEW g, Flattens(g, seqs, S, m - 1)
  PROVE  \E h : Flattens(h, seqs, S, m)
<1> DEFINE last == g[m-1] \o seqs[m]
           h == [i \in 1 .. m |-> IF i = m THEN last ELSE g[i]]
<1>1. m \in Nat /\ m > 1 /\ 1 \in 1 .. m - 1 /\ m - 1 \in 1 .. m - 1
  OBVIOUS
<1>2. g \in [1 .. m - 1 -> Seq(S)] /\ g[1] = seqs[1]
  BY DEF Flattens
<1>3. \A i \in 2 .. m - 1 : g[i] = g[i-1] \o seqs[i]
  BY DEF Flattens
<1>4. g[m-1] \in Seq(S) /\ seqs[m] \in Seq(S)
  BY <1>1, <1>2
<1>5. last \in Seq(S)
  BY <1>4
<1> HIDE DEF last
<1>6. h \in [1 .. m -> Seq(S)]
  BY <1>1, <1>2, <1>5
<1>7. \A i \in 1 .. m - 1 : h[i] = g[i]
  BY <1>1
<1>8. h[m] = last
  BY <1>1
<1> HIDE DEF h
<1>9. ASSUME NEW i \in 2 .. m PROVE h[i] = h[i-1] \o seqs[i]
  <2>1. CASE i = m
    <3>1. h[m-1] = g[m-1]
      BY <1>1, <1>7
    <3> QED BY <1>8, <2>1, <3>1 DEF last
  <2>2. CASE i # m
    <3>1. i \in 2 .. m - 1 /\ i - 1 \in 1 .. m - 1 /\ i \in 1 .. m - 1
      BY <1>1, <2>2
    <3>2. h[i] = g[i] /\ h[i-1] = g[i-1]
      BY <1>7, <3>1
    <3> QED BY <1>3, <3>1, <3>2
  <2> QED BY <2>1, <2>2
<1>10. h[1] = seqs[1]
  BY <1>1, <1>2, <1>7
<1> QED BY <1>6, <1>9, <1>10 DEF Flattens

(* The definition of FlattenSeq is met by a function.                      *)
LEMMA FlattenExists ==
  ASSUME NEW S, NEW seqs \in Seq(Seq(S)), NEW n \in Nat, n = Len(seqs), n > 0
  PROVE  \E f : f = [i \in 1 .. n |-> IF i = 1 THEN seqs[i] ELSE f[i-1] \o seqs[i]]
<1> DEFINE Works(m) == \E g : Flattens(g, seqs, S, m)
           Bad == {m \in 1 .. n : ~Works(m)}
<1>1. Works(1)
  <2>1. seqs[1] \in Seq(S)
    OBVIOUS
  <2>2. Flattens([i \in 1 .. 1 |-> seqs[1]], seqs, S, 1)
    BY <2>1 DEF Flattens
  <2> QED BY <2>2
<1>2. \A m \in 2 .. n : Works(m - 1) => Works(m)
  BY FlattensOneMore
<1> HIDE DEF Works
<1>3. Bad = {}
  <2>1. SUFFICES ASSUME Bad # {} PROVE FALSE
    OBVIOUS
  <2>2. Bad \subseteq Nat
    OBVIOUS
  <2>3. PICK m \in Bad : \A k \in Bad : m <= k
    BY <2>1, <2>2, Least
  <2>4. m \in 1 .. n /\ m # 1
    BY <1>1, <2>3
  <2>5. m \in 2 .. n /\ m - 1 \in 1 .. n /\ ~(m <= m - 1)
    BY <2>4
  <2>6. Works(m - 1)
    BY <2>3, <2>5
  <2> QED BY <1>2, <2>3, <2>5, <2>6
<1>4. Works(n)
  BY <1>3
<1>5. PICK f : Flattens(f, seqs, S, n)
  BY <1>4 DEF Works
<1>6. f = [i \in 1 .. n |-> f[i]]
  BY <1>5 DEF Flattens
<1>7. ASSUME NEW i \in 1 .. n
      PROVE  f[i] = IF i = 1 THEN seqs[i] ELSE f[i-1] \o seqs[i]
  <2>1. CASE i = 1
    BY <1>5, <2>1 DEF Flattens
  <2>2. CASE i # 1
    <3>1. i \in 2 .. n
      BY <2>2
    <3> QED BY <1>5, <2>2, <3>1 DEF Flattens
  <2> QED BY <2>1, <2>2
<1>8. f = [i \in 1 .. n |-> IF i = 1 THEN seqs[i] ELSE f[i-1] \o seqs[i]]
  BY <1>6, <1>7
<1> QED BY <1>8

LEMMA FlattenType ==
  ASSUME NEW S, NEW seqs \in Seq(Seq(S))
  PROVE  FlattenSeq(seqs) \in Seq(S)
<1> DEFINE n == Len(seqs)
           flatten[i \in 1 .. Len(seqs)] == IF i = 1 THEN seqs[i] ELSE flatten[i-1] \o seqs[i]
<1>1. CASE n = 0
  <2>1. seqs = <<>>
    BY <1>1, EmptySeq
  <2> QED BY <1>1, <2>1, EmptySeq DEF FlattenSeq
<1>2. CASE n # 0
  <2>1. n \in Nat /\ n > 0 /\ \A i \in 1 .. n : seqs[i] \in Seq(S)
    BY <1>2
  <2>2. flatten = [i \in 1 .. n |-> IF i = 1 THEN seqs[i] ELSE flatten[i-1] \o seqs[i]]
    BY <2>1, FlattenExists
  <2>3. FlattenSeq(seqs) = flatten[n]
    BY <1>2 DEF FlattenSeq
  <2> HIDE DEF flatten, n
  <2>4. \A i \in 1 .. n : flatten[i] = IF i = 1 THEN seqs[i] ELSE flatten[i-1] \o seqs[i]
    BY <2>2
  <2> DEFINE Bad == {i \in 1 .. n : flatten[i] \notin Seq(S)}
  <2>5. Bad = {}
    <3>1. SUFFICES ASSUME Bad # {} PROVE FALSE
      OBVIOUS
    <3>2. PICK m \in Bad : \A k \in Bad : m <= k
      <4>1. Bad \subseteq Nat
        BY <2>1
      <4> QED BY <3>1, <4>1, Least
    <3>3. m # 1
      BY <2>1, <2>4, <3>2
    <3>4. m - 1 \in 1 .. n /\ m - 1 \notin Bad
      BY <2>1, <3>2, <3>3
    <3>5. flatten[m] = flatten[m-1] \o seqs[m]
      BY <2>4, <3>2, <3>3
    <3>6. flatten[m-1] \in Seq(S) /\ seqs[m] \in Seq(S)
      BY <2>1, <3>2, <3>4
    <3>7. flatten[m] \in Seq(S)
      BY <3>5, <3>6
    <3> QED BY <3>2, <3>7
  <2> QED BY <2>1, <2>3, <2>5
<1> QED BY <1>1, <1>2

(* A finite set of naturals has a greatest element.                        *)
LEMMA FiniteIsBounded ==
  ASSUME NEW S, S \subseteq Nat, IsFiniteSet(S)
  PROVE  \E b \in Nat : \A n \in S : n <= b
<1> DEFINE Free(T) == T \subseteq Nat /\ IsFiniteSet(T) /\ ~\E b \in Nat : \A n \in T : n <= b
           Bad == {c \in Nat : \E T : Free(T) /\ Cardinality(T) = c}
<1>1. SUFFICES ASSUME Free(S) PROVE FALSE
  OBVIOUS
<1>2. Cardinality(S) \in Bad
  BY <1>1, FS_CardinalityType
<1>3. PICK c \in Bad : \A d \in Bad : c <= d
  BY <1>2, Least
<1>4. PICK T : Free(T) /\ Cardinality(T) = c
  OBVIOUS
<1>5. PICK x \in T : TRUE
  BY <1>4
<1>6. /\ IsFiniteSet(T \ {x}) /\ Cardinality(T \ {x}) = c - 1 /\ c - 1 \in Nat
      /\ T \ {x} \subseteq Nat
  <2>1. IsFiniteSet(T \ {x}) /\ Cardinality(T \ {x}) = c - 1
    BY <1>4, <1>5, FS_RemoveElement
  <2> QED BY <1>4, <2>1, FS_CardinalityType
<1>7. ~Free(T \ {x})
  <2>1. c \in Nat /\ ~(c <= c - 1)
    OBVIOUS
  <2> HIDE DEF Free
  <2> QED BY <1>3, <1>6, <2>1
<1>8. PICK b \in Nat : \A n \in T \ {x} : n <= b
  BY <1>6, <1>7
<1>9. x \in Nat /\ \A n \in T : n <= (IF x > b THEN x ELSE b)
  BY <1>4, <1>5, <1>8
<1> QED BY <1>4, <1>8, <1>9

LEMMA MaxType ==
  ASSUME NEW S, S \subseteq Nat, IsFiniteSet(S), S # {}
  PROVE  Max(S) \in S
<1> DEFINE B == {b \in Nat : \A n \in S : n <= b}
<1>1. PICK b \in B : \A c \in B : b <= c
  <2>1. B # {}
    BY FiniteIsBounded
  <2> QED BY <2>1, Least
<1>2. b \in Nat /\ \A n \in S : n <= b
  OBVIOUS
<1>3. b \in S
  <2>1. SUFFICES ASSUME b \notin S PROVE FALSE
    OBVIOUS
  <2>2. \A n \in S : n <= b - 1
    BY <1>2, <2>1
  <2>3. b - 1 \in Nat
    <3>1. PICK n \in S : TRUE
      OBVIOUS
    <3>2. n \in Nat /\ n <= b - 1
      BY <2>2
    <3> QED BY <1>2, <3>2
  <2>4. b - 1 \in B /\ ~(b <= b - 1)
    BY <1>2, <2>2, <2>3
  <2> QED BY <1>1, <2>4
<1>4. \A n \in S : b >= n
  BY <1>2
<1> QED BY <1>3, <1>4 DEF Max

-----------------------------------------------------------------------------

EventType ==
    {"subscription.created", "subscription.cancelled", "subscription.plan_changed",
     "subscription.expired", "subscription.entering_grace", "subscription.activated",
     "subscription.renewed", "promo.redeemed", "payment.recorded", "payment.underpaid",
     "payment.duplicate"}

Reason == {"trial_not_converted", "cancelled", "grace_ended", "not_renewed"}

(* What an event may say.                                                  *)
Said ==
    Reason \cup State \cup Code \cup Int \cup Plan \cup {None}
    \cup {asked.value : asked \in Operation} \cup {asked.reference : asked \in Operation}

Happening == [type: EventType, detail: Said]

Life == {rec \in Subscription : Bounded(rec)}

(* What the engine may make of a record.                                   *)
Result == [rec: Life, events: Seq(Happening), refusal: HANDLED \cup {None}]

(* An outcome without a payment of its own.                                *)
Unpaid(out) == \A i \in DOMAIN out.events : out.events[i].type # "payment.recorded"
Paid(out) == \E i \in DOMAIN out.events : out.events[i].type = "payment.recorded"

-----------------------------------------------------------------------------
(* The engine's outcomes *)

LEMMA Terms ==
  ASSUME NEW plan \in Plan
  PROVE  /\ Period[plan] \in Nat /\ TrialDays[plan] \in Nat
         /\ GraceDays[plan] \in Nat /\ Price[plan] \in Nat
<1>1. /\ Period \in [Plan -> Nat] /\ TrialDays \in [Plan -> Nat]
      /\ GraceDays \in [Plan -> Nat] /\ Price \in [Plan -> Nat]
  BY TermsAssumption
<1> QED BY <1>1

LEMMA EventFields ==
  ASSUME NEW type \in EventType, NEW detail \in Said
  PROVE  /\ Event(type, detail) \in Happening
         /\ Event(type, detail).type = type
BY DEF Event, Happening

LEMMA OneEvent ==
  ASSUME NEW rec \in Life, NEW event \in Happening
  PROVE  /\ Out(rec, <<event>>) \in Result
         /\ Out(rec, <<event>>).rec = rec
         /\ Out(rec, <<event>>).events = <<event>>
         /\ Out(rec, <<event>>).refusal = None
BY DEF Out, Result

(* What one event after another makes.                                     *)
LEMMA Following ==
  ASSUME NEW c \in Seq(Happening), NEW out \in Result
  PROVE  /\ [out EXCEPT !.events = c \o @] \in Result
         /\ [out EXCEPT !.events = c \o @].rec = out.rec
         /\ [out EXCEPT !.events = c \o @].refusal = out.refusal
         /\ Unpaid([events |-> c]) /\ Unpaid(out) => Unpaid([out EXCEPT !.events = c \o @])
         /\ Paid(out) => Paid([out EXCEPT !.events = c \o @])
<1> DEFINE s == c \o out.events
<1>1. out.events \in Seq(Happening) /\ [out EXCEPT !.events = c \o @] = [out EXCEPT !.events = s]
  BY DEF Result
<1>2. /\ s \in Seq(Happening) /\ Len(s) = Len(c) + Len(out.events)
      /\ \A i \in 1 .. Len(s) : s[i] = IF i <= Len(c) THEN c[i] ELSE out.events[i - Len(c)]
  BY <1>1
<1>3. /\ DOMAIN s = 1 .. Len(s) /\ DOMAIN c = 1 .. Len(c) /\ DOMAIN out.events = 1 .. Len(out.events)
      /\ Len(c) \in Nat /\ Len(out.events) \in Nat
  BY <1>1, <1>2
<1> DEFINE done == [out EXCEPT !.events = s]
<1>4. done \in Result /\ done.rec = out.rec /\ done.refusal = out.refusal /\ done.events = s
  BY <1>1, <1>2 DEF Result
<1> HIDE DEF s, done
<1>5. ASSUME Unpaid([events |-> c]), Unpaid(out), NEW i \in DOMAIN s
      PROVE  s[i].type # "payment.recorded"
  <2>1. CASE i <= Len(c)
    BY <1>2, <1>3, <1>5, <2>1 DEF Unpaid
  <2>2. CASE ~(i <= Len(c))
    <3>1. i - Len(c) \in DOMAIN out.events
      BY <1>2, <1>3, <1>5, <2>2
    <3> QED BY <1>2, <1>3, <1>5, <2>2, <3>1 DEF Unpaid
  <2> QED BY <2>1, <2>2
<1>6. ASSUME Paid(out)
      PROVE  \E i \in DOMAIN s : s[i].type = "payment.recorded"
  <2>1. PICK i \in DOMAIN out.events : out.events[i].type = "payment.recorded"
    BY <1>6 DEF Paid
  <2>2. Len(c) + i \in DOMAIN s /\ s[Len(c) + i] = out.events[i]
    BY <1>2, <1>3, <2>1
  <2> QED BY <2>1, <2>2
<1>7. [out EXCEPT !.events = c \o @] = done
  BY <1>1 DEF done
<1> QED BY <1>4, <1>5, <1>6, <1>7 DEF Unpaid, Paid

LEMMA CrossedType ==
  ASSUME NEW rec \in Life, rec.state # "expired"
  PROVE  Crossed(rec) \in Result /\ Unpaid(Crossed(rec)) /\ Crossed(rec).refusal = None
<1> DEFINE gone == [rec EXCEPT !.state = "expired"]
           late == [rec EXCEPT !.state = "grace"]
<1>1. rec \in Subscription /\ rec.state \in {"trial", "cancelled", "grace", "active"}
  BY DEF Life, Subscription, State
<1>2. gone \in Life
  BY <1>1 DEF Life, Bounded, Subscription, State
<1>3. rec.state = "active" => late \in Life
  BY <1>1 DEF Life, Bounded, Subscription, State
<1>4. \A reason \in Reason : reason \in Said
  BY DEF Said
<1>5. None \in Said
  BY DEF Said
<1>6. \/ \E reason \in Reason :
           Crossed(rec) = Out(gone, <<Event("subscription.expired", reason)>>)
      \/ /\ rec.state = "active"
         /\ Crossed(rec) = Out(late, <<Event("subscription.entering_grace", None)>>)
  <2>1. CASE rec.state = "active"
    <3>1. CASE GraceDays[rec.plan] = 0
      <4>1. Crossed(rec) = Out(gone, <<Event("subscription.expired", "not_renewed")>>)
        BY <2>1, <3>1 DEF Crossed
      <4> QED BY <4>1 DEF Reason
    <3>2. CASE GraceDays[rec.plan] # 0
      BY <2>1, <3>2 DEF Crossed
    <3> QED BY <3>1, <3>2
  <2>2. CASE rec.state = "trial"
    <3>1. Crossed(rec) = Out(gone, <<Event("subscription.expired", "trial_not_converted")>>)
      BY <2>2 DEF Crossed
    <3> QED BY <3>1 DEF Reason
  <2>3. CASE rec.state = "cancelled"
    <3>1. Crossed(rec) = Out(gone, <<Event("subscription.expired", "cancelled")>>)
      BY <2>3 DEF Crossed
    <3> QED BY <3>1 DEF Reason
  <2>4. CASE rec.state = "grace"
    <3>1. Crossed(rec) = Out(gone, <<Event("subscription.expired", "grace_ended")>>)
      BY <2>4 DEF Crossed
    <3> QED BY <3>1 DEF Reason
  <2> QED BY <1>1, <2>1, <2>2, <2>3, <2>4
<1> HIDE DEF gone, late
<1>7. ASSUME NEW r \in Life, NEW type \in EventType, type # "payment.recorded", NEW detail \in Said
      PROVE  LET out == Out(r, <<Event(type, detail)>>)
             IN out \in Result /\ Unpaid(out) /\ out.refusal = None
  <2>1. Event(type, detail) \in Happening /\ Event(type, detail).type = type
    BY EventFields
  <2> QED BY <2>1, <1>7, OneEvent DEF Unpaid
<1>8. CASE \E reason \in Reason : Crossed(rec) = Out(gone, <<Event("subscription.expired", reason)>>)
  <2>1. PICK reason \in Reason : Crossed(rec) = Out(gone, <<Event("subscription.expired", reason)>>)
    BY <1>8
  <2> QED BY <1>2, <1>4, <1>7, <2>1 DEF EventType
<1>9. CASE /\ rec.state = "active"
           /\ Crossed(rec) = Out(late, <<Event("subscription.entering_grace", None)>>)
  BY <1>3, <1>5, <1>7, <1>9 DEF EventType
<1> QED BY <1>6, <1>8, <1>9

LEMMA NoEvents ==
  ASSUME NEW rec \in Life
  PROVE  /\ Out(rec, <<>>) \in Result /\ Unpaid(Out(rec, <<>>))
         /\ Out(rec, <<>>).rec = rec /\ Out(rec, <<>>).events = <<>>
         /\ Out(rec, <<>>).refusal = None
         /\ \A code \in HANDLED : /\ Refusal(rec, <<>>, code) \in Result
                                  /\ Unpaid(Refusal(rec, <<>>, code))
BY DEF Out, Refusal, Result, Unpaid

LEMMA OtherEvents ==
  ASSUME NEW out \in Result, out.refusal = None, NEW events
  PROVE  Out(out.rec, events) = [out EXCEPT !.events = events]
<1>1. PICK rec \in Life, was \in Seq(Happening), refusal \in HANDLED \cup {None} :
        out = [rec |-> rec, events |-> was, refusal |-> refusal]
  BY DEF Result
<1> QED BY <1>1 DEF Out

LEMMA CaughtUpType ==
  ASSUME NEW rec \in Life, NEW at
  PROVE  CaughtUp(rec, at) \in Result /\ Unpaid(CaughtUp(rec, at)) /\ CaughtUp(rec, at).refusal = None
<1> DEFINE once == Crossed(rec)
           twice == Crossed(once.rec)
<1>1. \A r \in Life : IsDue(r, at) => r.state # "expired"
  BY DEF IsDue, Due, Life, Bounded, Subscription, State
<1>2. CASE ~IsDue(rec, at)
  BY <1>2, NoEvents DEF CaughtUp
<1>3. CASE IsDue(rec, at)
  <2>1. once \in Result /\ Unpaid(once) /\ once.refusal = None
    BY <1>1, <1>3, CrossedType
  <2>2. once.rec \in Life /\ once.events \in Seq(Happening)
    BY <2>1 DEF Result
  <2>3. CASE ~IsDue(once.rec, at)
    BY <1>3, <2>1, <2>3 DEF CaughtUp
  <2>4. CASE IsDue(once.rec, at)
    <3>1. twice \in Result /\ Unpaid(twice) /\ twice.refusal = None
      BY <1>1, <2>2, <2>4, CrossedType
    <3>2. CaughtUp(rec, at) = Out(twice.rec, once.events \o twice.events)
      BY <1>3, <2>4 DEF CaughtUp
    <3> HIDE DEF once, twice
    <3>3. CaughtUp(rec, at) = [twice EXCEPT !.events = once.events \o @]
      BY <3>1, <3>2, OtherEvents
    <3>4. Unpaid([events |-> once.events])
      BY <2>1 DEF Unpaid
    <3> QED BY <2>2, <3>1, <3>3, <3>4, Following
  <2> QED BY <2>3, <2>4
<1> QED BY <1>2, <1>3

(* An outcome that follows the catching up.                                *)
LEMMA AfterCatchingUp ==
  ASSUME NEW rec \in Life, NEW at, NEW out \in Result, NEW done,
         done = [out EXCEPT !.events = CaughtUp(rec, at).events \o @]
  PROVE  /\ done \in Result
         /\ Unpaid(out) => Unpaid(done)
         /\ Paid(out) => Paid(done)
<1> DEFINE caught == CaughtUp(rec, at)
<1>1. caught \in Result /\ Unpaid(caught)
  BY CaughtUpType
<1> HIDE DEF caught
<1>2. caught.events \in Seq(Happening) /\ Unpaid([events |-> caught.events])
  BY <1>1 DEF Result, Unpaid
<1>3. /\ [out EXCEPT !.events = caught.events \o @] \in Result
      /\ Unpaid(out) => Unpaid([out EXCEPT !.events = caught.events \o @])
      /\ Paid(out) => Paid([out EXCEPT !.events = caught.events \o @])
  BY <1>2, Following
<1> QED BY <1>3 DEF caught

LEMMA BegunType ==
  ASSUME NEW rec \in Life, NEW plan \in Plan, NEW at \in Int
  PROVE  Begun(rec, plan, at) \in Result /\ Unpaid(Begun(rec, plan, at))
<1> DEFINE trial == TrialDays[plan] > 0 /\ (rec = None \/ ~rec.trialled)
           state == IF trial THEN "trial" ELSE "expired"
           ends == IF trial THEN at + TrialDays[plan] ELSE None
           once == trial \/ (rec # None /\ rec.trialled)
           begun == [state |-> state, plan |-> plan, pending |-> None, trial_ends |-> ends,
                     expires |-> None, cancelled_at |-> None, promo |-> None, trialled |-> once]
<1>1. Begun(rec, plan, at) = Out(begun, <<Event("subscription.created", state)>>)
  BY DEF Begun
<1>2. state \in {"trial", "expired"} /\ (state = "trial" => ends \in Int) /\ ends \in Moment
  BY Terms DEF Moment
<1>3. once \in BOOLEAN
  OBVIOUS
<1> HIDE DEF state, ends, once
<1>4. begun \in Life
  BY <1>2, <1>3 DEF Life, Bounded, Subscription, State, Moment
<1>5. /\ Event("subscription.created", state) \in Happening
      /\ Event("subscription.created", state).type = "subscription.created"
  <2>1. state \in Said /\ "subscription.created" \in EventType
    BY <1>2 DEF Said, State, EventType
  <2> QED BY <2>1, EventFields
<1> HIDE DEF begun
<1> QED BY <1>1, <1>4, <1>5, OneEvent DEF Unpaid

LEMMA Two ==
  ASSUME NEW a \in Happening, NEW b \in Happening
  PROVE  <<a>> \o <<b>> = <<a, b>> /\ <<a, b>> \in Seq(Happening)
<1> DEFINE s == <<a>> \o <<b>>
           t == <<a, b>>
<1>1. <<a>> \in Seq(Happening) /\ <<b>> \in Seq(Happening)
  OBVIOUS
<1>2. s \in Seq(Happening) /\ Len(s) = 2 /\ s[1] = a /\ s[2] = b
  BY <1>1
<1>3. t \in Seq(Happening) /\ Len(t) = 2 /\ t[1] = a /\ t[2] = b
  OBVIOUS
<1> HIDE DEF s, t
<1>4. s = t
  BY <1>2, <1>3, SeqEqual
<1> QED BY <1>3, <1>4 DEF s, t

LEMMA SubscribeType ==
  ASSUME NEW rec \in Life, NEW plan, NEW at \in Int
  PROVE  Subscribe(rec, plan, at) \in Result /\ Unpaid(Subscribe(rec, plan, at))
<1> DEFINE r == CaughtUp(rec, at).rec
           rest == IF Ended(r) THEN Begun(r, plan, at) ELSE Refusal(r, <<>>, "ALREADY_SUBSCRIBED")
<1>1. r \in Life
  BY CaughtUpType DEF Result
<1>2. CASE plan \notin Plan
  BY <1>2, NoEvents DEF Subscribe, HANDLED
<1>3. CASE plan \in Plan /\ rec = None
  BY <1>3, BegunType DEF Subscribe
<1>4. CASE plan \in Plan /\ rec # None
  <2>1. Subscribe(rec, plan, at) = [rest EXCEPT !.events = CaughtUp(rec, at).events \o @]
    BY <1>4 DEF Subscribe, After
  <2> HIDE DEF r
  <2>2. rest \in Result /\ Unpaid(rest)
    BY <1>1, <1>4, BegunType, NoEvents DEF HANDLED
  <2> HIDE DEF rest
  <2> QED BY <2>1, <2>2, AfterCatchingUp
<1> QED BY <1>2, <1>3, <1>4

LEMMA CancelType ==
  ASSUME NEW rec \in Life, NEW at \in Int
  PROVE  Cancel(rec, at) \in Result /\ Unpaid(Cancel(rec, at))
<1> DEFINE r == CaughtUp(rec, at).rec
           gone == [r EXCEPT !.state = "cancelled", !.cancelled_at = at]
           event == Event("subscription.cancelled", r.expires)
           rest == IF Ended(r) THEN Out(r, <<>>) ELSE Out(gone, <<event>>)
<1>1. Cancel(rec, at) = [rest EXCEPT !.events = CaughtUp(rec, at).events \o @]
  BY DEF Cancel, After
<1>2. r \in Life
  BY CaughtUpType DEF Result
<1> HIDE DEF r
<1>3. gone \in Life
  BY <1>2 DEF Life, Bounded, Subscription, State, Moment
<1>4. event \in Happening /\ event.type = "subscription.cancelled"
  <2>1. r.expires \in Said /\ "subscription.cancelled" \in EventType
    BY <1>2 DEF Life, Subscription, Moment, Said, EventType
  <2> QED BY <2>1, EventFields
<1> HIDE DEF gone, event
<1>5. rest \in Result /\ Unpaid(rest)
  BY <1>2, <1>3, <1>4, NoEvents, OneEvent DEF Unpaid
<1> HIDE DEF rest
<1> QED BY <1>1, <1>5, AfterCatchingUp

LEMMA ChangePlanType ==
  ASSUME NEW rec \in Life, NEW plan, NEW at \in Int
  PROVE  ChangePlan(rec, plan, at) \in Result /\ Unpaid(ChangePlan(rec, plan, at))
<1> DEFINE r == CaughtUp(rec, at).rec
           due == IF plan = r.plan THEN None ELSE plan
           turned == [r EXCEPT !.pending = due]
           event == Event("subscription.plan_changed", due)
           rest == IF due = r.pending THEN Out(r, <<>>) ELSE Out(turned, <<event>>)
<1>1. r \in Life
  BY CaughtUpType DEF Result
<1>2. CASE plan \notin Plan
  BY <1>2, NoEvents DEF ChangePlan, HANDLED
<1>3. CASE plan \in Plan
  <2>1. ChangePlan(rec, plan, at) = [rest EXCEPT !.events = CaughtUp(rec, at).events \o @]
    BY <1>3 DEF ChangePlan, After
  <2> HIDE DEF r
  <2>2. due \in Plan \cup {None}
    BY <1>3
  <2> HIDE DEF due
  <2>3. turned \in Life
    BY <1>1, <2>2 DEF Life, Bounded, Subscription
  <2>4. event \in Happening /\ event.type = "subscription.plan_changed"
    <3>1. due \in Said /\ "subscription.plan_changed" \in EventType
      BY <2>2 DEF Said, EventType
    <3> QED BY <3>1, EventFields
  <2> HIDE DEF turned, event
  <2>5. rest \in Result /\ Unpaid(rest)
    BY <1>1, <2>3, <2>4, NoEvents, OneEvent DEF Unpaid
  <2> HIDE DEF rest
  <2> QED BY <2>1, <2>5, AfterCatchingUp
<1> QED BY <1>2, <1>3

LEMMA RedeemType ==
  ASSUME NEW rec \in Life, NEW code, NEW spent \in BOOLEAN, NEW at \in Int
  PROVE  Redeem(rec, code, spent, at) \in Result /\ Unpaid(Redeem(rec, code, spent, at))
<1> DEFINE r == CaughtUp(rec, at).rec
           redeemed1 == <<Event("promo.redeemed", code)>>
           longer == [r EXCEPT !.expires = @ + GrantDays]
           again == [longer EXCEPT !.state = "active"]
           bound == [r EXCEPT !.promo = code]
           trial == [r EXCEPT !.trial_ends = @ + GrantDays]
           both == redeemed1 \o <<Event("subscription.activated", longer.expires)>>
           rest == CASE spent -> Refusal(r, <<>>, "PROMO_LIMIT_REACHED")
                     [] ~spent /\ code = "discount" ->
                          IF r.promo # None THEN Refusal(r, <<>>, "PROMO_ALREADY_BOUND")
                          ELSE Out(bound, redeemed1)
                     [] ~spent /\ code = "days" ->
                          CASE r.state = "trial" -> Out(trial, redeemed1)
                            [] r.state = "active" -> Out(longer, redeemed1)
                            [] r.state = "grace" /\ longer.expires > at -> Out(again, both)
                            [] OTHER -> Out(r, redeemed1)
<1>1. r \in Life
  BY CaughtUpType DEF Result
<1>2. CASE code \notin Code
  BY <1>2, NoEvents DEF Redeem, HANDLED
<1>3. CASE code \in Code
  <2>1. Redeem(rec, code, spent, at) = [rest EXCEPT !.events = CaughtUp(rec, at).events \o @]
    BY <1>3 DEF Redeem, After
  <2> HIDE DEF r
  <2>2. redeemed1 \in Seq(Happening) /\ redeemed1 = <<redeemed1[1]>> /\ redeemed1[1] \in Happening
        /\ redeemed1[1].type = "promo.redeemed"
    <3>1. code \in Said /\ "promo.redeemed" \in EventType
      BY <1>3 DEF Said, EventType
    <3>2. Event("promo.redeemed", code) \in Happening /\ Event("promo.redeemed", code).type = "promo.redeemed"
      BY <3>1, EventFields
    <3> QED BY <3>2
  <2>3. /\ r.state \in {"active", "grace"} => longer.expires \in Int /\ longer \in Life
        /\ r.state = "trial" => trial \in Life
        /\ bound \in Life
    BY <1>1, <1>3, TermsAssumption DEF Life, Bounded, Subscription, Moment
  <2>4. r.state = "grace" => again \in Life
    BY <2>3 DEF Life, Bounded, Subscription, State
  <2>5. r.state = "grace" => Event("subscription.activated", longer.expires) \in Happening
                             /\ Event("subscription.activated", longer.expires).type = "subscription.activated"
    <3>1. r.state = "grace" => longer.expires \in Said
      BY <2>3 DEF Said
    <3>2. "subscription.activated" \in EventType
      BY DEF EventType
    <3> QED BY <3>1, <3>2, EventFields
  <2>6. r.state = "grace" => Out(again, both) \in Result /\ Unpaid(Out(again, both))
    <3> DEFINE last == Event("subscription.activated", longer.expires)
    <3> HIDE DEF redeemed1, again, longer
    <3>1. both = redeemed1 \o <<last>>
      OBVIOUS
    <3> HIDE DEF both, last
    <3>2. PICK first \in Happening : redeemed1 = <<first>> /\ first.type = "promo.redeemed"
      BY <2>2
    <3>3. ASSUME r.state = "grace" PROVE both \in Seq(Happening) /\ both = <<first, last>>
      BY <2>5, <3>1, <3>2, <3>3, Two DEF last
    <3> QED BY <2>2, <2>4, <2>5, <3>2, <3>3 DEF Out, Result, Unpaid, last
  <2> HIDE DEF redeemed1, both, again, longer, trial, bound
  <2>7. rest \in Result /\ Unpaid(rest)
    <3>1. \A q \in Life : Out(q, redeemed1) \in Result /\ Unpaid(Out(q, redeemed1))
      BY <2>2, OneEvent DEF Unpaid
    <3>2. CASE spent
      BY <1>1, <3>2, NoEvents DEF HANDLED
    <3>3. CASE ~spent /\ code = "discount"
      BY <1>1, <2>3, <3>1, <3>3, NoEvents DEF HANDLED
    <3>4. CASE ~spent /\ code = "days"
      BY <1>1, <2>3, <2>6, <3>1, <3>4
    <3> QED BY <1>3, <3>2, <3>3, <3>4 DEF Code
  <2> HIDE DEF rest
  <2> QED BY <2>1, <2>7, AfterCatchingUp
<1> QED BY <1>2, <1>3

LEMMA PayType ==
  ASSUME NEW rec \in Life, NEW amount \in Said, NEW at \in Int
  PROVE  Pay(rec, amount, at) \in Result /\ Paid(Pay(rec, amount, at))
<1> DEFINE r == CaughtUp(rec, at).rec
           recorded == <<Event("payment.recorded", amount)>>
           until == (IF r.state = "active" THEN r.expires ELSE at) + Period[Bought(r)]
           paid == [r EXCEPT !.state = "active", !.plan = Bought(r), !.pending = None,
                             !.expires = until]
           kind == IF r.state \in {"active", "grace"}
                   THEN "subscription.renewed" ELSE "subscription.activated"
           short == Event("payment.underpaid", Price[Bought(r)])
           bought == Event(kind, until)
           rest == CASE r.state = "cancelled" -> Out(r, recorded)
                     [] r.state # "cancelled" /\ amount < Price[Bought(r)] ->
                          Out(r, recorded \o <<short>>)
                     [] OTHER -> Out(paid, recorded \o <<bought>>)
<1>1. Pay(rec, amount, at) = [rest EXCEPT !.events = CaughtUp(rec, at).events \o @]
  BY DEF Pay, After
<1>2. r \in Life
  BY CaughtUpType DEF Result
<1> HIDE DEF r
<1>3. Bought(r) \in Plan
  BY <1>2 DEF Bought, Life, Subscription
<1>4. until \in Int
  BY <1>2, <1>3, Terms DEF Life, Bounded
<1> HIDE DEF until
<1>5. paid \in Life
  BY <1>2, <1>3, <1>4 DEF Life, Bounded, Subscription, State, Moment
<1>6. PICK first \in Happening : recorded = <<first>> /\ first.type = "payment.recorded"
  <2>1. "payment.recorded" \in EventType
    BY DEF EventType
  <2> QED BY <2>1, EventFields
<1>7. short \in Happening
  <2>1. "payment.underpaid" \in EventType /\ Price[Bought(r)] \in Said
    BY <1>3, Terms DEF EventType, Said
  <2> QED BY <2>1, EventFields
<1>8. bought \in Happening
  <2>1. kind \in EventType /\ until \in Said
    BY <1>4 DEF EventType, Said
  <2> HIDE DEF kind
  <2> QED BY <2>1, EventFields
<1> HIDE DEF paid, short, bought, recorded
<1>9. ASSUME NEW q \in Life, NEW e \in Happening
      PROVE  LET out == Out(q, recorded \o <<e>>) IN out \in Result /\ Paid(out)
  <2>1. recorded \o <<e>> = <<first, e>> /\ <<first, e>> \in Seq(Happening)
    BY <1>6, Two
  <2> HIDE DEF recorded
  <2>2. Out(q, <<first, e>>) \in Result
    BY <2>1 DEF Out, Result
  <2>3. Out(q, <<first, e>>).events = <<first, e>> /\ 1 \in DOMAIN <<first, e>>
    BY DEF Out
  <2>4. Paid(Out(q, <<first, e>>))
    BY <1>6, <2>3 DEF Paid
  <2> QED BY <2>1, <2>2, <2>4
<1>10. rest \in Result /\ Paid(rest)
  <2>1. CASE r.state = "cancelled"
    <3>1. rest = Out(r, <<first>>)
      BY <1>6, <2>1
    <3>2. Out(r, <<first>>) \in Result /\ Out(r, <<first>>).events = <<first>>
      BY <1>2, OneEvent
    <3>3. 1 \in DOMAIN <<first>> /\ <<first>>[1] = first
      OBVIOUS
    <3>4. Paid(Out(r, <<first>>))
      BY <1>6, <3>2, <3>3 DEF Paid
    <3> HIDE DEF rest
    <3> QED BY <3>1, <3>2, <3>4
  <2>2. CASE r.state # "cancelled" /\ amount < Price[Bought(r)]
    <3>1. rest = Out(r, recorded \o <<short>>)
      BY <2>2
    <3> QED BY <1>2, <1>7, <1>9, <3>1
  <2>3. CASE r.state # "cancelled" /\ ~(amount < Price[Bought(r)])
    <3>1. rest = Out(paid, recorded \o <<bought>>)
      BY <2>3
    <3> QED BY <1>5, <1>8, <1>9, <3>1
  <2> QED BY <2>1, <2>2, <2>3
<1> HIDE DEF rest
<1> QED BY <1>1, <1>10, AfterCatchingUp

(* An operation leaves a record behind, and emits money exactly when its   *)
(* filing is new.                                                          *)
LEMMA OutcomeType ==
  ASSUME NEW r \in Request, NEW asked \in Operation, records[asked.user] \in Life, now \in Int
  PROVE  /\ Outcome(r, asked) \in Result
         /\ asked.action = "payment" /\ Filing(r, asked) \in filed => Unpaid(Outcome(r, asked))
         /\ asked.action = "payment" /\ Filing(r, asked) \notin filed => Paid(Outcome(r, asked))
<1> DEFINE rec == records[asked.user]
<1>1. asked.value \in Said /\ asked.reference \in Said
  BY DEF Said
<1>2. CASE asked.action = "subscribe"
  BY <1>2, SubscribeType DEF Outcome
<1>3. CASE asked.action = "cancel"
  BY <1>3, CancelType DEF Outcome
<1>4. CASE asked.action = "change_plan"
  BY <1>4, ChangePlanType DEF Outcome
<1>5. CASE asked.action = "redeem"
  <2> DEFINE spent == asked.value \in Code /\ redeemed[asked.value] = Limit[asked.value]
  <2>1. Outcome(r, asked) = Redeem(rec, asked.value, spent, now)
    BY <1>5 DEF Outcome
  <2>2. spent \in BOOLEAN
    OBVIOUS
  <2> HIDE DEF spent
  <2> QED BY <1>5, <2>1, <2>2, RedeemType
<1>6. CASE asked.action = "payment"
  <2>1. CASE Filing(r, asked) \in filed
    <3>1. Outcome(r, asked) = Out(rec, <<Event("payment.duplicate", asked.reference)>>)
      BY <1>6, <2>1 DEF Outcome
    <3>2. PICK e \in Happening : e = Event("payment.duplicate", asked.reference)
                                 /\ e.type = "payment.duplicate"
      <4>1. "payment.duplicate" \in EventType
        BY DEF EventType
      <4> QED BY <1>1, <4>1, EventFields
    <3>3. Out(rec, <<e>>) \in Result /\ Out(rec, <<e>>).events = <<e>>
      BY OneEvent
    <3>4. Unpaid(Out(rec, <<e>>))
      BY <3>2, <3>3 DEF Unpaid
    <3> QED BY <2>1, <3>1, <3>2, <3>3, <3>4
  <2>2. CASE Filing(r, asked) \notin filed
    <3>1. Outcome(r, asked) = Pay(rec, asked.value, now)
      BY <1>6, <2>2 DEF Outcome
    <3> QED BY <1>1, <2>2, <3>1, PayType
  <2> QED BY <2>1, <2>2
<1>7. CASE asked.action = "assign_program"
  BY <1>7, NoEvents DEF Outcome, HANDLED
<1> QED BY <1>2, <1>3, <1>4, <1>5, <1>6, <1>7, DeskAssumption

-----------------------------------------------------------------------------
(* Types *)

Subscriber == DOMAIN Opening

(* An event with its subscriber, its instant and who brought it about.     *)
Entry == [user: Subscriber, type: EventType, at: Int, detail: Said, by: Request \cup {Ticker}]
Ticked == {entry \in Entry : entry.by = Ticker}

Dated(row) == row.at \in Int /\ row.seq \in Int

Phase == {"idle", "asked", "not_found", "write", "commit", "failed", "show", "ok", "refused"}

ReqOK(r) ==
    /\ DOMAIN req[r] = DOMAIN Idle /\ DOMAIN req[r].answer = DOMAIN Silent
    /\ req[r].pc \in Phase
    /\ req[r].pc # "idle" => req[r].asked \in Operation
    /\ req[r].pc \notin {"idle", "asked", "not_found"} => req[r].asked.user \in Subscriber
    /\ req[r].began \in Int
    /\ req[r].took \in Seq(Entry) /\ req[r].produced \in Seq(Entry)
    /\ req[r].refusal \in HANDLED \cup {None}
    /\ IsFiniteSet(req[r].rows) /\ IsFiniteSet(req[r].entries)
    /\ \A row \in req[r].rows \cup req[r].entries : Dated(row)

StoresOK ==
    /\ now \in Int /\ seq \in Nat
    /\ records \in [Subscriber -> Life]
    /\ pending \in Seq(Ticked)
    /\ IsFiniteSet(journal) /\ IsFiniteSet(audit) /\ IsFiniteSet(users)
    /\ users \subseteq Int
    /\ \A row \in journal \cup audit : Dated(row)

Typed == StoresOK /\ DOMAIN req = Request /\ \A r \in Request : ReqOK(r)

LEMMA EmittedType ==
  ASSUME NEW user \in Subscriber, NEW events \in Seq(Happening), NEW by \in Request \cup {Ticker},
         now \in Int
  PROVE  LET log == Emitted(user, events, by)
         IN /\ log \in Seq(Entry) /\ (by = Ticker => log \in Seq(Ticked))
            /\ Len(log) = Len(events) /\ DOMAIN log = DOMAIN events
            /\ \A i \in DOMAIN log : log[i].by = by /\ log[i].type = events[i].type
<1> DEFINE log == Emitted(user, events, by)
           line(i) == [user |-> user, type |-> events[i].type, at |-> now,
                       detail |-> events[i].detail, by |-> by]
<1>1. log = [i \in 1 .. Len(events) |-> line(i)]
  BY DEF Emitted
<1>2. \A i \in 1 .. Len(events) : line(i) \in Entry
  <2>1. \A i \in 1 .. Len(events) : events[i] \in Happening
    OBVIOUS
  <2> QED BY <2>1 DEF Entry, Happening
<1>3. \A i \in 1 .. Len(events) : line(i).by = by /\ line(i).type = events[i].type
  OBVIOUS
<1> HIDE DEF line
<1>4. log \in Seq(Entry) /\ Len(log) = Len(events) /\ DOMAIN log = 1 .. Len(events)
  BY <1>1, <1>2
<1>5. by = Ticker => log \in Seq(Ticked)
  BY <1>1, <1>2, <1>3 DEF Ticked
<1>6. \A i \in 1 .. Len(events) : log[i] = line(i)
  BY <1>1
<1> HIDE DEF log
<1> QED BY <1>3, <1>4, <1>5, <1>6 DEF log

(* Rows of the journal: as many as there are events, each with its number. *)
LEMMA NumberedType ==
  ASSUME NEW log \in Seq(Entry), NEW from \in Int
  PROVE  /\ IsFiniteSet(Numbered(log, from))
         /\ Cardinality(Numbered(log, from)) = Len(log)
         /\ \A row \in Numbered(log, from) : Dated(row)
<1> DEFINE line(i) == [seq |-> from + i, user |-> log[i].user, type |-> log[i].type,
                       at |-> log[i].at, detail |-> log[i].detail, by |-> log[i].by]
           f == [i \in 1 .. Len(log) |-> line(i)]
           S == Numbered(log, from)
<1>1. S = {line(i) : i \in 1 .. Len(log)}
  BY DEF Numbered
<1>2. \A i \in 1 .. Len(log) : log[i] \in Entry
  OBVIOUS
<1>3. \A i \in 1 .. Len(log) : line(i).seq = from + i /\ line(i).at = log[i].at
  OBVIOUS
<1> HIDE DEF line
<1>4. \A row \in S : Dated(row)
  BY <1>1, <1>2, <1>3 DEF Dated, Entry
<1>5. \A i, j \in 1 .. Len(log) : line(i) = line(j) => i = j
  BY <1>3
<1>6. f \in [1 .. Len(log) -> S] /\ (\A row \in S : \E i \in 1 .. Len(log) : f[i] = row)
      /\ \A i, j \in 1 .. Len(log) : f[i] = f[j] => i = j
  BY <1>1, <1>5
<1> HIDE DEF f, S
<1>7. f \in Bijection(1 .. Len(log), S)
  BY <1>6 DEF Bijection, Injection, Surjection, IsInjective
<1>8. ExistsBijection(1 .. Len(log), S) /\ Len(log) \in Nat
  BY <1>7 DEF ExistsBijection
<1>9. IsFiniteSet(S) /\ Cardinality(S) = Len(log)
  BY <1>8, FS_NatBijection, FS_CountingElements
<1> QED BY <1>4, <1>9 DEF S

LEMMA OthersOK ==
  ASSUME Typed, NEW r \in Request, NEW q, req' = [req EXCEPT ![r] = q], ReqOK(r)', StoresOK'
  PROVE  Typed'
<1>1. DOMAIN req' = Request /\ \A s \in Request \ {r} : req'[s] = req[s]
  BY DEF Typed
<1>2. \A s \in Request \ {r} : ReqOK(s)'
  BY <1>1 DEF Typed, ReqOK
<1> QED BY <1>1, <1>2 DEF Typed

(* What an operation that runs leaves.                                     *)
Made(r) == Outcome(r, req[r].asked)
Own(r) == Emitted(req[r].asked.user, Made(r).events, r)

LEMMA OperateEffect ==
  ASSUME Typed, NEW r \in Request, Operate(r), req[r].asked.user \in Subscriber
  PROVE  /\ req[r].asked \in Operation
         /\ Made(r) \in Result
         /\ Own(r) \in Seq(Entry) /\ Len(Own(r)) = Len(Made(r).events) /\ DOMAIN Own(r) = DOMAIN Made(r).events
         /\ \A i \in DOMAIN Own(r) : Own(r)[i].by = r /\ Own(r)[i].type = Made(r).events[i].type
         /\ req' = [req EXCEPT ![r] = [req[r] EXCEPT !.pc = "write", !.took = pending \o Own(r),
                                                      !.produced = Own(r), !.refusal = Made(r).refusal]]
         /\ records' = [records EXCEPT ![req[r].asked.user] = Made(r).rec]
         /\ pending' = <<>>
<1>1. req[r].asked \in Operation
  BY DEF Typed, ReqOK, Operate
<1>2. DOMAIN records = Subscriber /\ records[req[r].asked.user] \in Life /\ now \in Int
  BY DEF Typed, StoresOK
<1>3. Made(r) \in Result /\ Made(r).events \in Seq(Happening)
  BY <1>1, <1>2, OutcomeType DEF Result, Made
<1>4. /\ Own(r) \in Seq(Entry) /\ Len(Own(r)) = Len(Made(r).events) /\ DOMAIN Own(r) = DOMAIN Made(r).events
      /\ \A i \in DOMAIN Own(r) : Own(r)[i].by = r /\ Own(r)[i].type = Made(r).events[i].type
  BY <1>2, <1>3, EmittedType DEF Own
<1>5. /\ req' = [req EXCEPT ![r] = [req[r] EXCEPT !.pc = "write", !.took = pending \o Own(r),
                                                   !.produced = Own(r), !.refusal = Made(r).refusal]]
      /\ records' = [records EXCEPT ![req[r].asked.user] = Made(r).rec]
      /\ pending' = <<>>
  BY <1>2 DEF Operate, Typed, Made, Own
<1> QED BY <1>1, <1>3, <1>4, <1>5

LEMMA AskTyped == ASSUME Typed, NEW r \in Request, NEW asked \in Operation, Ask(r, asked) PROVE Typed'
<1> DEFINE q == [Idle EXCEPT !.pc = "asked", !.asked = asked, !.began = now]
<1>1. req' = [req EXCEPT ![r] = q] /\ UNCHANGED <<now, engine, pending, seq, tables, walk>>
  BY DEF Ask
<1>2. StoresOK'
  BY <1>1 DEF Typed, StoresOK, engine, tables
<1>3. req'[r] = q
  BY <1>1 DEF Typed
<1>4. <<>> \in Seq(Entry) /\ IsFiniteSet({}) /\ now \in Int
  BY FS_EmptySet DEF Typed, StoresOK
<1>5. ReqOK(r)'
  BY <1>3, <1>4 DEF ReqOK, Idle, Silent, Phase
<1> QED BY <1>1, <1>2, <1>5, OthersOK

LEMMA OperateTyped == ASSUME Typed, NEW r \in Request, Operate(r) PROVE Typed'
<1>1. ReqOK(r) /\ req[r].pc = "asked" /\ DOMAIN records = Subscriber
  BY DEF Typed, StoresOK, Operate
<1>2. CASE req[r].asked.user \notin Subscriber
  <2>1. /\ req' = [req EXCEPT ![r] = [req[r] EXCEPT !.pc = "not_found"]]
        /\ UNCHANGED <<now, engine, pending, seq, tables, walk>>
    BY <1>1, <1>2 DEF Operate, Typed
  <2>2. StoresOK'
    BY <2>1 DEF Typed, StoresOK, engine, tables
  <2>3. req'[r] = [req[r] EXCEPT !.pc = "not_found"]
    BY <2>1 DEF Typed
  <2>4. ReqOK(r)'
    BY <1>1, <2>3 DEF ReqOK, Idle, Silent, Phase
  <2> QED BY <2>1, <2>2, <2>4, OthersOK
<1>3. CASE req[r].asked.user \in Subscriber
  <2>3. /\ req[r].asked \in Operation /\ Made(r) \in Result /\ Own(r) \in Seq(Entry)
        /\ req' = [req EXCEPT ![r] = [req[r] EXCEPT !.pc = "write", !.took = pending \o Own(r),
                                                    !.produced = Own(r), !.refusal = Made(r).refusal]]
        /\ records' = [records EXCEPT ![req[r].asked.user] = Made(r).rec]
        /\ pending' = <<>>
    BY <1>3, OperateEffect
  <2>4. StoresOK'
    <3>1. Made(r).rec \in Life
      BY <2>3 DEF Result
    <3>2. UNCHANGED <<now, seq, journal, audit, users>>
      BY DEF Operate, tables
    <3>3. <<>> \in Seq(Ticked)
      OBVIOUS
    <3> QED BY <1>1, <2>3, <3>1, <3>2, <3>3 DEF Typed, StoresOK
  <2>5. pending \o Own(r) \in Seq(Entry)
    <3>1. pending \in Seq(Entry)
      BY SeqMonotonic DEF Typed, StoresOK, Ticked
    <3> QED BY <2>3, <3>1
  <2>6. req'[r] = [req[r] EXCEPT !.pc = "write", !.took = pending \o Own(r),
                                 !.produced = Own(r), !.refusal = Made(r).refusal]
    BY <2>3 DEF Typed
  <2>7. Made(r).refusal \in HANDLED \cup {None}
    BY <2>3 DEF Result
  <2>8. ReqOK(r)'
    BY <1>1, <1>3, <2>3, <2>5, <2>6, <2>7 DEF ReqOK, Idle, Silent, Phase
  <2> QED BY <2>3, <2>4, <2>8, OthersOK
<1> QED BY <1>2, <1>3

LEMMA WriteTyped == ASSUME Typed, NEW r \in Request, Write(r) PROVE Typed'
<1> DEFINE rows == Numbered(req[r].took, seq)
           entry == AuditRow(r, seq)
           q == [req[r] EXCEPT !.pc = "commit", !.rows = rows, !.entries = {entry}]
<1>r. ReqOK(r)
  BY DEF Typed
<1>1. ReqOK(r) /\ req[r].pc = "write" /\ seq \in Int /\ req[r].took \in Seq(Entry)
  <2>1. seq \in Int
    BY DEF Typed, StoresOK
  <2>2. req[r].pc = "write"
    BY DEF Write
  <2>3. req[r].took \in Seq(Entry)
    BY <1>r DEF ReqOK
  <2> QED BY <1>r, <2>1, <2>2, <2>3
<1>2. IsFiniteSet(rows) /\ Cardinality(rows) = Len(req[r].took) /\ \A row \in rows : Dated(row)
  BY <1>1, NumberedType
<1>3. Dated(entry) /\ IsFiniteSet({entry})
  BY <1>1, FS_Singleton DEF AuditRow, Dated, ReqOK
<1>4. /\ req' = [req EXCEPT ![r] = q] /\ seq' = seq + Cardinality(rows) + 1
      /\ UNCHANGED <<now, engine, pending, tables, walk>>
  BY DEF Write, Typed
<1> HIDE DEF rows, entry
<1>5. StoresOK'
  <2>1. Len(req[r].took) \in Nat
    BY <1>1
  <2>2. seq' \in Nat
    BY <1>2, <1>4, <2>1 DEF Typed, StoresOK
  <2> QED BY <1>4, <2>2 DEF Typed, StoresOK, engine, tables
<1>6. req'[r] = q
  BY <1>4 DEF Typed
<1>7. ReqOK(r)'
  BY <1>1, <1>2, <1>3, <1>6 DEF ReqOK, Idle, Silent, Phase
<1> HIDE DEF q
<1> QED BY <1>4, <1>5, <1>7, OthersOK

LEMMA CommitTyped == ASSUME Typed, NEW r \in Request, Commit(r) PROVE Typed'
<1> DEFINE q == [req[r] EXCEPT !.pc = IF req[r].refusal = None THEN "show" ELSE "refused",
                               !.rows = {}, !.entries = {}, !.answer.code = req[r].refusal]
<1>1. ReqOK(r) /\ req[r].pc = "commit"
  BY DEF Typed, Commit
<1>2. /\ req' = [req EXCEPT ![r] = q]
      /\ journal' = journal \cup req[r].rows /\ audit' = audit \cup req[r].entries
      /\ UNCHANGED <<now, engine, pending, seq, users, walk>>
  BY DEF Commit, Committed, Typed
<1>3. StoresOK'
  BY <1>1, <1>2, FS_Union DEF Typed, StoresOK, ReqOK, engine
<1>4. req'[r] = q
  BY <1>2 DEF Typed
<1>5. ReqOK(r)'
  BY <1>1, <1>4, FS_EmptySet DEF ReqOK, Idle, Silent, Phase
<1> HIDE DEF q
<1> QED BY <1>2, <1>3, <1>5, OthersOK

LEMMA FailTyped == ASSUME Typed, NEW r \in Request, Fail(r) PROVE Typed'
<1> DEFINE q == [req[r] EXCEPT !.pc = "failed", !.took = <<>>, !.rows = {}, !.entries = {}]
<1>1. ReqOK(r) /\ req[r].pc \in {"write", "commit", "show"}
  BY DEF Typed, Fail
<1>2. req' = [req EXCEPT ![r] = q] /\ UNCHANGED <<now, engine, pending, seq, walk>>
  BY DEF Fail, Typed
<1>3. StoresOK'
  <2>1. CASE UNCHANGED tables
    BY <1>2, <2>1 DEF Typed, StoresOK, engine, tables
  <2>2. CASE Committed(r)
    BY <1>1, <1>2, <2>2, FS_Union DEF Committed, Typed, StoresOK, ReqOK, engine
  <2> QED BY <2>1, <2>2 DEF Fail
<1>4. req'[r] = q /\ <<>> \in Seq(Entry)
  BY <1>2 DEF Typed
<1>5. ReqOK(r)'
  BY <1>1, <1>4, FS_EmptySet DEF ReqOK, Idle, Silent, Phase
<1> HIDE DEF q
<1> QED BY <1>2, <1>3, <1>5, OthersOK

LEMMA ShowTyped == ASSUME Typed, NEW r \in Request, Show(r) PROVE Typed'
<1> DEFINE card == Detail(req[r].asked.user)
           q == [req[r] EXCEPT !.pc = "ok", !.answer.events = Listed(r), !.answer.card = card]
<1>1. ReqOK(r) /\ req[r].pc = "show"
  BY DEF Typed, Show
<1>2. req' = [req EXCEPT ![r] = q] /\ UNCHANGED <<now, engine, pending, seq, tables, walk>>
  BY DEF Show, Typed
<1> HIDE DEF card
<1>3. StoresOK'
  BY <1>2 DEF Typed, StoresOK, engine, tables
<1>4. req'[r] = q
  BY <1>2 DEF Typed
<1>5. ReqOK(r)'
  BY <1>1, <1>4 DEF ReqOK, Idle, Silent, Phase
<1> HIDE DEF q
<1> QED BY <1>2, <1>3, <1>5, OthersOK

(* The ticker's round: everybody's record is caught up, the sink has the   *)
(* ticker's events.                                                        *)
LEMMA TickTyped == ASSUME Typed, Tick PROVE Typed'
<1> DEFINE out(u) == CaughtUp(records[u], now)
           due == {u \in DOMAIN records : IsDue(records[u], now)}
<1>1. PICK late \in SetToSeqs(due) :
        /\ records' = [u \in DOMAIN records |-> out(u).rec]
        /\ pending' = pending \o FlattenSeq(
               [i \in DOMAIN late |-> Emitted(late[i], out(late[i]).events, Ticker)])
        /\ UNCHANGED <<now, filed, redeemed, programs, seq, tables, req, walk>>
  BY DEF Tick
<1>2. now \in Int /\ DOMAIN records = Subscriber /\ pending \in Seq(Ticked)
  BY DEF Typed, StoresOK
<1>3. \A u \in Subscriber : out(u) \in Result
  BY CaughtUpType DEF Typed, StoresOK
<1> HIDE DEF out
<1>4. \A u \in Subscriber : out(u).rec \in Life /\ out(u).events \in Seq(Happening)
  BY <1>3 DEF Result
<1>5. records' \in [Subscriber -> Life]
  BY <1>1, <1>2, <1>4
<1>6. due \subseteq Subscriber
  BY <1>2
<1>7. Cardinality(due) \in Nat
  BY <1>6, DeskAssumption, FS_Subset, FS_CardinalityType DEF Subscriber
<1> HIDE DEF due
<1>8. late \in [1 .. Cardinality(due) -> due] /\ DOMAIN late = 1 .. Cardinality(due)
  BY DEF SetToSeqs
<1> DEFINE logs == [i \in DOMAIN late |-> Emitted(late[i], out(late[i]).events, Ticker)]
<1>9. \A i \in 1 .. Cardinality(due) : Emitted(late[i], out(late[i]).events, Ticker) \in Seq(Ticked)
  BY <1>2, <1>4, <1>6, <1>8, EmittedType
<1>10. logs \in Seq(Seq(Ticked))
  BY <1>7, <1>8, <1>9
<1>11. pending' = pending \o FlattenSeq(logs)
  BY <1>1
<1> HIDE DEF logs
<1>12. pending' \in Seq(Ticked)
  <2>1. FlattenSeq(logs) \in Seq(Ticked)
    BY <1>10, FlattenType
  <2> QED BY <1>2, <1>11, <2>1
<1> QED BY <1>1, <1>5, <1>12 DEF Typed, StoresOK, ReqOK, tables

LEMMA RecordTyped == ASSUME Typed, Record PROVE Typed'
<1>1. /\ pending' = <<>> /\ seq' = seq + Len(pending)
      /\ journal' = journal \cup Numbered(pending, seq - 1) \/ journal' = journal
      /\ UNCHANGED <<now, engine, audit, users, req, walk>>
  BY DEF Record
<1>2. seq \in Nat /\ seq - 1 \in Int /\ pending \in Seq(Ticked) /\ Len(pending) \in Nat
  BY DEF Typed, StoresOK
<1>3. pending \in Seq(Entry)
  BY <1>2, SeqMonotonic DEF Ticked
<1>4. /\ IsFiniteSet(Numbered(pending, seq - 1))
      /\ \A row \in Numbered(pending, seq - 1) : Dated(row)
  BY <1>2, <1>3, NumberedType
<1>5. IsFiniteSet(journal') /\ \A row \in journal' : Dated(row)
  BY <1>1, <1>4, FS_Union DEF Typed, StoresOK
<1>6. StoresOK'
  <2>1. seq' \in Nat /\ <<>> \in Seq(Ticked)
    BY <1>1, <1>2
  <2> QED BY <1>1, <1>5, <2>1 DEF Typed, StoresOK, engine
<1> QED BY <1>1, <1>6 DEF Typed, ReqOK

(* Everybody else leaves what the requests and the sink hold as it is.     *)
OnlyWatched == UNCHANGED <<engine, pending, seq, journal, audit, req>>

LEMMA WatchedTyped ==
  ASSUME Typed, OnlyWatched, now' \in Int, IsFiniteSet(users'), users' \subseteq Int
  PROVE  Typed'
BY DEF Typed, StoresOK, ReqOK, OnlyWatched, engine

LEMMA Watched1 ==
  ASSUME Typed, \/ Elapse \/ \E email \in Email : Hire(email)
                \/ \E start \in Walk : Open(start)
                \/ ReadFeed \/ CountFeed \/ CountUsers \/ ReadUsers
                \/ UNCHANGED vars
  PROVE  OnlyWatched /\ now' \in Int /\ IsFiniteSet(users') /\ users' \subseteq Int
<1>1. now \in Int /\ IsFiniteSet(users) /\ users \subseteq Int
  BY DEF Typed, StoresOK
<1>2. CASE Elapse
  BY <1>1, <1>2 DEF Elapse, OnlyWatched, engine, tables
<1>3. CASE \E email \in Email : Hire(email)
  <2>1. PICK email \in Email : Hire(email)
    BY <1>3
  <2>2. IsFiniteSet(users \cup {email}) /\ email \in Int
    BY <1>1, DeskAssumption, FS_AddElement
  <2> QED BY <1>1, <2>1, <2>2 DEF Hire, OnlyWatched, engine
<1>4. CASE OnlyWalk
  BY <1>1, <1>4 DEF OnlyWalk, OnlyWatched, engine, tables
<1>5. CASE UNCHANGED vars
  BY <1>1, <1>5 DEF vars, OnlyWatched, engine
<1>6. OnlyWalk \/ Elapse \/ (\E email \in Email : Hire(email)) \/ UNCHANGED vars
  BY DEF Open, ReadFeed, CountFeed, CountUsers, ReadUsers
<1> QED BY <1>2, <1>3, <1>4, <1>5, <1>6

LEMMA TypedStep == ASSUME Typed, [Next]_vars PROVE Typed'
<1>1. ASSUME NEW r \in Request,
             \/ \E asked \in Operation : Ask(r, asked)
             \/ Operate(r) \/ Write(r) \/ Commit(r) \/ Fail(r) \/ Show(r)
      PROVE  Typed'
  BY <1>1, AskTyped, OperateTyped, WriteTyped, CommitTyped, FailTyped, ShowTyped
<1>2. CASE \/ Elapse \/ \E email \in Email : Hire(email)
           \/ \E start \in Walk : Open(start)
           \/ ReadFeed \/ CountFeed \/ CountUsers \/ ReadUsers
           \/ UNCHANGED vars
  BY <1>2, Watched1, WatchedTyped
<1> QED BY <1>1, <1>2, TickTyped, RecordTyped DEF Next

LEMMA TypedInit == ASSUME Init PROVE Typed
<1>1. /\ now \in Int /\ records \in [Subscriber -> Life] /\ pending \in Seq(Ticked)
      /\ IsFiniteSet(journal) /\ IsFiniteSet(audit) /\ IsFiniteSet(users) /\ users \subseteq Int
      /\ \A row \in journal \cup audit : Dated(row)
  <2>1. records \in [Subscriber -> Life]
    BY DeskAssumption DEF Init, Life, Subscriber
  <2>2. \A row \in journal \cup audit : Dated(row)
    BY DeskAssumption DEF Init, Dated
  <2> QED BY <2>1, <2>2, DeskAssumption DEF Init
<1>2. seq \in Nat
  <2> DEFINE numbers == {row.seq : row \in History \cup Trail}
  <2>1. IsFiniteSet(numbers) /\ numbers \subseteq Nat
    <3> DEFINE rows == History \cup Trail
               f == [row \in rows |-> row.seq]
    <3>1. IsFiniteSet(rows)
      BY DeskAssumption, FS_Union
    <3>2. f \in Surjection(rows, numbers)
      BY DEF Surjection
    <3> QED BY <3>1, <3>2, DeskAssumption, FS_Surjection
  <2>2. IsFiniteSet({0} \cup numbers)
    BY <2>1, FS_Singleton, FS_Union
  <2>3. seq = 1 + Max({0} \cup numbers)
    BY DEF Init
  <2> HIDE DEF numbers
  <2>4. {0} \cup numbers \subseteq Nat /\ {0} \cup numbers # {}
    BY <2>1
  <2>5. Max({0} \cup numbers) \in Nat
    BY <2>2, <2>4, MaxType
  <2> QED BY <2>3, <2>5
<1>3. ASSUME NEW r \in Request PROVE ReqOK(r)
  <2>1. req[r] = Idle /\ <<>> \in Seq(Entry) /\ IsFiniteSet({})
    BY FS_EmptySet DEF Init
  <2> QED BY <2>1 DEF ReqOK, Idle, Silent, Phase
<1>4. DOMAIN req = Request
  BY DEF Init
<1> QED BY <1>1, <1>2, <1>3, <1>4 DEF Typed, StoresOK

(* The types of everything the desk holds, and of the engine's records     *)
(* that each has the boundary its state ends at (Due), through every       *)
(* operation, refusal and catch-up of operations.py and ticker.py.         *)
THEOREM TypeCorrect == Spec => []Typed
<1>1. Init => Typed
  BY TypedInit
<1>2. Typed /\ [Next]_vars => Typed'
  BY TypedStep
<1> QED BY <1>1, <1>2, PTL DEF Spec

-----------------------------------------------------------------------------
(* The books *)

Unbooked(r) == \A row \in journal \cup audit : row.by # r

(* What was drained ends with what the request itself emitted.             *)
OwnLast(r) ==
    \E k \in 0 .. Len(req[r].took) :
        /\ Len(req[r].took) = k + Len(req[r].produced)
        /\ \A i \in 1 .. k : req[r].took[i].by = Ticker
        /\ \A i \in 1 .. Len(req[r].produced) :
              req[r].took[k + i] = req[r].produced[i] /\ req[r].produced[i].by = r

(* What is written and not committed: the journal's rows and the audit's.  *)
Draft(r) ==
    /\ \A row \in req[r].rows : row.by \in {r, Ticker}
    /\ \E from \in 0 .. seq : {row \in req[r].rows : row.by = r} = Numbered(req[r].produced, from)
    /\ \E entry : req[r].entries = {entry} /\ entry.by = r /\ entry.code = req[r].refusal

Audited(r) ==
    \E entry : {row \in audit : row.by = r} = {entry} /\ entry.code = req[r].refusal

BooksOK(r) ==
    /\ req[r].pc \in {"idle", "asked", "not_found"} => req[r].produced = <<>>
    /\ req[r].pc \notin {"show", "ok", "refused", "failed"} => Unbooked(r)
    /\ req[r].pc = "write" => OwnLast(r)
    /\ req[r].pc = "commit" => Draft(r)
    /\ req[r].pc \in {"show", "ok", "refused"} =>
          /\ Booked(r, req[r].produced) /\ Audited(r)
          /\ req[r].answer.code = req[r].refusal
    /\ req[r].pc = "failed" => Unbooked(r) \/ (Booked(r, req[r].produced) /\ Audited(r))
    /\ req[r].pc = "ok" => req[r].answer.events = req[r].produced

(* The rows of r in the journal of what it drained are those of what it    *)
(* produced.                                                               *)
LEMMA OwnNumbers ==
  ASSUME Typed, NEW r \in Request, OwnLast(r), NEW from \in Nat
  PROVE  \E k \in 0 .. Len(req[r].took) :
           {row \in Numbered(req[r].took, from) : row.by = r} = Numbered(req[r].produced, from + k)
<1> DEFINE line(log, n, i) == [seq |-> n + i, user |-> log[i].user, type |-> log[i].type,
                               at |-> log[i].at, detail |-> log[i].detail, by |-> log[i].by]
<1>1. req[r].took \in Seq(Entry) /\ req[r].produced \in Seq(Entry)
  BY DEF Typed, ReqOK
<1>2. PICK took \in Seq(Entry) : took = req[r].took
  BY <1>1
<1>3. PICK produced \in Seq(Entry) : produced = req[r].produced
  BY <1>1
<1>4. PICK k \in 0 .. Len(took) :
        /\ Len(took) = k + Len(produced)
        /\ \A i \in 1 .. k : took[i].by = Ticker
        /\ \A i \in 1 .. Len(produced) : took[k + i] = produced[i] /\ produced[i].by = r
  BY <1>2, <1>3 DEF OwnLast
<1>5. \A log \in Seq(Entry), n \in Int : Numbered(log, n) = {line(log, n, i) : i \in 1 .. Len(log)}
  BY DEF Numbered
<1>6. \A log, n, i : line(log, n, i).by = log[i].by
  OBVIOUS
<1>7. \A i \in 1 .. Len(produced) : line(took, from, k + i) = line(produced, from + k, i)
  <2> SUFFICES ASSUME NEW i \in 1 .. Len(produced)
               PROVE  line(took, from, k + i) = line(produced, from + k, i)
    OBVIOUS
  <2>1. took[k + i] = produced[i] /\ from + (k + i) = (from + k) + i
    BY <1>4
  <2> QED BY <2>1
<1> HIDE DEF line
<1>8. Len(took) \in Nat /\ Len(produced) \in Nat /\ k \in Nat
  OBVIOUS
<1>9. ASSUME NEW i \in 1 .. Len(took), line(took, from, i).by = r
      PROVE  \E j \in 1 .. Len(produced) : i = k + j
  <2>1. ~(i \in 1 .. k)
    BY <1>4, <1>6, <1>9, DeskAssumption
  <2>2. i - k \in 1 .. Len(produced) /\ i = k + (i - k)
    BY <1>4, <1>8, <2>1
  <2> QED BY <2>2
<1>10. \A j \in 1 .. Len(produced) : k + j \in 1 .. Len(took) /\ line(took, from, k + j).by = r
  <2> SUFFICES ASSUME NEW j \in 1 .. Len(produced)
               PROVE  k + j \in 1 .. Len(took) /\ line(took, from, k + j).by = r
    OBVIOUS
  <2>1. k + j \in 1 .. Len(took)
    BY <1>4, <1>8
  <2>2. took[k + j].by = r
    BY <1>4
  <2> QED BY <1>6, <2>1, <2>2
<1>11. {row \in {line(took, from, i) : i \in 1 .. Len(took)} : row.by = r}
        = {line(produced, from + k, j) : j \in 1 .. Len(produced)}
  BY <1>7, <1>9, <1>10
<1>12. {row \in Numbered(took, from) : row.by = r} = Numbered(produced, from + k)
  BY <1>5, <1>8, <1>11
<1> QED BY <1>2, <1>3, <1>12

(* A request whose own rows nobody touched.                                *)
LEMMA BooksKept ==
  ASSUME Typed, NEW r \in Request, BooksOK(r), seq' \in Nat, seq <= seq', req'[r] = req[r],
         {row \in journal' : row.by = r} = {row \in journal : row.by = r},
         {row \in audit' : row.by = r} = {row \in audit : row.by = r}
  PROVE  BooksOK(r)'
<1>1. seq \in Nat /\ 0 .. seq \subseteq 0 .. seq'
  BY DEF Typed, StoresOK
<1>2. Unbooked(r) => Unbooked(r)'
  BY DEF Unbooked
<1>3. OwnLast(r) => OwnLast(r)'
  BY DEF OwnLast
<1>4. Draft(r) => Draft(r)'
  BY <1>1 DEF Draft, Numbered
<1>5. Booked(r, req[r].produced) => Booked(r, req[r].produced)'
  BY <1>1 DEF Booked, Numbered
<1>6. Audited(r) => Audited(r)'
  BY DEF Audited
<1> QED BY <1>2, <1>3, <1>4, <1>5, <1>6 DEF BooksOK

(* The rows a step of somebody else commits are of other hands.            *)
LEMMA BooksOfOthers ==
  ASSUME Typed, NEW r \in Request, BooksOK(r), NEW s \in Request, s # r,
         req'[r] = req[r], seq' \in Nat, seq <= seq',
         \/ UNCHANGED <<journal, audit>>
         \/ /\ req[s].pc = "commit" /\ BooksOK(s)
            /\ journal' = journal \cup req[s].rows /\ audit' = audit \cup req[s].entries
  PROVE  BooksOK(r)'
<1>2. CASE UNCHANGED <<journal, audit>>
  BY <1>2, BooksKept
<1>3. CASE /\ req[s].pc = "commit" /\ BooksOK(s)
           /\ journal' = journal \cup req[s].rows /\ audit' = audit \cup req[s].entries
  <2>1. (\A row \in req[s].rows : row.by # r) /\ \A row \in req[s].entries : row.by # r
    BY <1>3, DeskAssumption DEF BooksOK, Draft
  <2> QED BY <1>3, <2>1, BooksKept
<1> QED BY <1>2, <1>3

LEMMA AskBooks ==
  ASSUME Typed, NEW r \in Request, BooksOK(r), NEW asked \in Operation, Ask(r, asked)
  PROVE  BooksOK(r)'
<1>1. req'[r] = [Idle EXCEPT !.pc = "asked", !.asked = asked, !.began = now]
      /\ UNCHANGED <<journal, audit>> /\ req[r].pc = "idle"
  BY DEF Ask, Typed, tables
<1> QED BY <1>1 DEF BooksOK, Unbooked, Idle

LEMMA OperateBooks ==
  ASSUME Typed, NEW r \in Request, BooksOK(r), Operate(r)
  PROVE  BooksOK(r)'
<1>r. ReqOK(r) /\ req[r].pc = "asked" /\ DOMAIN records = Subscriber
      /\ UNCHANGED <<journal, audit>>
  BY DEF Typed, StoresOK, Operate, tables
<1>u. Unbooked(r)'
  BY <1>r DEF BooksOK, Unbooked
<1>1. CASE req[r].asked.user \notin Subscriber
  <2>1. req'[r] = [req[r] EXCEPT !.pc = "not_found"]
    BY <1>r, <1>1 DEF Operate, Typed
  <2>2. req'[r].pc = "not_found" /\ req'[r].produced = req[r].produced
    BY <1>r, <2>1 DEF ReqOK, Idle
  <2> QED BY <1>r, <1>u, <2>2 DEF BooksOK
<1>2. CASE req[r].asked.user \in Subscriber
  <2>1. /\ Own(r) \in Seq(Entry) /\ \A i \in DOMAIN Own(r) : Own(r)[i].by = r
        /\ req' = [req EXCEPT ![r] = [req[r] EXCEPT !.pc = "write", !.took = pending \o Own(r),
                                                    !.produced = Own(r), !.refusal = Made(r).refusal]]
    BY <1>2, OperateEffect
  <2>2. PICK own \in Seq(Entry) : own = Own(r)
    BY <2>1
  <2>3. PICK held \in Seq(Ticked) : held = pending
    BY DEF Typed, StoresOK
  <2>4. req'[r].pc = "write" /\ req'[r].took = held \o own /\ req'[r].produced = own
    BY <1>r, <2>1, <2>2, <2>3 DEF ReqOK, Idle, Typed
  <2>5. held \in Seq(Entry) /\ \A i \in 1 .. Len(held) : held[i].by = Ticker
    BY SeqMonotonic DEF Ticked
  <2>6. \A i \in 1 .. Len(own) : own[i].by = r
    BY <2>1, <2>2
  <2>7. /\ Len(held \o own) = Len(held) + Len(own) /\ Len(held) \in Nat /\ Len(own) \in Nat
        /\ \A i \in 1 .. Len(held) : (held \o own)[i] = held[i]
        /\ \A i \in 1 .. Len(own) : (held \o own)[Len(held) + i] = own[i]
    BY <2>5
  <2>8. OwnLast(r)'
    <3>1. PICK took : took = held \o own
      OBVIOUS
    <3>2. PICK k \in Nat : k = Len(held)
      BY <2>7
    <3>3. k \in 0 .. Len(took) /\ Len(took) = k + Len(own)
      BY <2>7, <3>1, <3>2
    <3>4. \A i \in 1 .. k : took[i].by = Ticker
      BY <2>5, <2>7, <3>1, <3>2
    <3>5. \A i \in 1 .. Len(own) : took[k + i] = own[i] /\ own[i].by = r
      BY <2>6, <2>7, <3>1, <3>2
    <3>6. req'[r].took = took /\ req'[r].produced = own
      BY <2>4, <3>1
    <3> QED BY <3>3, <3>4, <3>5, <3>6 DEF OwnLast
  <2> QED BY <1>u, <2>4, <2>8 DEF BooksOK
<1> QED BY <1>1, <1>2

LEMMA WriteBooks ==
  ASSUME Typed, NEW r \in Request, BooksOK(r), Write(r)
  PROVE  BooksOK(r)'
<1>r. /\ ReqOK(r) /\ req[r].pc = "write" /\ UNCHANGED <<journal, audit>>
      /\ req[r].took \in Seq(Entry) /\ seq \in Nat
  <2>1. ReqOK(r) /\ seq \in Nat
    BY DEF Typed, StoresOK
  <2>2. req[r].took \in Seq(Entry)
    BY <2>1 DEF ReqOK
  <2> QED BY <2>1, <2>2 DEF Write, tables
<1>1. PICK rows : rows = Numbered(req[r].took, seq)
  OBVIOUS
<1>2. PICK entry : entry = AuditRow(r, seq)
  OBVIOUS
<1>3. req' = [req EXCEPT ![r] = [req[r] EXCEPT !.pc = "commit", !.rows = rows, !.entries = {entry}]]
      /\ seq' = seq + Cardinality(rows) + 1
  BY <1>1, <1>2 DEF Write, Typed
<1>4. /\ req'[r].pc = "commit" /\ req'[r].rows = rows /\ req'[r].entries = {entry}
      /\ req'[r].produced = req[r].produced /\ req'[r].refusal = req[r].refusal
  BY <1>r, <1>3 DEF ReqOK, Idle, Typed
<1>5. entry.by = r /\ entry.code = req[r].refusal
  BY <1>2 DEF AuditRow
<1>6. PICK k \in 0 .. Len(req[r].took) :
        {row \in rows : row.by = r} = Numbered(req[r].produced, seq + k)
  BY <1>r, <1>1, OwnNumbers DEF BooksOK
<1>7. seq + k \in 0 .. seq'
  <2>1. Cardinality(rows) = Len(req[r].took) /\ Len(req[r].took) \in Nat
    BY <1>r, <1>1, NumberedType
  <2> QED BY <1>r, <1>3, <2>1
<1>8. \A row \in rows : row.by \in {r, Ticker}
  <2>1. PICK took \in Seq(Entry) : took = req[r].took
    BY <1>r
  <2>2. \A i \in 1 .. Len(took) : took[i].by \in {r, Ticker}
    <3>1. PICK n \in 0 .. Len(took) :
            /\ Len(took) = n + Len(req[r].produced)
            /\ \A i \in 1 .. n : took[i].by = Ticker
            /\ \A i \in 1 .. Len(req[r].produced) :
                  took[n + i] = req[r].produced[i] /\ req[r].produced[i].by = r
      BY <1>r, <2>1 DEF BooksOK, OwnLast
    <3> SUFFICES ASSUME NEW i \in 1 .. Len(took) PROVE took[i].by \in {r, Ticker}
      OBVIOUS
    <3>2. req[r].produced \in Seq(Entry)
      BY <1>r DEF ReqOK
    <3>3. CASE i <= n
      BY <3>1, <3>3
    <3>4. CASE ~(i <= n)
      <4>1. i - n \in 1 .. Len(req[r].produced) /\ i = n + (i - n)
        BY <3>1, <3>2, <3>4
      <4> QED BY <3>1, <4>1
    <3> QED BY <3>3, <3>4
  <2> QED BY <1>1, <2>1, <2>2 DEF Numbered
<1>9. Numbered(req[r].produced, seq + k)' = Numbered(req'[r].produced, seq' + k)
  OBVIOUS
<1>10. Draft(r)'
  <2>1. PICK from \in 0 .. seq' : from = seq + k
    BY <1>7
  <2>2. {row \in req'[r].rows : row.by = r} = Numbered(req'[r].produced, from)
    BY <1>4, <1>6, <2>1
  <2> QED BY <1>4, <1>5, <1>8, <2>1, <2>2 DEF Draft, Numbered
<1>11. Unbooked(r)'
  BY <1>r DEF BooksOK, Unbooked
<1> QED BY <1>4, <1>10, <1>11 DEF BooksOK

(* A request whose transaction takes effect, however it goes on.           *)
LEMMA CommittedBooks ==
  ASSUME Typed, NEW r \in Request, BooksOK(r), req[r].pc = "commit", Committed(r), seq' = seq,
         req'[r].produced = req[r].produced, req'[r].refusal = req[r].refusal
  PROVE  Booked(r, req[r].produced)' /\ Audited(r)'
<1>r. /\ Unbooked(r) /\ Draft(r)
      /\ journal' = journal \cup req[r].rows /\ audit' = audit \cup req[r].entries
  BY DEF BooksOK, Committed
<1>1. {row \in journal' : row.by = r} = {row \in req[r].rows : row.by = r}
  BY <1>r DEF Unbooked
<1>2. {row \in audit' : row.by = r} = {row \in req[r].entries : row.by = r}
  BY <1>r DEF Unbooked
<1>3. Booked(r, req[r].produced)'
  BY <1>r, <1>1 DEF Booked, Draft, Numbered
<1>4. PICK entry : req[r].entries = {entry} /\ entry.by = r /\ entry.code = req[r].refusal
  BY <1>r DEF Draft
<1>5. {row \in audit' : row.by = r} = {entry}
  BY <1>2, <1>4
<1> QED BY <1>3, <1>4, <1>5 DEF Audited

LEMMA CommitBooks ==
  ASSUME Typed, NEW r \in Request, BooksOK(r), Commit(r)
  PROVE  BooksOK(r)'
<1>r. ReqOK(r) /\ req[r].pc = "commit" /\ Committed(r) /\ seq' = seq
  BY DEF Typed, Commit
<1>1. /\ req'[r].pc \in {"show", "refused"} /\ req'[r].answer.code = req[r].refusal
      /\ req'[r].produced = req[r].produced /\ req'[r].refusal = req[r].refusal
  <2>1. req'[r] = [req[r] EXCEPT !.pc = IF req[r].refusal = None THEN "show" ELSE "refused",
                                 !.rows = {}, !.entries = {}, !.answer.code = req[r].refusal]
    BY DEF Commit, Typed
  <2> QED BY <1>r, <2>1 DEF ReqOK, Idle, Silent
<1>2. Booked(r, req[r].produced)' /\ Audited(r)'
  BY <1>r, <1>1, CommittedBooks
<1> QED BY <1>1, <1>2 DEF BooksOK

(* Rolled back, nothing is in the books; committed behind a lost answer,   *)
(* or before the card failed, all of it is.                                *)
LEMMA FailBooks ==
  ASSUME Typed, NEW r \in Request, BooksOK(r), Fail(r)
  PROVE  BooksOK(r)'
<1>1. ReqOK(r) /\ seq' = seq
  BY DEF Typed, Fail
<1>2. req'[r].pc = "failed" /\ req'[r].produced = req[r].produced /\ req'[r].refusal = req[r].refusal
  <2>1. req'[r] = [req[r] EXCEPT !.pc = "failed", !.took = <<>>, !.rows = {}, !.entries = {}]
    BY DEF Fail, Typed
  <2> QED BY <1>1, <2>1 DEF ReqOK, Idle
<1>3. CASE req[r].pc \in {"write", "commit"} /\ UNCHANGED tables
  <2>1. Unbooked(r)'
    BY <1>3 DEF BooksOK, Unbooked, tables
  <2> QED BY <1>2, <2>1 DEF BooksOK
<1>4. CASE req[r].pc = "commit" /\ Committed(r)
  <2>1. Booked(r, req[r].produced)' /\ Audited(r)'
    BY <1>1, <1>2, <1>4, CommittedBooks
  <2> QED BY <1>2, <2>1 DEF BooksOK
<1>5. CASE req[r].pc = "show" /\ UNCHANGED tables
  <2>1. Booked(r, req[r].produced)' /\ Audited(r)'
    BY <1>1, <1>2, <1>5 DEF BooksOK, Booked, Audited, Numbered, tables
  <2> QED BY <1>2, <2>1 DEF BooksOK
<1> QED BY <1>3, <1>4, <1>5 DEF Fail

LEMMA ShowBooks ==
  ASSUME Typed, NEW r \in Request, BooksOK(r), Show(r)
  PROVE  BooksOK(r)'
<1>1. ReqOK(r) /\ req[r].pc = "show" /\ UNCHANGED <<journal, audit, seq>>
  BY DEF Typed, Show, tables
<1>2. /\ req'[r].pc = "ok" /\ req'[r].produced = req[r].produced
      /\ req'[r].refusal = req[r].refusal
      /\ req'[r].answer.code = req[r].answer.code /\ req'[r].answer.events = req[r].produced
  <2>1. PICK card : card = Detail(req[r].asked.user)
    OBVIOUS
  <2>2. PICK q : q = req[r]
    OBVIOUS
  <2>3. req'[r] = [q EXCEPT !.pc = "ok", !.answer.events = q.produced, !.answer.card = card]
    BY <2>1, <2>2 DEF Show, Typed, Listed
  <2>4. DOMAIN q = DOMAIN Idle /\ DOMAIN q.answer = DOMAIN Silent
    BY <1>1, <2>2 DEF ReqOK
  <2>5. {"pc", "produced", "refusal", "answer"} \subseteq DOMAIN q /\ {"code", "events", "card"} \subseteq DOMAIN q.answer
    BY <2>4 DEF Idle, Silent
  <2>6. req'[r].pc = "ok" /\ req'[r].produced = q.produced /\ req'[r].refusal = q.refusal
    BY <2>3, <2>5
  <2>7. req'[r].answer.code = q.answer.code /\ req'[r].answer.events = q.produced
    BY <2>3, <2>5
  <2> QED BY <2>2, <2>6, <2>7
<1>3. Booked(r, req[r].produced)' /\ Audited(r)'
  BY <1>1, <1>2 DEF BooksOK, Booked, Audited, Numbered
<1>4. req'[r].answer.code = req'[r].refusal
  BY <1>1, <1>2 DEF BooksOK
<1> QED BY <1>2, <1>3, <1>4 DEF BooksOK

(* Everybody's books.                                                      *)
LEMMA BooksStep == Typed /\ (\A r \in Request : BooksOK(r)) /\ [Next]_vars => (\A r \in Request : BooksOK(r))'
<1> SUFFICES ASSUME Typed, \A r \in Request : BooksOK(r), [Next]_vars, NEW r \in Request
             PROVE  BooksOK(r)'
  OBVIOUS
<1>0. seq \in Nat /\ Typed'
  BY TypedStep DEF Typed, StoresOK
<1>1. ASSUME NEW s \in Request, NEW asked \in Operation, Ask(s, asked) PROVE BooksOK(r)'
  <2>1. CASE s = r
    BY <1>1, <2>1, AskBooks
  <2>2. CASE s # r
    <3>1. req'[r] = req[r] /\ seq' = seq /\ UNCHANGED <<journal, audit>>
      BY <1>1, <2>2 DEF Ask, Typed, tables
    <3> QED BY <1>0, <2>2, <3>1, BooksOfOthers
  <2> QED BY <2>1, <2>2
<1>2. ASSUME NEW s \in Request, Operate(s) PROVE BooksOK(r)'
  <2>1. CASE s = r
    BY <1>2, <2>1, OperateBooks
  <2>2. CASE s # r
    <3>1. req'[r] = req[r] /\ seq' = seq /\ UNCHANGED <<journal, audit>>
      BY <1>2, <2>2 DEF Operate, Typed, tables
    <3> QED BY <1>0, <2>2, <3>1, BooksOfOthers
  <2> QED BY <2>1, <2>2
<1>3. ASSUME NEW s \in Request, Write(s) PROVE BooksOK(r)'
  <2>1. CASE s = r
    BY <1>3, <2>1, WriteBooks
  <2>2. CASE s # r
    <3>1. req'[r] = req[r] /\ UNCHANGED <<journal, audit>>
      BY <1>3, <2>2 DEF Write, Typed, tables
    <3>2. seq' \in Nat /\ seq <= seq'
      <4>1. req[s].took \in Seq(Entry)
        BY DEF Typed, ReqOK
      <4>2. Cardinality(Numbered(req[s].took, seq)) \in Nat
        BY <1>0, <4>1, NumberedType
      <4>3. seq' = seq + Cardinality(Numbered(req[s].took, seq)) + 1
        BY <1>3 DEF Write
      <4> QED BY <1>0, <4>2, <4>3
    <3> QED BY <2>2, <3>1, <3>2, BooksOfOthers
  <2> QED BY <2>1, <2>2
<1>4. ASSUME NEW s \in Request, Commit(s) PROVE BooksOK(r)'
  <2>1. CASE s = r
    BY <1>4, <2>1, CommitBooks
  <2>2. CASE s # r
    <3>1. req'[r] = req[r] /\ seq' = seq /\ req[s].pc = "commit"
          /\ journal' = journal \cup req[s].rows /\ audit' = audit \cup req[s].entries
      BY <1>4, <2>2 DEF Commit, Committed, Typed
    <3> QED BY <1>0, <2>2, <3>1, BooksOfOthers
  <2> QED BY <2>1, <2>2
<1>5. ASSUME NEW s \in Request, Fail(s) PROVE BooksOK(r)'
  <2>1. CASE s = r
    BY <1>5, <2>1, FailBooks
  <2>2. CASE s # r
    <3>1. /\ req'[r] = req[r] /\ seq' = seq
          /\ \/ UNCHANGED <<journal, audit>>
             \/ /\ req[s].pc = "commit"
                /\ journal' = journal \cup req[s].rows /\ audit' = audit \cup req[s].entries
      BY <1>5, <2>2 DEF Fail, Committed, Typed, tables
    <3> QED BY <1>0, <2>2, <3>1, BooksOfOthers
  <2> QED BY <2>1, <2>2
<1>6. ASSUME NEW s \in Request, Show(s) PROVE BooksOK(r)'
  <2>1. CASE s = r
    BY <1>6, <2>1, ShowBooks
  <2>2. CASE s # r
    <3>1. req'[r] = req[r] /\ seq' = seq /\ UNCHANGED <<journal, audit>>
      BY <1>6, <2>2 DEF Show, Typed, tables
    <3> QED BY <1>0, <2>2, <3>1, BooksOfOthers
  <2> QED BY <2>1, <2>2
<1>7. ASSUME Record PROVE BooksOK(r)'
  <2>1. /\ req' = req /\ audit' = audit /\ seq' = seq + Len(pending)
        /\ journal' = journal \cup Numbered(pending, seq - 1) \/ journal' = journal
    BY <1>7 DEF Record
  <2>2. Len(pending) \in Nat /\ \A i \in 1 .. Len(pending) : pending[i].by = Ticker
    BY DEF Typed, StoresOK, Ticked
  <2>3. seq' \in Nat /\ seq <= seq'
    BY <1>0, <2>1, <2>2
  <2>4. \A row \in Numbered(pending, seq - 1) : row.by # r
    <3>1. pending \in Seq(Ticked)
      BY DEF Typed, StoresOK
    <3> QED BY <2>2, <3>1, DeskAssumption DEF Numbered
  <2> QED BY <2>1, <2>3, <2>4, BooksKept
<1>8. CASE UNCHANGED <<seq, journal, audit, req>>
  BY <1>0, <1>8, BooksKept
<1>9. Tick \/ Elapse \/ (\E email \in Email : Hire(email)) \/ (\E start \in Walk : Open(start))
      \/ ReadFeed \/ CountFeed \/ CountUsers \/ ReadUsers \/ UNCHANGED vars
      => UNCHANGED <<seq, journal, audit, req>>
  BY DEF Tick, Elapse, Hire, Open, ReadFeed, CountFeed, CountUsers, ReadUsers, OnlyWalk, tables, vars
<1> QED BY <1>1, <1>2, <1>3, <1>4, <1>5, <1>6, <1>7, <1>8, <1>9 DEF Next

LEMMA BooksInit == ASSUME Init PROVE \A r \in Request : BooksOK(r)
<1>1. \A r \in Request : req[r] = Idle /\ Unbooked(r)
  BY DeskAssumption DEF Init, Unbooked
<1> QED BY <1>1 DEF BooksOK, Idle

LEMMA BooksAnswer == ASSUME Typed, NEW r \in Request, BooksOK(r)
  PROVE  /\ req[r].pc \in {"show", "ok", "refused"} =>
               /\ req[r].answer.code \in HANDLED \cup {None}
               /\ InTheBooks(r, req[r].answer.code)
               /\ req[r].pc = "ok" => Booked(r, req[r].answer.events)
         /\ req[r].pc = "failed" => InTheBooks(r, req[r].refusal) \/ NotInTheBooks(r)
         /\ req[r].pc \notin {"show", "ok", "refused", "failed"} => NotInTheBooks(r)
<1>1. Unbooked(r) => NotInTheBooks(r)
  <2>1. Numbered(<<>>, 0) = {} /\ 0 \in 0 .. seq
    BY DEF Numbered, Typed, StoresOK
  <2> QED BY <2>1 DEF Unbooked, NotInTheBooks, Booked
<1>2. Booked(r, req[r].produced) /\ Audited(r) => InTheBooks(r, req[r].refusal)
  BY DEF Audited, InTheBooks
<1>3. req[r].refusal \in HANDLED \cup {None}
  BY DEF Typed, ReqOK
<1> QED BY <1>1, <1>2, <1>3 DEF BooksOK

LEMMA Books == Spec => [](Typed /\ \A r \in Request : BooksOK(r))
<1>1. Init => Typed /\ \A r \in Request : BooksOK(r)
  BY TypedInit, BooksInit
<1>2. (Typed /\ \A r \in Request : BooksOK(r)) /\ [Next]_vars
      => (Typed /\ \A r \in Request : BooksOK(r))'
  BY TypedStep, BooksStep
<1> QED BY <1>1, <1>2, PTL DEF Spec

(* What an operator is told is what the books say of that request, and of  *)
(* no other, however many requests interleave between the engine's step,   *)
(* the writing and the commit, and whoever drains the sink; what ended in  *)
(* a 500, before its commit, in it or after it, is there whole or not at   *)
(* all (audit.perform).                                                    *)
THEOREM AnswersMatch == Spec => []AnswersMatchTheBooks
<1>1. Typed /\ (\A r \in Request : BooksOK(r)) => AnswersMatchTheBooks
  BY BooksAnswer DEF AnswersMatchTheBooks
<1> QED BY <1>1, Books, PTL

-----------------------------------------------------------------------------
(* The money *)

(* A payment the engine has been handed, and the filing it was handed with.*)
Operated(r) == req[r].pc \notin {"idle", "asked", "not_found"} /\ req[r].asked.action = "payment"
FilingOf(r) == Filing(r, req[r].asked)

(* The engine's guard knows each filing that was handed in, and of those   *)
(* with one filing exactly one was booked as money.                        *)
MoneyOK ==
    /\ \A r \in Request : Operated(r) => FilingOf(r) \in filed
    /\ \A filing \in filed : \E s \in Request : Operated(s) /\ FilingOf(s) = filing /\ Recorded(s)
    /\ \A s, t \in Request : Operated(s) /\ Recorded(s) /\ Operated(t) /\ Recorded(t)
                             /\ FilingOf(s) = FilingOf(t) => s = t

(* Whoever was not handed to the engine now changes nothing of it.         *)
SameMoney(r) ==
    /\ Operated(r)' <=> Operated(r)
    /\ Operated(r) => req'[r].asked = req[r].asked /\ req'[r].produced = req[r].produced

LEMMA MoneyKept ==
  ASSUME MoneyOK, filed' = filed, \A r \in Request : SameMoney(r)
  PROVE  MoneyOK'
<1>1. \A r \in Request : /\ Operated(r)' <=> Operated(r)
                         /\ Operated(r) => /\ FilingOf(r)' = FilingOf(r)
                                           /\ Recorded(r)' <=> Recorded(r)
  BY DEF SameMoney, FilingOf, Recorded, Filing, ReferenceOf
<1>2. filed' = filed
  OBVIOUS
<1> QED BY <1>1, <1>2 DEF MoneyOK

(* The step that hands it over.                                            *)
LEMMA OperateMoney ==
  ASSUME Typed, MoneyOK, NEW r \in Request, Operate(r)
  PROVE  MoneyOK'
<1>1. /\ req[r].pc = "asked" /\ ReqOK(r) /\ ~Operated(r)
      /\ DOMAIN req = Request /\ DOMAIN records = Subscriber
      /\ DOMAIN req[r] = DOMAIN Idle
  BY DEF Typed, StoresOK, Operate, Operated, ReqOK
<1>2. \A s \in Request \ {r} : req'[s] = req[s]
  BY <1>1 DEF Operate
<1>3. \A s \in Request \ {r} : SameMoney(s)
  BY <1>2 DEF SameMoney, Operated
<1>4. CASE req[r].asked.user \notin Subscriber
  <2>1. req'[r] = [req[r] EXCEPT !.pc = "not_found"] /\ filed' = filed
    BY <1>1, <1>4 DEF Operate, engine
  <2>2. ~Operated(r)'
    BY <1>1, <2>1 DEF Operated, Idle
  <2> QED BY <1>1, <1>3, <2>1, <2>2, MoneyKept DEF SameMoney
<1>5. CASE req[r].asked.user \in Subscriber
  <2>1. /\ req'[r] = [req[r] EXCEPT !.pc = "write", !.took = pending \o Own(r),
                                    !.produced = Own(r), !.refusal = Made(r).refusal]
        /\ Own(r) \in Seq(Entry) /\ DOMAIN Own(r) = DOMAIN Made(r).events
        /\ \A i \in DOMAIN Own(r) : Own(r)[i].type = Made(r).events[i].type
    <3>1. /\ req' = [req EXCEPT ![r] = [req[r] EXCEPT !.pc = "write", !.took = pending \o Own(r),
                                                      !.produced = Own(r), !.refusal = Made(r).refusal]]
          /\ Own(r) \in Seq(Entry) /\ DOMAIN Own(r) = DOMAIN Made(r).events
          /\ \A i \in DOMAIN Own(r) : Own(r)[i].type = Made(r).events[i].type
      BY <1>5, OperateEffect
    <3> QED BY <1>1, <3>1
  <2>2. req'[r].pc = "write" /\ req'[r].asked = req[r].asked /\ req'[r].produced = Own(r)
    BY <1>1, <2>1 DEF Idle
  <2>3. filed' = IF req[r].asked.action = "payment"
                 THEN filed \cup {FilingOf(r)} ELSE filed
    BY <1>1, <1>5 DEF Operate, FilingOf
  <2>4. CASE req[r].asked.action # "payment"
    <3>1. filed' = filed /\ ~Operated(r)'
      BY <2>2, <2>3, <2>4 DEF Operated
    <3> QED BY <1>1, <1>3, <3>1, MoneyKept DEF SameMoney
  <2>5. CASE req[r].asked.action = "payment"
    <3>1. Operated(r)' /\ FilingOf(r)' = FilingOf(r) /\ filed' = filed \cup {FilingOf(r)}
      BY <2>2, <2>3, <2>5 DEF Operated, FilingOf, Filing, ReferenceOf
    <3>2. \A s \in Request \ {r} : /\ Operated(s)' <=> Operated(s)
                                   /\ Operated(s) => /\ FilingOf(s)' = FilingOf(s)
                                                     /\ Recorded(s)' <=> Recorded(s)
      BY <1>2 DEF Operated, FilingOf, Recorded, Filing, ReferenceOf
    <3>3. Recorded(r)' <=> \E i \in DOMAIN Made(r).events : Made(r).events[i].type = "payment.recorded"
      <4>1. ToSet(Own(r)) = {Own(r)[i] : i \in DOMAIN Own(r)}
        BY DEF ToSet
      <4>2. Recorded(r)' <=> \E e \in ToSet(Own(r)) : e.type = "payment.recorded"
        BY <2>2 DEF Recorded
      <4> QED BY <2>1, <4>1, <4>2
    <3>4. records[req[r].asked.user] \in Life /\ now \in Int /\ req[r].asked \in Operation
      BY <1>1, <1>5 DEF Typed, StoresOK, ReqOK
    <3>5. CASE FilingOf(r) \in filed
      <4>1. ~Recorded(r)'
        BY <2>5, <3>3, <3>4, <3>5, OutcomeType DEF Made, FilingOf, Unpaid
      <4>2. (\A s \in Request : Operated(s) => FilingOf(s) \in filed)'
        BY <3>1, <3>2, <3>5 DEF MoneyOK
      <4>3. (\A filing \in filed : \E s \in Request : Operated(s) /\ FilingOf(s) = filing /\ Recorded(s))'
        <5>1. \A s \in Request : Operated(s) => s # r
          BY <1>1
        <5> QED BY <3>1, <3>2, <3>5, <5>1 DEF MoneyOK
      <4>4. (\A s, t \in Request : Operated(s) /\ Recorded(s) /\ Operated(t) /\ Recorded(t)
                                 /\ FilingOf(s) = FilingOf(t) => s = t)'
        BY <3>2, <4>1 DEF MoneyOK
      <4> QED BY <4>2, <4>3, <4>4 DEF MoneyOK
    <3>6. CASE FilingOf(r) \notin filed
      <4>1. Recorded(r)'
        BY <2>5, <3>3, <3>4, <3>6, OutcomeType DEF Made, FilingOf, Paid
      <4>2. (\A s \in Request : Operated(s) => FilingOf(s) \in filed)'
        BY <3>1, <3>2, <3>6 DEF MoneyOK
      <4>3. (\A filing \in filed : \E s \in Request : Operated(s) /\ FilingOf(s) = filing /\ Recorded(s))'
        <5>1. \A s \in Request : Operated(s) => s # r
          BY <1>1
        <5> QED BY <3>1, <3>2, <4>1, <5>1 DEF MoneyOK
      <4>4. (\A s, t \in Request : Operated(s) /\ Recorded(s) /\ Operated(t) /\ Recorded(t)
                                 /\ FilingOf(s) = FilingOf(t) => s = t)'
        <5>1. \A s \in Request \ {r} : Operated(s)' => FilingOf(s)' # FilingOf(r)'
          BY <3>1, <3>2, <3>6 DEF MoneyOK
        <5> QED BY <3>2, <5>1 DEF MoneyOK
      <4> QED BY <4>2, <4>3, <4>4 DEF MoneyOK
    <3> QED BY <3>5, <3>6
  <2> QED BY <2>4, <2>5
<1> QED BY <1>4, <1>5

LEMMA MoneyStep == ASSUME Typed, MoneyOK, [Next]_vars PROVE MoneyOK'
<1>1. ASSUME NEW s \in Request, \/ \E asked \in Operation : Ask(s, asked)
                                \/ Write(s) \/ Commit(s) \/ Fail(s) \/ Show(s)
      PROVE  MoneyOK'
  <2>1. ReqOK(s) /\ DOMAIN req = Request /\ filed' = filed
    BY <1>1 DEF Typed, Ask, Write, Commit, Fail, Show, engine
  <2>2. \A r \in Request \ {s} : req'[r] = req[r]
    BY <1>1, <2>1 DEF Ask, Write, Commit, Fail, Show
  <2>3. \A r \in Request \ {s} : SameMoney(r)
    BY <2>2 DEF SameMoney, Operated
  <2>4. DOMAIN req[s] = DOMAIN Idle
    BY <2>1 DEF ReqOK
  <2>5. CASE \E asked \in Operation : Ask(s, asked)
    <3>1. req[s].pc = "idle" /\ req'[s].pc = "asked"
      BY <2>1, <2>5 DEF Ask, Idle
    <3> QED BY <2>1, <2>3, <3>1, MoneyKept DEF SameMoney, Operated
  <2>6. CASE Write(s)
    <3>1. req[s].pc = "write" /\ req'[s].pc = "commit"
          /\ req'[s].asked = req[s].asked /\ req'[s].produced = req[s].produced
      BY <2>1, <2>4, <2>6 DEF Write, Idle
    <3> QED BY <2>1, <2>3, <3>1, MoneyKept DEF SameMoney, Operated
  <2>7. CASE Commit(s)
    <3>1. req[s].pc = "commit" /\ req'[s].pc \in {"show", "refused"}
          /\ req'[s].asked = req[s].asked /\ req'[s].produced = req[s].produced
      BY <2>1, <2>4, <2>7 DEF Commit, Idle
    <3> QED BY <2>1, <2>3, <3>1, MoneyKept DEF SameMoney, Operated
  <2>8. CASE Fail(s)
    <3>1. req[s].pc \in {"write", "commit", "show"} /\ req'[s].pc = "failed"
          /\ req'[s].asked = req[s].asked /\ req'[s].produced = req[s].produced
      BY <2>1, <2>4, <2>8 DEF Fail, Idle
    <3> QED BY <2>1, <2>3, <3>1, MoneyKept DEF SameMoney, Operated
  <2>9. CASE Show(s)
    <3>1. PICK q : q = req[s]
      OBVIOUS
    <3>2. PICK listed, card : listed = Listed(s) /\ card = Detail(req[s].asked.user)
      OBVIOUS
    <3>3. req'[s] = [q EXCEPT !.pc = "ok", !.answer.events = listed, !.answer.card = card]
          /\ q.pc = "show"
      BY <2>1, <2>9, <3>1, <3>2 DEF Show
    <3>4. {"pc", "asked", "produced", "answer"} \subseteq DOMAIN q
      BY <2>4, <3>1 DEF Idle
    <3>5. req'[s].pc = "ok" /\ req'[s].asked = q.asked /\ req'[s].produced = q.produced
      BY <3>3, <3>4
    <3> QED BY <2>1, <2>3, <3>1, <3>3, <3>5, MoneyKept DEF SameMoney, Operated
  <2> QED BY <1>1, <2>5, <2>6, <2>7, <2>8, <2>9
<1>2. CASE UNCHANGED <<filed, req>>
  BY <1>2, MoneyKept DEF SameMoney, Operated
<1>3. Tick \/ Record \/ Elapse \/ (\E email \in Email : Hire(email)) \/ (\E start \in Walk : Open(start))
      \/ ReadFeed \/ CountFeed \/ CountUsers \/ ReadUsers \/ UNCHANGED vars
      => UNCHANGED <<filed, req>>
  BY DEF Tick, Record, Elapse, Hire, Open, ReadFeed, CountFeed, CountUsers, ReadUsers, OnlyWalk, engine, vars
<1> QED BY <1>1, <1>2, <1>3, OperateMoney DEF Next

LEMMA MoneyInit == ASSUME Init PROVE MoneyOK
BY DEF Init, MoneyOK, Operated, Idle

LEMMA MoneyCounts ==
  ASSUME Typed, \A r \in Request : BooksOK(r), MoneyOK
  PROVE  PaymentsCountOnce
<1> SUFFICES ASSUME NEW r \in Request, Operated(r)
             PROVE  LET same == {s \in Request :
                            /\ req[s].pc \notin {"idle", "asked"}
                            /\ req[s].asked.action = "payment" /\ req[s].asked.user = req[r].asked.user
                            /\ ReferenceOf(s, req[s].asked) = ReferenceOf(r, req[r].asked)}
                    IN Cardinality({s \in same : Recorded(s)}) = 1
  BY DEF PaymentsCountOnce, Operated
<1> DEFINE same == {s \in Request :
                      /\ req[s].pc \notin {"idle", "asked"}
                      /\ req[s].asked.action = "payment" /\ req[s].asked.user = req[r].asked.user
                      /\ ReferenceOf(s, req[s].asked) = ReferenceOf(r, req[r].asked)}
           counted == {s \in same : Recorded(s)}
<1>1. \A s \in Request : Recorded(s) => req[s].pc # "not_found"
  <2> SUFFICES ASSUME NEW s \in Request, req[s].pc = "not_found" PROVE ~Recorded(s)
    OBVIOUS
  <2>1. req[s].produced = <<>>
    BY DEF BooksOK
  <2> QED BY <2>1 DEF Recorded, ToSet
<1>2. \A s \in Request : FilingOf(s) = FilingOf(r) <=>
         /\ req[s].asked.user = req[r].asked.user
         /\ ReferenceOf(s, req[s].asked) = ReferenceOf(r, req[r].asked)
  BY DEF FilingOf, Filing, Provider
<1>3. counted = {s \in Request : Operated(s) /\ Recorded(s) /\ FilingOf(s) = FilingOf(r)}
  BY <1>1, <1>2 DEF Operated
<1>4. PICK s \in Request : Operated(s) /\ FilingOf(s) = FilingOf(r) /\ Recorded(s)
  BY DEF MoneyOK
<1>5. counted = {s}
  BY <1>3, <1>4 DEF MoneyOK
<1>6. Cardinality(counted) = 1
  BY <1>5, FS_Singleton
<1> QED BY <1>6

(* Money entered under one reference for one subscriber counts exactly     *)
(* once, however often and in whatever interleaving it is sent, and the    *)
(* same reference on somebody else counts as well (payment).               *)
THEOREM PaymentsCount == Spec => []PaymentsCountOnce
<1>1. Init => MoneyOK
  BY MoneyInit
<1>2. (Typed /\ \A r \in Request : BooksOK(r)) /\ MoneyOK /\ [Next]_vars => MoneyOK'
  BY MoneyStep
<1>3. (Typed /\ \A r \in Request : BooksOK(r)) /\ MoneyOK => PaymentsCountOnce
  BY MoneyCounts
<1> QED BY <1>1, <1>2, <1>3, Books, PTL DEF Spec

-----------------------------------------------------------------------------
(* The pages *)

Kind == {"events", "audit", "users"}

(* Rows have been passed over up to here, seen or younger than the walk.   *)
Reached ==
    IF walk.pc = "count" THEN walk.page * PageSize ELSE (walk.page - 1) * PageSize

(* Everything that was there at the start and has not been seen stands     *)
(* below what the reader has reached, wherever newer rows have moved it.   *)
WalkOK ==
    /\ DOMAIN walk = DOMAIN Away /\ walk.kind \in Kind
    /\ walk.pc \in {"away", "ask", "count", "rows", "done"}
    /\ walk.page \in Nat \ {0} /\ walk.from \in Nat \ {0} /\ walk.total \in Nat
    /\ walk.raced \in BOOLEAN
    /\ walk.pc = "rows" => walk.kind = "users"
    /\ walk.pc = "count" => walk.kind # "users"
    /\ walk.seen \subseteq Findable /\ walk.first \subseteq Findable
    /\ walk.pc \in {"ask", "rows", "count"} /\ walk.from = 1
         => \A row \in walk.first \ walk.seen : Rank(row, Findable, walk.kind) >= Reached
    /\ walk.pc \in {"rows", "done"}
         => Cardinality(walk.first) <= walk.total /\ walk.total <= Cardinality(Findable)
    /\ walk.pc = "done" /\ walk.from = 1 => walk.first \subseteq walk.seen \/ walk.raced

(* A row's rank only grows with the table, and stays below its size.       *)
LEMMA RankGrows ==
  ASSUME NEW rows, NEW more, IsFiniteSet(more), rows \subseteq more, NEW row, NEW kind
  PROVE  /\ Rank(row, rows, kind) \in Nat /\ Rank(row, more, kind) \in Nat
         /\ Rank(row, rows, kind) <= Rank(row, more, kind)
<1>1. {other \in rows : Precedes(other, row, kind)} \subseteq {other \in more : Precedes(other, row, kind)}
  OBVIOUS
<1>2. IsFiniteSet({other \in more : Precedes(other, row, kind)})
  BY FS_Subset
<1> QED BY <1>1, <1>2, FS_Subset, FS_CardinalityType DEF Rank

LEMMA RankBelow ==
  ASSUME NEW rows, IsFiniteSet(rows), NEW row \in rows, NEW kind, ~Precedes(row, row, kind)
  PROVE  Rank(row, rows, kind) < Cardinality(rows)
<1> DEFINE above == {other \in rows : Precedes(other, row, kind)}
<1>1. above \subseteq rows /\ above # rows
  OBVIOUS
<1> HIDE DEF above
<1>2. Cardinality(above) <= Cardinality(rows) /\ Cardinality(above) # Cardinality(rows)
      /\ Cardinality(above) \in Nat /\ Cardinality(rows) \in Nat
  BY <1>1, FS_Subset, FS_CardinalityType
<1> QED BY <1>2 DEF above, Rank

LEMMA FindableType ==
  ASSUME Typed, walk.kind \in Kind
  PROVE  IsFiniteSet(Findable) /\ \A row \in Findable : ~Precedes(row, row, walk.kind)
<1>0. /\ IsFiniteSet(journal) /\ IsFiniteSet(audit) /\ IsFiniteSet(users)
      /\ users \subseteq Int /\ \A row \in journal \cup audit : Dated(row)
  BY DEF Typed, StoresOK
<1>1. CASE walk.kind = "events"
  <2>1. Findable \subseteq journal
    BY <1>1 DEF Findable
  <2> QED BY <1>0, <1>1, <2>1, FS_Subset DEF Dated, Precedes
<1>2. CASE walk.kind = "audit"
  <2>1. Findable \subseteq audit
    BY <1>2 DEF Findable, Narrowed
  <2> QED BY <1>0, <1>2, <2>1, FS_Subset DEF Dated, Precedes
<1>3. CASE walk.kind = "users"
  <2>1. Findable = users
    BY <1>3 DEF Findable
  <2> QED BY <1>0, <1>3, <2>1 DEF Precedes
<1> QED BY <1>1, <1>2, <1>3 DEF Kind

(* While nobody reads, rows are only added.                                *)
LEMMA WalkKept ==
  ASSUME Typed, Typed', WalkOK, walk' = walk,
         journal \subseteq journal', audit \subseteq audit', users \subseteq users'
  PROVE  WalkOK'
<1>1. Findable \subseteq Findable'
  BY DEF Findable, Narrowed, WalkOK, Kind
<1>2. IsFiniteSet(Findable') /\ IsFiniteSet(Findable)
  <2>1. walk.kind \in Kind /\ IsFiniteSet(Findable)
    BY FindableType DEF WalkOK
  <2>2. IsFiniteSet(journal') /\ IsFiniteSet(audit') /\ IsFiniteSet(users')
    BY DEF Typed, StoresOK
  <2>3. Findable' \subseteq journal' \/ Findable' \subseteq audit' \/ Findable' \subseteq users'
    BY <2>1 DEF Kind, Findable, Narrowed
  <2> QED BY <2>1, <2>2, <2>3, FS_Subset
<1>3. PICK old, new : old = Findable /\ new = Findable'
  OBVIOUS
<1>4. \A row : /\ Rank(row, old, walk.kind) \in Nat /\ Rank(row, new, walk.kind) \in Nat
               /\ Rank(row, old, walk.kind) <= Rank(row, new, walk.kind)
  BY <1>1, <1>2, <1>3, RankGrows
<1>5. Cardinality(old) <= Cardinality(new) /\ Cardinality(old) \in Nat /\ Cardinality(new) \in Nat
      /\ Cardinality(walk.first) \in Nat
  BY <1>1, <1>2, <1>3, FS_Subset, FS_CardinalityType DEF WalkOK
<1>6. PICK far \in Int : far = Reached
  BY DeskAssumption DEF Reached, WalkOK
<1>7. Reached' = far
  BY <1>6 DEF Reached
<1>8. \A row : Rank(row, Findable, walk.kind)' = Rank(row, new, walk.kind)
  BY <1>3 DEF Rank, Precedes
<1>9. walk.pc \in {"ask", "rows", "count"} /\ walk.from = 1
         => \A row \in walk.first \ walk.seen : Rank(row, new, walk.kind) >= far
  BY <1>3, <1>4, <1>6 DEF WalkOK
<1>10. walk.pc \in {"rows", "done"}
         => Cardinality(walk.first) <= walk.total /\ walk.total <= Cardinality(new)
  BY <1>3, <1>5 DEF WalkOK
<1>11. walk.seen \subseteq new /\ walk.first \subseteq new
  BY <1>1, <1>3 DEF WalkOK
<1>12. Findable' = new
  BY <1>3
<1> QED BY <1>7, <1>8, <1>9, <1>10, <1>11, <1>12 DEF WalkOK

(* What a read leaves to be looked at: nothing else moved.                 *)
Read(next) ==
    /\ DOMAIN next = DOMAIN Away /\ next.kind = walk.kind /\ next.outcome = walk.outcome
    /\ next.page = walk.page /\ next.from = walk.from
    /\ next.seen \subseteq Findable /\ next.first \subseteq Findable
    /\ next.raced \in BOOLEAN /\ next.total \in Nat
    /\ Cardinality(next.first) <= next.total /\ next.total <= Cardinality(Findable)
    /\ next.raced \/ next.total = Cardinality(Findable)
    /\ next.from = 1 => \A row \in next.first \ next.seen :
                            Rank(row, Findable, next.kind) >= next.page * PageSize

(* The next page begins where this one ends; when there is none, no row    *)
(* can stand below.                                                        *)
LEMMA TurnedOK ==
  ASSUME Typed, WalkOK, NEW next, Read(next), walk' = Turned(next),
         UNCHANGED <<journal, audit, users>>
  PROVE  WalkOK'
<1>0. walk.kind \in Kind /\ next.page \in Nat \ {0} /\ next.from \in Nat \ {0}
  BY DEF WalkOK, Read
<1>1. /\ DOMAIN walk' = DOMAIN Away /\ walk'.kind = walk.kind /\ walk'.outcome = walk.outcome
      /\ walk'.from = next.from /\ walk'.total = next.total /\ walk'.seen = next.seen
      /\ walk'.first = next.first /\ walk'.raced = next.raced
      /\ \/ next.page * PageSize < next.total /\ walk'.pc = "ask" /\ walk'.page = next.page + 1
         \/ ~(next.page * PageSize < next.total) /\ walk'.pc = "done" /\ walk'.page = next.page
  BY DEF Turned, Read, Away
<1>2. PICK rows : rows = Findable /\ rows = Findable'
  BY <1>1 DEF Findable, Narrowed
<1>3. IsFiniteSet(rows) /\ \A row \in rows : ~Precedes(row, row, walk.kind)
  BY <1>0, <1>2, FindableType
<1>4. PICK to \in Int : to = next.page * PageSize
  BY <1>0, DeskAssumption
<1>5. next.from = 1 => \A row \in next.first \ next.seen : Rank(row, rows, walk.kind) >= to
  BY <1>2, <1>4 DEF Read
<1>6. CASE walk'.pc = "ask"
  <2>1. Reached' = to
    BY <1>0, <1>1, <1>4, <1>6, DeskAssumption DEF Reached
  <2>2. (walk.from = 1 => \A row \in walk.first \ walk.seen : Rank(row, Findable, walk.kind) >= Reached)'
    BY <1>1, <1>2, <1>5, <2>1 DEF Rank, Precedes
  <2> QED BY <1>0, <1>1, <1>2, <1>6, <2>2 DEF WalkOK, Read
<1>7. CASE walk'.pc = "done"
  <2>1. next.from = 1 => next.first \subseteq next.seen \/ next.raced
    <3> SUFFICES ASSUME next.from = 1, ~next.raced, NEW row \in next.first \ next.seen PROVE FALSE
      BY DEF Read
    <3>1. row \in rows /\ Rank(row, rows, walk.kind) >= to
      BY <1>2, <1>5 DEF Read
    <3>2. Rank(row, rows, walk.kind) < Cardinality(rows)
      BY <1>3, <3>1, RankBelow
    <3>3. next.total = Cardinality(rows) /\ ~(to < next.total)
      BY <1>1, <1>2, <1>4, <1>7 DEF Read
    <3>4. Rank(row, rows, walk.kind) \in Nat /\ Cardinality(rows) \in Nat
      BY <1>3, RankGrows, FS_CardinalityType
    <3> QED BY <3>1, <3>2, <3>3, <3>4
  <2> QED BY <1>0, <1>1, <1>2, <1>7, <2>1 DEF WalkOK, Read
<1> QED BY <1>1, <1>6, <1>7

(* What one page leaves unseen stands below it.                            *)
LEMMA PageRead ==
  ASSUME Typed, WalkOK, walk.pc \in {"ask", "rows"},
         NEW first, first = FirstSeen \/ (walk.pc = "rows" /\ first = walk.first),
         NEW items \in Pages(Findable, walk.kind, walk.page), walk.from = 1
  PROVE  \A row \in first \ (walk.seen \cup items) :
            Rank(row, Findable, walk.kind) >= walk.page * PageSize
<1>1. PICK rows : rows = Findable
  OBVIOUS
<1>2. IsFiniteSet(rows) /\ walk.page \in Nat \ {0} /\ walk.first \subseteq rows
  BY <1>1, FindableType DEF WalkOK
<1>3. PICK lo \in Int, hi \in Int : lo = (walk.page - 1) * PageSize /\ hi = walk.page * PageSize
  <2>1. PICK n \in Int, m \in Int, size \in Int : n = walk.page - 1 /\ m = walk.page /\ size = PageSize
    BY <1>2, DeskAssumption
  <2>2. n * size \in Int /\ m * size \in Int
    OBVIOUS
  <2> QED BY <2>1, <2>2
<1>4. items = {row \in rows : Rank(row, rows, walk.kind) \in lo .. hi - 1}
  BY <1>1, <1>3 DEF Pages
<1>5. \A row : Rank(row, rows, walk.kind) \in Nat
  BY <1>2, RankGrows
<1>6. \A row \in first \ walk.seen : row \in rows /\ Rank(row, rows, walk.kind) >= lo
  <2>1. CASE first = walk.first
    BY <1>1, <1>2, <1>3, <2>1 DEF WalkOK, Reached
  <2>2. CASE walk.page = 1 /\ first = rows
    <3>1. lo = 0
      BY <1>3, <2>2, DeskAssumption
    <3> QED BY <1>5, <2>2, <3>1
  <2> QED BY <1>1, <2>1, <2>2 DEF FirstSeen
<1>7. \A row \in first \ (walk.seen \cup items) : Rank(row, rows, walk.kind) >= hi
  BY <1>3, <1>4, <1>5, <1>6
<1> QED BY <1>1, <1>3, <1>7

LEMMA OpenWalk == ASSUME Typed, WalkOK, NEW start \in Walk, Open(start) PROVE WalkOK'
<1>1. walk' = [Away EXCEPT !.pc = "ask", !.kind = start.kind, !.outcome = start.outcome,
                           !.from = start.page, !.page = start.page]
  BY DEF Open
<1>2. /\ DOMAIN walk' = DOMAIN Away /\ walk'.pc = "ask" /\ walk'.kind = start.kind
      /\ walk'.from = start.page /\ walk'.page = start.page /\ walk'.total = 0
      /\ walk'.seen = {} /\ walk'.first = {} /\ walk'.raced = FALSE
  BY <1>1 DEF Away
<1>3. start.kind \in Kind /\ start.page \in Nat \ {0}
  BY DeskAssumption DEF Kind
<1>4. (walk.seen \subseteq Findable /\ walk.first \subseteq Findable)'
  BY <1>2
<1>5. (\A row \in walk.first \ walk.seen : Rank(row, Findable, walk.kind) >= Reached)'
  BY <1>2
<1>6. (/\ DOMAIN walk = DOMAIN Away /\ walk.kind \in Kind
       /\ walk.pc = "ask" /\ walk.total \in Nat /\ walk.raced \in BOOLEAN
       /\ walk.page \in Nat \ {0} /\ walk.from \in Nat \ {0})'
  <2>1. 0 \in Nat /\ FALSE \in BOOLEAN
    OBVIOUS
  <2>2. walk'.total \in Nat
    BY <1>2, <2>1
  <2>3. walk'.raced \in BOOLEAN
    BY <1>2, <2>1
  <2>4. walk'.kind \in Kind /\ walk'.page \in Nat \ {0} /\ walk'.from \in Nat \ {0}
    BY <1>2, <1>3
  <2>5. DOMAIN walk' = DOMAIN Away /\ walk'.pc = "ask"
    BY <1>2
  <2>6. Kind' = Kind /\ Away' = Away
    BY DEF Kind, Away
  <2> QED BY <2>2, <2>3, <2>4, <2>5, <2>6
<1> QED BY <1>4, <1>5, <1>6 DEF WalkOK

(* The answers of one statement.                                           *)
LEMMA FirstFindable == ASSUME WalkOK PROVE FirstSeen \subseteq Findable
BY DEF FirstSeen, WalkOK

LEMMA ReadFeedWalk == ASSUME Typed, WalkOK, ReadFeed PROVE WalkOK'
<1>1. PICK items \in Pages(Findable, walk.kind, walk.page) :
        LET next == [walk EXCEPT !.seen = @ \cup items, !.first = FirstSeen,
                                 !.total = Cardinality(Findable)]
        IN walk' = IF items = {} THEN [next EXCEPT !.pc = "count"] ELSE Turned(next)
  BY DEF ReadFeed
<1>2. PICK rows, first, total : rows = Findable /\ first = FirstSeen /\ total = Cardinality(rows)
  OBVIOUS
<1>3. PICK next : next = [walk EXCEPT !.seen = @ \cup items, !.first = first, !.total = total]
  OBVIOUS
<1>4. walk' = IF items = {} THEN [next EXCEPT !.pc = "count"] ELSE Turned(next)
  BY <1>1, <1>2, <1>3
<1>5. DOMAIN walk = DOMAIN Away /\ walk.kind \in Kind /\ walk.kind # "users" /\ walk.pc = "ask"
      /\ walk.raced \in BOOLEAN
      /\ UNCHANGED <<journal, audit, users>>
  BY DEF ReadFeed, WalkOK, OnlyWalk, tables
<1>6. /\ DOMAIN next = DOMAIN Away /\ next.kind = walk.kind /\ next.outcome = walk.outcome
      /\ next.page = walk.page /\ next.from = walk.from /\ next.raced = walk.raced
      /\ next.seen = walk.seen \cup items /\ next.first = first /\ next.total = total
      /\ next.pc = walk.pc
  BY <1>3, <1>5 DEF Away
<1>7. IsFiniteSet(rows) /\ items \subseteq rows /\ first \subseteq rows /\ walk.seen \subseteq rows
  BY <1>2, <1>5, FindableType, FirstFindable DEF Pages, WalkOK
<1>8. total \in Nat /\ Cardinality(first) <= total
  BY <1>2, <1>7, FS_Subset, FS_CardinalityType
<1>9. next.from = 1 => \A row \in next.first \ next.seen :
                          Rank(row, rows, next.kind) >= next.page * PageSize
  BY <1>2, <1>5, <1>6, PageRead
<1>10. CASE items # {}
  <2>1. Read(next)
    BY <1>2, <1>5, <1>6, <1>7, <1>8, <1>9 DEF Read
  <2> QED BY <1>4, <1>5, <1>10, <2>1, TurnedOK
<1>11. CASE items = {}
  <2>1. /\ DOMAIN walk' = DOMAIN Away /\ walk'.kind = walk.kind /\ walk'.outcome = walk.outcome
        /\ walk'.page = walk.page /\ walk'.from = walk.from /\ walk'.raced = walk.raced
        /\ walk'.seen = walk.seen \cup items /\ walk'.first = first /\ walk'.total = total
        /\ walk'.pc = "count"
    BY <1>4, <1>6, <1>11 DEF Away
  <2>2. Findable' = rows
    BY <1>2, <1>5, <2>1 DEF Findable, Narrowed
  <2>3. (walk.from = 1 => \A row \in walk.first \ walk.seen : Rank(row, Findable, walk.kind) >= Reached)'
    BY <1>6, <1>9, <2>1, <2>2 DEF Rank, Precedes, Reached
  <2> QED BY <1>5, <1>7, <1>8, <2>1, <2>2, <2>3 DEF WalkOK
<1> QED BY <1>10, <1>11

LEMMA CountFeedWalk == ASSUME Typed, WalkOK, CountFeed PROVE WalkOK'
<1>1. PICK rows, total : rows = Findable /\ total = Cardinality(rows)
  OBVIOUS
<1>2. PICK next : next = [walk EXCEPT !.total = total]
  OBVIOUS
<1>3. walk' = Turned(next) /\ walk.pc = "count" /\ UNCHANGED <<journal, audit, users>>
  BY <1>1, <1>2 DEF CountFeed, OnlyWalk, tables
<1>4. DOMAIN walk = DOMAIN Away /\ walk.kind \in Kind /\ walk.raced \in BOOLEAN
  BY DEF WalkOK
<1>5. /\ DOMAIN next = DOMAIN Away /\ next.kind = walk.kind /\ next.outcome = walk.outcome
      /\ next.page = walk.page /\ next.from = walk.from /\ next.raced = walk.raced
      /\ next.seen = walk.seen /\ next.first = walk.first /\ next.total = total
  BY <1>2, <1>4 DEF Away
<1>6. IsFiniteSet(rows) /\ walk.first \subseteq rows /\ walk.seen \subseteq rows
  BY <1>1, <1>4, FindableType DEF WalkOK
<1>7. total \in Nat /\ Cardinality(walk.first) <= total
  BY <1>1, <1>6, FS_Subset, FS_CardinalityType
<1>8. next.from = 1 => \A row \in next.first \ next.seen :
                          Rank(row, rows, next.kind) >= next.page * PageSize
  BY <1>1, <1>3, <1>5 DEF WalkOK, Reached
<1>9. Read(next)
  BY <1>1, <1>4, <1>5, <1>6, <1>7, <1>8 DEF Read
<1> QED BY <1>3, <1>9, TurnedOK

LEMMA CountUsersWalk == ASSUME Typed, WalkOK, CountUsers PROVE WalkOK'
<1>1. PICK first, total : first = FirstSeen /\ total = Cardinality(users)
  OBVIOUS
<1>2. walk' = [walk EXCEPT !.pc = "rows", !.total = total, !.first = first]
      /\ walk.pc = "ask" /\ walk.kind = "users" /\ UNCHANGED <<journal, audit, users>>
  BY <1>1 DEF CountUsers, OnlyWalk, tables
<1>3. DOMAIN walk = DOMAIN Away
  BY DEF WalkOK
<1>4. /\ DOMAIN walk' = DOMAIN Away /\ walk'.kind = walk.kind /\ walk'.outcome = walk.outcome
      /\ walk'.page = walk.page /\ walk'.from = walk.from /\ walk'.raced = walk.raced
      /\ walk'.seen = walk.seen /\ walk'.first = first /\ walk'.total = total
      /\ walk'.pc = "rows"
  BY <1>2, <1>3 DEF Away
<1>5. Findable = users /\ Findable' = users
  BY <1>2, <1>4 DEF Findable
<1>6. IsFiniteSet(users) /\ first \subseteq users
  BY <1>1, <1>5, FirstFindable DEF Typed, StoresOK
<1>7. total \in Nat /\ Cardinality(first) <= total
  BY <1>1, <1>6, FS_Subset, FS_CardinalityType
<1>8. walk.page \in Nat \ {0}
  BY DEF WalkOK
<1>9. PICK lo \in Int : lo = (walk.page - 1) * PageSize
  <2>1. PICK n \in Int, size \in Int : n = walk.page - 1 /\ size = PageSize
    BY <1>8, DeskAssumption
  <2>2. n * size \in Int
    OBVIOUS
  <2> QED BY <2>1, <2>2
<1>10. walk.from = 1 => \A row \in first \ walk.seen : Rank(row, users, "users") >= lo
  <2> SUFFICES ASSUME walk.from = 1, NEW row \in first \ walk.seen PROVE Rank(row, users, "users") >= lo
    OBVIOUS
  <2>1. CASE first = walk.first
    BY <1>2, <1>5, <1>9, <2>1 DEF WalkOK, Reached
  <2>2. CASE walk.page = 1
    <3>1. lo = 0 /\ Rank(row, users, "users") \in Nat
      BY <1>6, <1>9, <2>2, RankGrows, DeskAssumption
    <3> QED BY <3>1
  <2> QED BY <1>1, <2>1, <2>2 DEF FirstSeen
<1>11. Reached' = lo
  BY <1>4, <1>9 DEF Reached
<1>12. (walk.from = 1 => \A row \in walk.first \ walk.seen : Rank(row, Findable, walk.kind) >= Reached)'
  BY <1>2, <1>4, <1>5, <1>10, <1>11 DEF Rank, Precedes
<1> QED BY <1>1, <1>2, <1>4, <1>5, <1>6, <1>7, <1>12 DEF WalkOK

LEMMA ReadUsersWalk == ASSUME Typed, WalkOK, ReadUsers PROVE WalkOK'
<1>1. PICK items \in Pages(users, "users", walk.page) :
        walk' = Turned([walk EXCEPT !.seen = @ \cup items,
                                    !.raced = @ \/ walk.total # Cardinality(users)])
  BY DEF ReadUsers
<1>2. PICK raced \in BOOLEAN : raced = (walk.raced \/ walk.total # Cardinality(users))
  OBVIOUS
<1>3. PICK next : next = [walk EXCEPT !.seen = @ \cup items, !.raced = raced]
  OBVIOUS
<1>4. walk' = Turned(next)
  BY <1>1, <1>2, <1>3
<1>5. DOMAIN walk = DOMAIN Away /\ walk.kind = "users" /\ walk.pc = "rows"
      /\ UNCHANGED <<journal, audit, users>>
  BY DEF ReadUsers, WalkOK, OnlyWalk, tables
<1>6. /\ DOMAIN next = DOMAIN Away /\ next.kind = walk.kind /\ next.outcome = walk.outcome
      /\ next.page = walk.page /\ next.from = walk.from /\ next.raced = raced
      /\ next.seen = walk.seen \cup items /\ next.first = walk.first /\ next.total = walk.total
  BY <1>3, <1>5 DEF Away
<1>7. Findable = users
  BY <1>5 DEF Findable
<1>8. items \subseteq users /\ walk.first \subseteq users /\ walk.seen \subseteq users
  BY <1>7 DEF Pages, WalkOK
<1>9. next.from = 1 => \A row \in next.first \ next.seen :
                          Rank(row, users, next.kind) >= next.page * PageSize
  BY <1>1, <1>5, <1>6, <1>7, PageRead
<1>10. raced \/ walk.total = Cardinality(users)
  BY <1>2
<1>11. walk.total \in Nat /\ Cardinality(walk.first) <= walk.total /\ walk.total <= Cardinality(users)
  BY <1>5, <1>7 DEF WalkOK
<1>12. Read(next)
  BY <1>2, <1>6, <1>7, <1>8, <1>9, <1>10, <1>11 DEF Read
<1> QED BY <1>4, <1>5, <1>12, TurnedOK

LEMMA WalkStep == ASSUME Typed, WalkOK, [Next]_vars PROVE WalkOK'
<1>0. Typed'
  BY TypedStep
<1>1. CASE UNCHANGED walk /\ journal \subseteq journal' /\ audit \subseteq audit' /\ users \subseteq users'
  BY <1>0, <1>1, WalkKept
<1>2. ASSUME NEW r \in Request,
             \/ \E asked \in Operation : Ask(r, asked)
             \/ Operate(r) \/ Write(r) \/ Commit(r) \/ Fail(r) \/ Show(r)
      PROVE  UNCHANGED walk /\ journal \subseteq journal' /\ audit \subseteq audit' /\ users \subseteq users'
  BY <1>2 DEF Ask, Operate, Write, Commit, Committed, Fail, Show, tables
<1>3. Tick \/ Record \/ Elapse \/ (\E email \in Email : Hire(email)) \/ UNCHANGED vars
      => UNCHANGED walk /\ journal \subseteq journal' /\ audit \subseteq audit' /\ users \subseteq users'
  BY DEF Tick, Record, Elapse, Hire, tables, vars
<1> QED BY <1>1, <1>2, <1>3, OpenWalk, ReadFeedWalk, CountFeedWalk, CountUsersWalk, ReadUsersWalk DEF Next

LEMMA WalkInit == ASSUME Init PROVE WalkOK
BY DEF Init, WalkOK, Away, Kind

(* Whoever pages from the first page to the last has seen everything that  *)
(* was there at the start, whatever is written meanwhile and for every     *)
(* page size; only the operators' list may drop somebody, when one was     *)
(* added between its two statements (list_events, list_page, list_users).  *)
THEOREM PagersSkip == Spec => []PagersSkipNothing
<1>1. Init => Typed /\ WalkOK
  BY TypedInit, WalkInit
<1>2. Typed /\ WalkOK /\ [Next]_vars => (Typed /\ WalkOK)'
  BY TypedStep, WalkStep
<1>3. WalkOK => PagersSkipNothing
  BY DEF WalkOK, PagersSkipNothing
<1> QED BY <1>1, <1>2, <1>3, PTL DEF Spec
=============================================================================
