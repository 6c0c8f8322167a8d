------------------------- MODULE RateLimiter_proofs -------------------------
(***************************************************************************)
(* Theorems about RateLimiter, for any number of machines, addresses and   *)
(* logins and any limits, windows and bounds of the table.                 *)
(***************************************************************************)
EXTENDS RateLimiter, FiniteSetTheorems, SequenceTheorems, WellFoundedInduction, TLAPS

-----------------------------------------------------------------------------
(* Induction, as a least element *)

(* A set of naturals that is not empty has a least element; what is to be  *)
(* proved by induction is proved of the least counterexample.              *)
LEMMA Least ==
  ASSUME NEW S, S \subseteq Nat, S # {}
  PROVE  \E least \in S : \A n \in S : least <= n
<1> DEFINE R == {p \in Nat \X Nat : p[1] < p[2]}
<1>1. IsWellFoundedOn(R, Nat)
  BY NatLessThanWellFounded DEF OpToRel
<1>2. \A m, n \in Nat : <<n, m>> \in R <=> n < m
  OBVIOUS
<1> HIDE DEF R
<1>3. PICK least \in S : \A n \in S : <<n, least>> \notin R
  BY <1>1, WFMin
<1>4. least \in Nat
  OBVIOUS
<1>5. ASSUME NEW n \in S PROVE least <= n
  <2>1. n \in Nat
    OBVIOUS
  <2>2. ~(n < least)
    BY <1>2, <1>3, <1>4, <2>1
  <2> QED BY <1>4, <2>1, <2>2
<1> QED BY <1>5

-----------------------------------------------------------------------------

(* A table of no more counters than the bound.                             *)
Held(table) == IsFiniteSet(DOMAIN table) /\ Cardinality(DOMAIN table) <= MAX_COUNTERS

(* A table that has a place left.                                          *)
Roomy(table) == IsFiniteSet(DOMAIN table) /\ Cardinality(DOMAIN table) < MAX_COUNTERS

-----------------------------------------------------------------------------
(* Deques: times that never decrease, of which the old ones are popped *)

IsDeque(deque) ==
    /\ deque \in Seq(Nat)
    /\ \A i, j \in 1 .. Len(deque) : i <= j => deque[i] <= deque[j]

(* What is popped is what is not after the cutoff.                         *)
LEMMA PoppedIs ==
  ASSUME NEW deque, IsDeque(deque), NEW cutoff \in Int
  PROVE  LET n == Popped(deque, cutoff) IN
         /\ n \in 0 .. Len(deque)
         /\ \A i \in 1 .. n : deque[i] <= cutoff
         /\ \A i \in n + 1 .. Len(deque) : deque[i] > cutoff
<1> DEFINE Stops(n) == /\ \A i \in 1 .. n : deque[i] <= cutoff
                       /\ n < Len(deque) => deque[n + 1] > cutoff
           after == {i \in 1 .. Len(deque) : deque[i] > cutoff}
<1>0. Len(deque) \in Nat /\ \A i \in 1 .. Len(deque) : deque[i] \in Nat
  BY DEF IsDeque
<1>1. \E n \in 0 .. Len(deque) : Stops(n)
  <2>1. CASE after = {}
    <3>1. \A i \in 1 .. Len(deque) : deque[i] <= cutoff
      BY <1>0, <2>1
    <3> QED BY <1>0, <3>1
  <2>2. CASE after # {}
    <3>1. PICK first \in after : \A i \in after : first <= i
      <4>1. after \subseteq Nat
        BY <1>0
      <4> HIDE DEF after
      <4> QED BY <2>2, <4>1, Least
    <3>2. first \in 1 .. Len(deque) /\ deque[first] > cutoff
      OBVIOUS
    <3>3. first - 1 \in 0 .. Len(deque) /\ (first - 1) + 1 = first
      BY <1>0, <3>2
    <3>4. \A i \in 1 .. first - 1 : deque[i] <= cutoff
      BY <1>0, <3>1, <3>2
    <3> QED BY <3>2, <3>3, <3>4
  <2> QED BY <2>1, <2>2
<1> DEFINE n == Popped(deque, cutoff)
<1>2. n \in 0 .. Len(deque) /\ Stops(n)
  <2> HIDE DEF Stops
  <2>1. n = CHOOSE m \in 0 .. Len(deque) : Stops(m)
    BY DEF Popped, Stops
  <2> QED BY <1>1, <2>1
<1> HIDE DEF n
<1>3. ASSUME NEW i \in n + 1 .. Len(deque) PROVE deque[i] > cutoff
  <2>1. n < Len(deque) /\ n + 1 \in 1 .. Len(deque) /\ i \in 1 .. Len(deque) /\ n + 1 <= i
    BY <1>0, <1>2
  <2>2. deque[n + 1] <= deque[i] /\ deque[n + 1] > cutoff
    BY <1>2, <2>1 DEF IsDeque
  <2> QED BY <1>0, <2>1, <2>2
<1> QED BY <1>2, <1>3 DEF n

LEMMA PoppedUnique ==
  ASSUME NEW deque, IsDeque(deque), NEW cutoff \in Int, NEW n \in 0 .. Len(deque),
         \A i \in 1 .. n : deque[i] <= cutoff,
         \A i \in n + 1 .. Len(deque) : deque[i] > cutoff
  PROVE  Popped(deque, cutoff) = n
<1> DEFINE m == Popped(deque, cutoff)
<1>1. /\ m \in 0 .. Len(deque)
      /\ \A i \in 1 .. m : deque[i] <= cutoff
      /\ \A i \in m + 1 .. Len(deque) : deque[i] > cutoff
  BY PoppedIs
<1> HIDE DEF m
<1>2. Len(deque) \in Nat /\ \A i \in 1 .. Len(deque) : deque[i] \in Nat
  BY DEF IsDeque
<1>3. ~(m < n)
  <2> SUFFICES ASSUME m < n PROVE FALSE
    OBVIOUS
  <2>1. n \in m + 1 .. Len(deque) /\ n \in 1 .. n /\ n \in 1 .. Len(deque)
    BY <1>1, <1>2
  <2> QED BY <1>1, <1>2, <2>1
<1>4. ~(n < m)
  <2> SUFFICES ASSUME n < m PROVE FALSE
    OBVIOUS
  <2>1. m \in n + 1 .. Len(deque) /\ m \in 1 .. m /\ m \in 1 .. Len(deque)
    BY <1>1, <1>2
  <2> QED BY <1>1, <1>2, <2>1
<1> QED BY <1>1, <1>2, <1>3, <1>4 DEF m

(* What is kept is the end of the deque.                                   *)
LEMMA KeptIs ==
  ASSUME NEW deque, IsDeque(deque), NEW cutoff \in Int
  PROVE  LET n == Popped(deque, cutoff)
             kept == Kept(deque, cutoff)
         IN /\ n \in 0 .. Len(deque)
            /\ IsDeque(kept) /\ Len(kept) = Len(deque) - n
            /\ \A i \in 1 .. Len(kept) : kept[i] = deque[n + i] /\ kept[i] > cutoff
<1> DEFINE n == Popped(deque, cutoff)
           kept == Kept(deque, cutoff)
<1>1. /\ n \in 0 .. Len(deque)
      /\ \A i \in n + 1 .. Len(deque) : deque[i] > cutoff
  BY PoppedIs
<1>2. deque \in Seq(Nat) /\ Len(deque) \in Nat
  BY DEF IsDeque
<1>3. kept = SubSeq(deque, n + 1, Len(deque))
  BY DEF Kept
<1> HIDE DEF n, kept
<1>4. /\ kept \in Seq(Nat) /\ Len(kept) = Len(deque) - n
      /\ \A i \in 1 .. Len(kept) : kept[i] = deque[n + i]
  BY <1>1, <1>2, <1>3, SubSeqProperties
<1>5. \A i \in 1 .. Len(kept) : n + i \in n + 1 .. Len(deque) /\ n + i \in 1 .. Len(deque)
  BY <1>1, <1>2, <1>4
<1>6. \A i, j \in 1 .. Len(kept) : i <= j => kept[i] <= kept[j]
  <2> SUFFICES ASSUME NEW i \in 1 .. Len(kept), NEW j \in 1 .. Len(kept), i <= j
               PROVE  kept[i] <= kept[j]
    OBVIOUS
  <2>1. n + i <= n + j
    BY <1>1, <1>2, <1>4
  <2> QED BY <1>4, <1>5, <2>1 DEF IsDeque
<1> QED BY <1>1, <1>4, <1>5, <1>6 DEF n, kept, IsDeque

(* Nothing is left of a deque whose last event is not after the cutoff,    *)
(* and otherwise its last event.                                           *)
LEMMA KeptEnds ==
  ASSUME NEW deque, IsDeque(deque), deque # <<>>, NEW cutoff \in Int
  PROVE  /\ Kept(deque, cutoff) = <<>> <=> Newest(deque) <= cutoff
         /\ Kept(deque, cutoff) # <<>> => Newest(Kept(deque, cutoff)) = Newest(deque)
<1> DEFINE n == Popped(deque, cutoff)
           kept == Kept(deque, cutoff)
           last == Len(deque)
<1>1. /\ n \in 0 .. last
      /\ \A i \in 1 .. n : deque[i] <= cutoff
      /\ \A i \in n + 1 .. last : deque[i] > cutoff
  BY PoppedIs
<1>2. /\ kept \in Seq(Nat) /\ Len(kept) = last - n
      /\ \A i \in 1 .. Len(kept) : kept[i] = deque[n + i]
  BY KeptIs DEF IsDeque
<1>3. deque \in Seq(Nat) /\ last \in Nat \ {0} /\ deque[last] \in Nat
  BY EmptySeq DEF IsDeque
<1> HIDE DEF n, kept, last
<1>4. kept = <<>> <=> n = last
  BY <1>1, <1>2, <1>3, EmptySeq
<1>5. n = last <=> deque[last] <= cutoff
  <2>1. ASSUME n = last PROVE deque[last] <= cutoff
    BY <1>1, <1>3, <2>1
  <2>2. ASSUME n # last PROVE deque[last] > cutoff
    BY <1>1, <1>3, <2>2
  <2> QED BY <1>3, <2>1, <2>2
<1>6. ASSUME n # last PROVE kept[Len(kept)] = deque[last]
  <2>1. Len(kept) \in 1 .. Len(kept) /\ n + Len(kept) = last
    BY <1>1, <1>2, <1>3, <1>6
  <2> QED BY <1>2, <2>1
<1> QED BY <1>4, <1>5, <1>6 DEF Newest, kept, last

(* Nothing is popped when the first event is after the cutoff.             *)
LEMMA KeptAll ==
  ASSUME NEW deque, IsDeque(deque), NEW cutoff \in Int,
         \A i \in 1 .. Len(deque) : deque[i] > cutoff
  PROVE  Kept(deque, cutoff) = deque
<1>1. deque \in Seq(Nat) /\ Len(deque) \in Nat
  BY DEF IsDeque
<1>2. Popped(deque, cutoff) = 0
  BY <1>1, PoppedUnique
<1> QED BY <1>1, <1>2, SubSeqFull DEF Kept

(* Popping in two goes is popping once.                                    *)
LEMMA KeptOfKept ==
  ASSUME NEW deque, IsDeque(deque), NEW early \in Int, NEW late \in Int, early <= late
  PROVE  Kept(Kept(deque, early), late) = Kept(deque, late)
<1> DEFINE n == Popped(deque, late)
           m == Popped(deque, early)
           kept == Kept(deque, early)
           last == Len(deque)
<1>1. /\ n \in 0 .. last
      /\ \A i \in 1 .. n : deque[i] <= late
      /\ \A i \in n + 1 .. last : deque[i] > late
  BY PoppedIs
<1>2. /\ m \in 0 .. last
      /\ \A i \in 1 .. m : deque[i] <= early
      /\ \A i \in m + 1 .. last : deque[i] > early
  BY PoppedIs
<1>3. /\ IsDeque(kept) /\ Len(kept) = last - m
      /\ \A i \in 1 .. Len(kept) : kept[i] = deque[m + i]
  BY KeptIs
<1>4. deque \in Seq(Nat) /\ last \in Nat /\ \A i \in 1 .. last : deque[i] \in Nat
  BY DEF IsDeque
<1>5. kept = SubSeq(deque, m + 1, last) /\ Kept(deque, late) = SubSeq(deque, n + 1, last)
  BY DEF Kept
<1> HIDE DEF n, m, kept, last
<1>6. m <= n
  <2> SUFFICES ASSUME n < m PROVE FALSE
    BY <1>1, <1>2, <1>4
  <2>1. m \in 1 .. m /\ m \in n + 1 .. last /\ m \in 1 .. last
    BY <1>1, <1>2, <1>4
  <2> QED BY <1>1, <1>2, <1>4, <2>1
<1>7. Popped(kept, late) = n - m
  <2>1. n - m \in 0 .. Len(kept)
    BY <1>1, <1>2, <1>3, <1>4, <1>6
  <2>2. ASSUME NEW i \in 1 .. n - m PROVE kept[i] <= late
    <3>1. i \in 1 .. Len(kept) /\ m + i \in 1 .. n
      BY <1>1, <1>2, <1>3, <1>4, <1>6
    <3> QED BY <1>1, <1>3, <3>1
  <2>3. ASSUME NEW i \in (n - m) + 1 .. Len(kept) PROVE kept[i] > late
    <3>1. i \in 1 .. Len(kept) /\ m + i \in n + 1 .. last
      BY <1>1, <1>2, <1>3, <1>4, <1>6
    <3> QED BY <1>1, <1>3, <3>1
  <2> QED BY <1>3, <2>1, <2>2, <2>3, PoppedUnique
<1>8. Kept(kept, late) = SubSeq(kept, (n - m) + 1, last - m)
  BY <1>3, <1>7 DEF Kept
<1> DEFINE a == Kept(kept, late)
           b == Kept(deque, late)
<1>9. /\ a \in Seq(Nat) /\ Len(a) = last - n
      /\ \A i \in 1 .. Len(a) : a[i] = kept[(n - m) + i]
  <2>1. LET k == Popped(kept, late) IN
        /\ IsDeque(a) /\ Len(a) = Len(kept) - k
        /\ \A i \in 1 .. Len(a) : a[i] = kept[k + i]
    BY <1>3, KeptIs
  <2>2. a \in Seq(Nat)
    BY <2>1 DEF IsDeque
  <2> HIDE DEF a
  <2> QED BY <1>1, <1>2, <1>3, <1>4, <1>7, <2>1, <2>2
<1>10. /\ b \in Seq(Nat) /\ Len(b) = last - n
       /\ \A i \in 1 .. Len(b) : b[i] = deque[n + i]
  BY KeptIs DEF IsDeque, n, last
<1>11. ASSUME NEW i \in 1 .. Len(a) PROVE a[i] = b[i]
  <2>1. /\ i \in 1 .. Len(b) /\ (n - m) + i \in 1 .. Len(kept)
        /\ m + ((n - m) + i) = n + i
    BY <1>1, <1>2, <1>3, <1>4, <1>6, <1>9, <1>10
  <2> QED BY <1>3, <1>9, <1>10, <2>1
<1> HIDE DEF a, b
<1>12. a = b
  BY <1>9, <1>10, <1>11, SeqEqual
<1> QED BY <1>12 DEF a, b, kept

(* One more event, at the end.                                             *)
LEMMA OneMoreEvent ==
  ASSUME NEW deque, IsDeque(deque), NEW t \in Nat,
         \A i \in 1 .. Len(deque) : deque[i] <= t
  PROVE  /\ IsDeque(Append(deque, t)) /\ Append(deque, t) # <<>>
         /\ Len(Append(deque, t)) = Len(deque) + 1
         /\ Newest(Append(deque, t)) = t
         /\ \A i \in 1 .. Len(deque) : Append(deque, t)[i] = deque[i]
<1> DEFINE more == Append(deque, t)
<1>1. deque \in Seq(Nat) /\ Len(deque) \in Nat
  BY DEF IsDeque
<1>2. /\ more \in Seq(Nat) /\ Len(more) = Len(deque) + 1
      /\ \A i \in 1 .. Len(deque) : more[i] = deque[i]
      /\ more[Len(deque) + 1] = t
  BY <1>1, AppendProperties
<1> HIDE DEF more
<1>3. \A i, j \in 1 .. Len(more) : i <= j => more[i] <= more[j]
  <2> SUFFICES ASSUME NEW i \in 1 .. Len(more), NEW j \in 1 .. Len(more), i <= j
               PROVE  more[i] <= more[j]
    OBVIOUS
  <2>1. CASE j \in 1 .. Len(deque)
    <3>1. i \in 1 .. Len(deque)
      BY <1>1, <1>2, <2>1
    <3> QED BY <1>2, <2>1, <3>1 DEF IsDeque
  <2>2. CASE j = Len(deque) + 1 /\ i \in 1 .. Len(deque)
    BY <1>2, <2>2
  <2>3. CASE j = Len(deque) + 1 /\ i = Len(deque) + 1
    BY <1>2, <2>3
  <2> QED BY <1>1, <1>2, <2>1, <2>2, <2>3
<1>4. more # <<>>
  BY <1>1, <1>2, EmptySeq
<1> QED BY <1>2, <1>3, <1>4 DEF more, IsDeque, Newest

(* The promise counts as this module does.                                 *)
LEMMA SameCount == \A S : Promise!Cardinality(S) = Cardinality(S)
BY DEF Promise!Cardinality, Cardinality

(* On a deque the pops of _live and the promise's count of old events      *)
(* leave the same.                                                         *)
LEMMA KeptIsAfter ==
  ASSUME NEW deque, IsDeque(deque), NEW cutoff \in Int
  PROVE  Kept(deque, cutoff) = Promise!After(deque, cutoff)
<1> DEFINE n == Popped(deque, cutoff)
<1>1. /\ n \in 0 .. Len(deque)
      /\ \A i \in 1 .. n : deque[i] <= cutoff
      /\ \A i \in n + 1 .. Len(deque) : deque[i] > cutoff
  BY PoppedIs
<1>2. Len(deque) \in Nat /\ DOMAIN deque = 1 .. Len(deque)
      /\ \A i \in 1 .. Len(deque) : deque[i] \in Nat
  BY DEF IsDeque
<1> HIDE DEF n
<1>3. {i \in DOMAIN deque : deque[i] <= cutoff} = 1 .. n
  <2>1. ASSUME NEW i \in 1 .. Len(deque), deque[i] <= cutoff PROVE i \in 1 .. n
    <3>1. i \notin n + 1 .. Len(deque)
      BY <1>1, <1>2, <2>1
    <3> QED BY <1>1, <1>2, <3>1
  <2>2. 1 .. n \subseteq 1 .. Len(deque)
    BY <1>1, <1>2
  <2> QED BY <1>1, <1>2, <2>1, <2>2
<1>4. Cardinality(1 .. n) = n
  BY <1>1, <1>2, FS_Interval
<1> QED BY <1>3, <1>4, SameCount DEF Kept, Promise!After, n

-----------------------------------------------------------------------------
(* What a table holds, and what of it counts now *)

LEMMA Lengths ==
  /\ LongestWindow \in Nat
  /\ \A r \in Rule : /\ Window[r] \in Nat \ {0} /\ Limit[r] \in Nat \ {0}
                     /\ Window[r] <= LongestWindow
  /\ \A c \in Counter : c[1] \in Rule
<1> DEFINE lengths == {Window[r] : r \in Rule}
<1>1. \A r \in Rule : Window[r] \in Nat \ {0} /\ Limit[r] \in Nat \ {0}
  BY LimiterAssumption
<1>2. lengths = {Window["login_email"], Window["login_ip"], Window["refresh_ip"], Window["demo_ip"]}
  BY DEF Rule
<1>3. \E longest \in lengths : \A w \in lengths : longest >= w
  BY <1>1, <1>2 DEF Rule
<1>4. LongestWindow \in lengths /\ \A w \in lengths : LongestWindow >= w
  BY <1>3 DEF LongestWindow, Max
<1>5. \A c \in Counter : c[1] \in Rule
  BY DEF Counter, Rule
<1>6. ASSUME NEW r \in Rule PROVE Window[r] <= LongestWindow
  <2>1. Window[r] \in lengths
    OBVIOUS
  <2> QED BY <1>1, <1>4, <2>1
<1> QED BY <1>1, <1>4, <1>5, <1>6

(* Every deque held is one, with its last event in the past.               *)
SoundAt(table, t) ==
    \A c \in DOMAIN table : /\ c \in Counter
                            /\ IsDeque(table[c]) /\ Len(table[c]) \in 1 .. Limit[c[1]]
                            /\ Newest(table[c]) <= t

Sound(table) == SoundAt(table, now)

(* The counter's last event, while it is of any interest.                  *)
TouchIn(table, c) ==
    IF c \in DOMAIN table /\ Newest(table[c]) > now - LongestWindow
    THEN Newest(table[c]) ELSE Never

LEMMA HeldDeque ==
  ASSUME NEW t \in Nat, NEW table, SoundAt(table, t), NEW c \in DOMAIN table
  PROVE  /\ c \in Counter /\ c[1] \in Rule /\ IsDeque(table[c]) /\ table[c] # <<>>
         /\ Len(table[c]) \in Nat \ {0} /\ Len(table[c]) <= Limit[c[1]]
         /\ Newest(table[c]) \in Nat /\ Newest(table[c]) <= t
         /\ \A i \in 1 .. Len(table[c]) : table[c][i] \in Nat /\ table[c][i] <= Newest(table[c])
<1>1. /\ c \in Counter /\ IsDeque(table[c]) /\ Len(table[c]) \in 1 .. Limit[c[1]]
      /\ Newest(table[c]) <= t
  BY DEF SoundAt
<1>2. c[1] \in Rule /\ Limit[c[1]] \in Nat
  BY <1>1, Lengths
<1>3. Len(table[c]) \in Nat \ {0} /\ Len(table[c]) <= Limit[c[1]] /\ table[c] \in Seq(Nat)
  BY <1>1, <1>2 DEF IsDeque
<1>4. \A i \in 1 .. Len(table[c]) : table[c][i] \in Nat
  BY <1>3
<1>5. Len(table[c]) \in 1 .. Len(table[c])
  BY <1>3
<1>6. \A i \in 1 .. Len(table[c]) : table[c][i] <= table[c][Len(table[c])]
  BY <1>1, <1>3, <1>5 DEF IsDeque
<1>7. table[c] # <<>>
  BY <1>3, EmptySeq
<1> QED BY <1>1, <1>2, <1>3, <1>4, <1>5, <1>6, <1>7 DEF Newest

(* What _live answers: the end of the deque, inside the window.            *)
LEMMA LiveIs ==
  ASSUME NEW t \in Nat, NEW table, SoundAt(table, t), NEW c \in Counter, NEW u \in Nat
  PROVE  LET live == Live(table, c, u) IN
         /\ IsDeque(live) /\ Len(live) \in Nat /\ Len(live) <= Limit[c[1]]
         /\ \A i \in 1 .. Len(live) : live[i] \in Nat /\ live[i] > u - Window[c[1]] /\ live[i] <= t
         /\ live # <<>> => /\ c \in DOMAIN table /\ Newest(live) = Newest(table[c])
                           /\ Newest(table[c]) > u - Window[c[1]]
         /\ live = <<>> /\ c \in DOMAIN table => Newest(table[c]) <= u - Window[c[1]]
<1> DEFINE live == Live(table, c, u)
           cutoff == u - Window[c[1]]
<1>0. cutoff \in Int /\ Limit[c[1]] \in Nat
  BY Lengths
<1>1. CASE c \notin DOMAIN table
  <2>1. live = <<>>
    BY <1>1 DEF Live
  <2>2. IsDeque(<<>>) /\ Len(<<>>) = 0
    BY DEF IsDeque
  <2> QED BY <1>0, <1>1, <2>1, <2>2
<1>2. CASE c \in DOMAIN table
  <2>1. live = Kept(table[c], cutoff)
    BY <1>2 DEF Live
  <2>2. /\ IsDeque(table[c]) /\ table[c] # <<>>
        /\ Len(table[c]) \in Nat /\ Len(table[c]) <= Limit[c[1]]
        /\ Newest(table[c]) \in Nat /\ Newest(table[c]) <= t
        /\ \A i \in 1 .. Len(table[c]) : table[c][i] \in Nat /\ table[c][i] <= Newest(table[c])
    BY <1>2, HeldDeque
  <2> HIDE DEF cutoff
  <2>3. /\ Kept(table[c], cutoff) = <<>> <=> Newest(table[c]) <= cutoff
        /\ Kept(table[c], cutoff) # <<>> => Newest(Kept(table[c], cutoff)) = Newest(table[c])
    BY <1>0, <2>2, KeptEnds
  <2>4. PICK n \in 0 .. Len(table[c]) :
          LET kept == Kept(table[c], cutoff) IN
            /\ IsDeque(kept) /\ Len(kept) = Len(table[c]) - n
            /\ \A i \in 1 .. Len(kept) : kept[i] = table[c][n + i] /\ kept[i] > cutoff
    BY <1>0, <2>2, KeptIs
  <2> HIDE DEF live
  <2>5. Len(live) \in Nat /\ Len(live) <= Limit[c[1]]
    BY <1>0, <2>1, <2>2, <2>4
  <2>6. ASSUME NEW i \in 1 .. Len(live)
        PROVE  live[i] \in Nat /\ live[i] > cutoff /\ live[i] <= t
    <3>1. n + i \in 1 .. Len(table[c]) /\ live[i] = table[c][n + i] /\ live[i] > cutoff
      BY <1>0, <2>1, <2>2, <2>4, <2>5
    <3> QED BY <2>2, <3>1
  <2> QED BY <1>0, <1>2, <2>1, <2>2, <2>3, <2>4, <2>5, <2>6 DEF cutoff, live
<1> QED BY <1>1, <1>2

-----------------------------------------------------------------------------
(* The table *)

LEMMA Bounds == MAX_COUNTERS \in Nat \ {0} /\ EVICTION_BATCH \in Nat \ {0}
BY LimiterAssumption

(* Leaving counters out never makes a table too big.                       *)
LEMMA SmallerIsHeld ==
  ASSUME NEW table, NEW part, Held(table), DOMAIN part \subseteq DOMAIN table
  PROVE  Held(part) /\ Cardinality(DOMAIN part) <= Cardinality(DOMAIN table)
<1>1. IsFiniteSet(DOMAIN part) /\ Cardinality(DOMAIN part) <= Cardinality(DOMAIN table)
  BY FS_Subset DEF Held
<1>2. Cardinality(DOMAIN part) \in Nat /\ Cardinality(DOMAIN table) \in Nat
  BY <1>1, FS_CardinalityType DEF Held
<1> QED BY <1>1, <1>2, Bounds DEF Held

LEMMA SweptHeld ==
  ASSUME NEW table, Held(table)
  PROVE  Held(Swept(table))
<1>1. DOMAIN Swept(table) \subseteq DOMAIN table
  BY DEF Swept, Restrict
<1> QED BY <1>1, SmallerIsHeld

LEMMA PrunedHeld ==
  ASSUME NEW table, NEW c, NEW t, Held(table)
  PROVE  /\ Held(Pruned(table, c, t))
         /\ Live(table, c, t) # <<>> => c \in DOMAIN Pruned(table, c, t)
<1>1. DOMAIN Pruned(table, c, t) = {d \in DOMAIN table : d # c \/ Live(table, c, t) # <<>>}
  BY DEF Pruned
<1>2. Live(table, c, t) # <<>> => c \in DOMAIN table
  BY DEF Live
<1> QED BY <1>1, <1>2, SmallerIsHeld

(* An eviction takes somebody: the batch is not empty, and neither is a    *)
(* full table.                                                             *)
LEMMA EvictionFreesAPlace ==
  ASSUME NEW table, Held(table), IsFull(table), NEW K \in Doomed(table)
  PROVE  Roomy(Restrict(table, DOMAIN table \ K))
<1> DEFINE n == Cardinality(DOMAIN table)
<1>1. n \in Nat /\ n = MAX_COUNTERS
  BY Bounds, FS_CardinalityType DEF Held, IsFull
<1>2. K \subseteq DOMAIN table /\ Cardinality(K) = Min({EVICTION_BATCH, n})
  BY DEF Doomed
<1>3. Min({EVICTION_BATCH, n}) \in {EVICTION_BATCH, n}
  <2>1. \E x \in {EVICTION_BATCH, n} : \A y \in {EVICTION_BATCH, n} : x <= y
    BY <1>1, Bounds
  <2> QED BY <2>1 DEF Min
<1>4. IsFiniteSet(K) /\ Cardinality(K) \in Nat \ {0}
  BY <1>1, <1>2, <1>3, Bounds, FS_Subset DEF Held
<1>5. /\ IsFiniteSet(DOMAIN table \ K)
      /\ Cardinality(DOMAIN table \ K) = n - Cardinality(K)
  <2>1. DOMAIN table \cap K = K
    BY <1>2
  <2> QED BY <2>1, FS_Difference DEF Held
<1>6. DOMAIN Restrict(table, DOMAIN table \ K) = DOMAIN table \ K
  BY DEF Restrict
<1> QED BY <1>1, <1>4, <1>5, <1>6 DEF Roomy

LEMMA RoomIsMade ==
  ASSUME NEW table, Held(table), NEW room \in Rooms(table)
  PROVE  Roomy(room)
<1>1. CASE ~IsFull(table)
  <2>1. room = table /\ Cardinality(DOMAIN table) \in Nat
    BY <1>1, FS_CardinalityType DEF Rooms, Held
  <2> QED BY <1>1, <2>1, Bounds DEF Roomy, Held, IsFull
<1>2. CASE IsFull(table) /\ ~IsFull(Swept(table))
  <2>1. room = Swept(table) /\ Held(room)
    BY <1>2, SweptHeld DEF Rooms
  <2>2. Cardinality(DOMAIN room) \in Nat
    BY <2>1, FS_CardinalityType DEF Held
  <2> QED BY <1>2, <2>1, <2>2, Bounds DEF Roomy, Held, IsFull
<1>3. CASE IsFull(table) /\ IsFull(Swept(table))
  <2>1. PICK K \in Doomed(Swept(table)) :
            room = Restrict(Swept(table), DOMAIN Swept(table) \ K)
    BY <1>3 DEF Rooms
  <2> QED BY <1>3, <2>1, SweptHeld, EvictionFreesAPlace
<1> QED BY <1>1, <1>2, <1>3

LEMMA OneMore ==
  ASSUME NEW room, NEW c, NEW deque, Roomy(room)
  PROVE  Held(With(room, c, deque))
<1>1. DOMAIN With(room, c, deque) = DOMAIN room \cup {c}
  BY DEF With
<1>2. IsFiniteSet(DOMAIN room) /\ Cardinality(DOMAIN room) \in Nat
  BY FS_CardinalityType DEF Roomy
<1>3. /\ IsFiniteSet(DOMAIN room \cup {c})
      /\ \/ Cardinality(DOMAIN room \cup {c}) = Cardinality(DOMAIN room)
         \/ Cardinality(DOMAIN room \cup {c}) = Cardinality(DOMAIN room) + 1
  BY <1>2, FS_AddElement
<1> QED BY <1>1, <1>2, <1>3, Bounds DEF Held, Roomy

LEMMA HitHeld ==
  ASSUME NEW c, NEW sender, Held(hits), Hit(c, sender)
  PROVE  Held(hits')
<1> DEFINE due == IF SweepDue THEN Swept(hits) ELSE hits
           deque == Live(due, c, now)
           table == Pruned(due, c, now)
<1>1. Held(due)
  BY SweptHeld
<1>2. Held(table) /\ (deque # <<>> => c \in DOMAIN table)
  BY <1>1, PrunedHeld
<1>3. \/ deque = <<>> /\ \E room \in Rooms(table) : hits' = With(room, c, <<now>>)
      \/ deque # <<>> /\ hits' = With(table, c, Append(deque, now))
      \/ hits' = table
  BY DEF Hit, Refused
<1> HIDE DEF due, deque, table
<1>4. CASE deque # <<>> /\ hits' = With(table, c, Append(deque, now))
  <2>1. DOMAIN hits' = DOMAIN table
    BY <1>2, <1>4 DEF With
  <2> QED BY <1>2, <2>1 DEF Held
<1> QED BY <1>2, <1>3, <1>4, RoomIsMade, OneMore

-----------------------------------------------------------------------------
(* What each operation on a table does to what counts *)

(* Two tables nobody can tell apart.                                       *)
Same(one, other) ==
    \A d \in Counter : /\ Live(one, d, now) = Live(other, d, now)
                       /\ TouchIn(one, d) = TouchIn(other, d)

LEMMA SweptSame ==
  ASSUME now \in Nat, NEW table, Sound(table)
  PROVE  /\ Sound(Swept(table)) /\ Same(Swept(table), table)
         /\ DOMAIN Swept(table) = {d \in Counter : TouchIn(table, d) # Never}
<1> DEFINE swept == Swept(table)
           recent == {d \in DOMAIN table : Newest(table[d]) > now - LongestWindow}
<1>1. DOMAIN swept = recent /\ \A d \in recent : swept[d] = table[d]
  BY DEF Swept, Restrict
<1> HIDE DEF swept
<1>2. SoundAt(swept, now)
  BY <1>1 DEF Sound, SoundAt
<1>3. ASSUME NEW d \in Counter
      PROVE  Live(swept, d, now) = Live(table, d, now) /\ TouchIn(swept, d) = TouchIn(table, d)
  <2>1. CASE d \in recent
    BY <1>1, <2>1 DEF Live, TouchIn
  <2>2. CASE d \notin recent
    <3>1. TouchIn(swept, d) = Never /\ TouchIn(table, d) = Never /\ Live(swept, d, now) = <<>>
      BY <1>1, <2>2 DEF Live, TouchIn
    <3>2. Live(table, d, now) = <<>>
      <4>1. /\ d[1] \in Rule /\ LongestWindow \in Nat /\ Window[d[1]] \in Nat
            /\ Window[d[1]] <= LongestWindow
        BY Lengths
      <4>2. Live(table, d, now) # <<>> => /\ d \in DOMAIN table
                                          /\ Newest(table[d]) > now - Window[d[1]]
        BY LiveIs DEF Sound
      <4>3. d \in DOMAIN table => Newest(table[d]) \in Nat
        BY HeldDeque DEF Sound
      <4> QED BY <2>2, <4>1, <4>2, <4>3
    <3> QED BY <3>1, <3>2
  <2> QED BY <2>1, <2>2
<1>4. recent = {d \in Counter : TouchIn(table, d) # Never}
  <2>1. \A d \in DOMAIN table : d \in Counter /\ Newest(table[d]) \in Nat
    BY HeldDeque DEF Sound
  <2> QED BY <2>1 DEF TouchIn, Never
<1> QED BY <1>1, <1>2, <1>3, <1>4 DEF Same, Sound, swept

(* _live changes nothing but what is written of an old counter.            *)
LEMMA PrunedSame ==
  ASSUME now \in Nat, NEW table, Sound(table), NEW c \in Counter
  PROVE  LET pruned == Pruned(table, c, now)
             deque == Live(table, c, now)
         IN /\ Sound(pruned)
            /\ \A d \in Counter : /\ Live(pruned, d, now) = Live(table, d, now)
                                  /\ d # c => TouchIn(pruned, d) = TouchIn(table, d)
            /\ deque = <<>> => c \notin DOMAIN pruned
            /\ deque # <<>> => Same(pruned, table)
<1> DEFINE pruned == Pruned(table, c, now)
           deque == Live(table, c, now)
<1>1. /\ DOMAIN pruned = {d \in DOMAIN table : d # c \/ deque # <<>>}
      /\ \A d \in DOMAIN pruned : pruned[d] = IF d = c THEN deque ELSE table[d]
  BY DEF Pruned
<1>2. /\ IsDeque(deque) /\ Len(deque) \in Nat /\ Len(deque) <= Limit[c[1]]
      /\ \A i \in 1 .. Len(deque) : deque[i] > now - Window[c[1]]
      /\ deque # <<>> => /\ c \in DOMAIN table /\ Newest(deque) = Newest(table[c])
  BY LiveIs DEF Sound
<1>3. Limit[c[1]] \in Nat /\ now - Window[c[1]] \in Int
  BY Lengths
<1> HIDE DEF pruned, deque
<1>4. SoundAt(pruned, now)
  <2> SUFFICES ASSUME NEW d \in DOMAIN pruned
               PROVE  /\ d \in Counter
                      /\ IsDeque(pruned[d]) /\ Len(pruned[d]) \in 1 .. Limit[d[1]]
                      /\ Newest(pruned[d]) <= now
    BY DEF SoundAt
  <2>1. CASE d # c
    BY <1>1, <2>1 DEF Sound, SoundAt
  <2>2. CASE d = c
    <3>1. deque # <<>> /\ pruned[d] = deque /\ c \in DOMAIN table
      BY <1>1, <2>2
    <3>2. Len(deque) # 0
      BY <1>2, <3>1, EmptySeq DEF IsDeque
    <3>3. Newest(table[c]) <= now
      BY <3>1 DEF Sound, SoundAt
    <3> QED BY <1>2, <1>3, <2>2, <3>1, <3>2, <3>3
  <2> QED BY <2>1, <2>2
<1>5. Live(pruned, c, now) = deque
  <2>1. CASE deque = <<>>
    BY <1>1, <2>1 DEF Live
  <2>2. CASE deque # <<>>
    <3>1. c \in DOMAIN pruned /\ pruned[c] = deque
      BY <1>1, <1>2, <2>2
    <3>2. Kept(deque, now - Window[c[1]]) = deque
      BY <1>2, <1>3, KeptAll
    <3> QED BY <3>1, <3>2 DEF Live
  <2> QED BY <2>1, <2>2
<1>6. ASSUME NEW d \in Counter, d # c
      PROVE  Live(pruned, d, now) = Live(table, d, now) /\ TouchIn(pruned, d) = TouchIn(table, d)
  BY <1>1, <1>6 DEF Live, TouchIn
<1>7. ASSUME deque # <<>> PROVE TouchIn(pruned, c) = TouchIn(table, c)
  BY <1>1, <1>2, <1>7 DEF TouchIn
<1> QED BY <1>1, <1>4, <1>5, <1>6, <1>7 DEF Same, Sound, pruned, deque

(* What is given up for room: nothing, or a batch of the counters touched  *)
(* longest ago, when as many are of interest as the table may hold.        *)
GivesUp(table, K) ==
    LET known == {d \in Counter : TouchIn(table, d) # Never} IN
    \/ K = {}
    \/ /\ K \subseteq known /\ Cardinality(K) <= EVICTION_BATCH
       /\ Cardinality(known) >= MAX_COUNTERS
       /\ \A k \in K, o \in known \ K : TouchIn(table, k) <= TouchIn(table, o)

Without(room, table, K) ==
    \A d \in Counter :
        /\ Live(room, d, now) = IF d \in K THEN <<>> ELSE Live(table, d, now)
        /\ TouchIn(room, d) = IF d \in K THEN Never ELSE TouchIn(table, d)

LEMMA RoomIs ==
  ASSUME now \in Nat, NEW table, Sound(table), Held(table), NEW room \in Rooms(table)
  PROVE  Sound(room) /\ \E K : GivesUp(table, K) /\ Without(room, table, K)
<1> DEFINE swept == Swept(table)
           known == {d \in Counter : TouchIn(table, d) # Never}
<1>1. Sound(swept) /\ Same(swept, table) /\ DOMAIN swept = known
  BY SweptSame
<1>2. CASE room = table \/ room = swept
  <2>1. Sound(room) /\ Same(room, table)
    BY <1>1, <1>2 DEF Same
  <2>2. GivesUp(table, {}) /\ Without(room, table, {})
    BY <2>1 DEF GivesUp, Without, Same
  <2> QED BY <2>1, <2>2
<1>3. CASE IsFull(swept) /\ \E K \in Doomed(swept) : room = Restrict(swept, DOMAIN swept \ K)
  <2>1. PICK K \in Doomed(swept) : room = Restrict(swept, DOMAIN swept \ K)
    BY <1>3
  <2>2. /\ K \subseteq DOMAIN swept
        /\ Cardinality(K) = Min({EVICTION_BATCH, Cardinality(DOMAIN swept)})
        /\ \A k \in K, o \in DOMAIN swept \ K : Newest(swept[k]) <= Newest(swept[o])
    BY DEF Doomed
  <2>3. DOMAIN room = DOMAIN swept \ K /\ \A d \in DOMAIN room : room[d] = swept[d]
    BY <2>1 DEF Restrict
  <2> HIDE DEF swept, known
  <2>4. Cardinality(K) <= EVICTION_BATCH
    <3>1. Held(swept)
      BY SweptHeld DEF swept
    <3>2. Cardinality(DOMAIN swept) \in Nat
      BY <3>1, FS_CardinalityType DEF Held
    <3>3. \E x \in {EVICTION_BATCH, Cardinality(DOMAIN swept)} :
             \A y \in {EVICTION_BATCH, Cardinality(DOMAIN swept)} : x <= y
      BY <3>2, Bounds
    <3> QED BY <2>2, <3>2, <3>3, Bounds DEF Min
  <2>5. ASSUME NEW d \in DOMAIN swept PROVE TouchIn(table, d) = Newest(swept[d])
    <3>1. d \in Counter /\ TouchIn(table, d) # Never
      BY <1>1, <2>5 DEF known
    <3> QED BY <1>1, <2>5, <3>1 DEF TouchIn, Same
  <2>6. GivesUp(table, K)
    <3>1. Cardinality(known) >= MAX_COUNTERS
      BY <1>1, <1>3 DEF IsFull
    <3>2. \A k \in K, o \in known \ K : TouchIn(table, k) <= TouchIn(table, o)
      BY <1>1, <2>2, <2>5
    <3> QED BY <1>1, <2>2, <2>4, <3>1, <3>2 DEF GivesUp, known
  <2>7. Without(room, table, K)
    BY <1>1, <2>2, <2>3 DEF Without, Same, Live, TouchIn
  <2>8. Sound(room)
    BY <1>1, <2>3 DEF Sound, SoundAt
  <2> QED BY <2>6, <2>7, <2>8
<1> QED BY <1>2, <1>3 DEF Rooms

LEMMA WithIs ==
  ASSUME now \in Nat, NEW table, Sound(table), NEW c \in Counter, NEW deque,
         IsDeque(deque), Len(deque) \in 1 .. Limit[c[1]], Newest(deque) = now,
         \A i \in 1 .. Len(deque) : deque[i] > now - Window[c[1]]
  PROVE  LET with == With(table, c, deque) IN
         /\ Sound(with)
         /\ \A d \in Counter :
               /\ Live(with, d, now) = IF d = c THEN deque ELSE Live(table, d, now)
               /\ TouchIn(with, d) = IF d = c THEN now ELSE TouchIn(table, d)
<1> DEFINE with == With(table, c, deque)
<1>1. /\ DOMAIN with = DOMAIN table \cup {c}
      /\ \A d \in DOMAIN with : with[d] = IF d = c THEN deque ELSE table[d]
  BY DEF With
<1> HIDE DEF with
<1>2. Sound(with)
  BY <1>1 DEF Sound, SoundAt
<1>3. /\ Window[c[1]] \in Nat \ {0} /\ Window[c[1]] <= LongestWindow /\ LongestWindow \in Nat
      /\ now - Window[c[1]] \in Int /\ now > now - LongestWindow
  BY Lengths
<1>4. Live(with, c, now) = deque /\ TouchIn(with, c) = now
  <2>1. Kept(deque, now - Window[c[1]]) = deque
    BY <1>3, KeptAll
  <2> QED BY <1>1, <1>3, <2>1 DEF Live, TouchIn
<1>5. ASSUME NEW d \in Counter, d # c
      PROVE  Live(with, d, now) = Live(table, d, now) /\ TouchIn(with, d) = TouchIn(table, d)
  BY <1>1, <1>5 DEF Live, TouchIn
<1> QED BY <1>2, <1>4, <1>5 DEF with

(* A table in which this moment is recorded for c, and K given up.         *)
Recorded(table, c, K) ==
    \A d \in Counter :
        /\ Live(table, d, now) = IF d = c THEN Append(Live(hits, c, now), now)
                                 ELSE IF d \in K THEN <<>> ELSE Live(hits, d, now)
        /\ TouchIn(table, d) = IF d = c THEN now
                               ELSE IF d \in K THEN Never ELSE TouchIn(hits, d)

(* What a decision comes to: nothing changes for a counter that is full;   *)
(* otherwise its deque gains this moment, and whatever else is lost was    *)
(* given up for room.                                                      *)
LEMMA HitIs ==
  ASSUME now \in Nat, UNCHANGED now, Sound(hits), Held(hits),
         NEW c \in Counter, NEW sender, Hit(c, sender)
  PROVE  /\ Sound(hits')
         /\ LET deque == Live(hits, c, now)
                allowed == Len(deque) < Limit[c[1]]
            IN /\ answer' = [asked |-> c, sender |-> sender, allowed |-> allowed,
                             retry_after |-> IF allowed THEN 0 ELSE RetryAfter(c, deque)]
               /\ ~allowed => Same(hits', hits)
               /\ allowed => \E K : /\ IF deque = <<>> THEN GivesUp(hits, K) ELSE K = {}
                                    /\ c \notin K /\ Recorded(hits', c, K)
<1> DEFINE due == IF SweepDue THEN Swept(hits) ELSE hits
           deque == Live(hits, c, now)
           table == Pruned(due, c, now)
           allowed == Len(deque) < Limit[c[1]]
<1>1. Sound(due) /\ Same(due, hits) /\ Held(due)
  BY SweptSame, SweptHeld DEF Same
<1>2. Live(due, c, now) = deque
  BY <1>1 DEF Same
<1>3. /\ IF allowed
         THEN IF deque = <<>>
              THEN \E room \in Rooms(table) : hits' = With(room, c, <<now>>)
              ELSE hits' = With(table, c, Append(deque, now))
         ELSE hits' = table
      /\ answer' = [asked |-> c, sender |-> sender, allowed |-> allowed,
                    retry_after |-> IF allowed THEN 0 ELSE RetryAfter(c, deque)]
  BY <1>2 DEF Hit, Refused
<1> HIDE DEF due
<1>4. /\ Sound(table) /\ Held(table)
      /\ \A d \in Counter : /\ Live(table, d, now) = Live(hits, d, now)
                            /\ d # c => TouchIn(table, d) = TouchIn(hits, d)
      /\ deque = <<>> => c \notin DOMAIN table
      /\ deque # <<>> => Same(table, hits)
  BY <1>1, <1>2, PrunedSame, PrunedHeld DEF Same
<1>5. /\ IsDeque(deque) /\ Len(deque) \in Nat
      /\ \A i \in 1 .. Len(deque) : deque[i] \in Nat /\ deque[i] > now - Window[c[1]]
                                    /\ deque[i] <= now
  BY LiveIs DEF Sound
<1>6. /\ Limit[c[1]] \in Nat \ {0} /\ Window[c[1]] \in Nat \ {0}
      /\ now > now - Window[c[1]]
  BY Lengths
<1> DEFINE more == Append(deque, now)
<1>7. /\ IsDeque(more) /\ Len(more) = Len(deque) + 1 /\ Newest(more) = now
      /\ \A i \in 1 .. Len(more) : more[i] > now - Window[c[1]]
  <2>1. /\ IsDeque(more) /\ Len(more) = Len(deque) + 1 /\ Newest(more) = now
        /\ \A i \in 1 .. Len(deque) : more[i] = deque[i]
    BY <1>5, OneMoreEvent
  <2> HIDE DEF more, deque
  <2>2. ASSUME NEW i \in 1 .. Len(more) PROVE more[i] > now - Window[c[1]]
    <3>1. CASE i \in 1 .. Len(deque)
      BY <1>5, <2>1, <3>1
    <3>2. CASE i = Len(more)
      BY <1>6, <2>1, <3>2 DEF Newest
    <3> QED BY <1>5, <2>1, <3>1, <3>2
  <2> QED BY <2>1, <2>2
<1> HIDE DEF table
<1>8. CASE ~allowed
  <2>1. hits' = table /\ deque # <<>>
    <3>1. Len(<<>>) = 0
      OBVIOUS
    <3> QED BY <1>3, <1>6, <1>8, <3>1
  <2> QED BY <1>3, <1>4, <1>8, <2>1 DEF Sound, SoundAt, Same, TouchIn
<1>9. CASE allowed /\ deque # <<>>
  <2>1. hits' = With(table, c, more) /\ Len(more) \in 1 .. Limit[c[1]]
    BY <1>3, <1>5, <1>6, <1>7, <1>9
  <2> HIDE DEF more, deque
  <2>2. /\ Sound(With(table, c, more))
        /\ \A d \in Counter :
              /\ Live(With(table, c, more), d, now) = IF d = c THEN more ELSE Live(table, d, now)
              /\ TouchIn(With(table, c, more), d) = IF d = c THEN now ELSE TouchIn(table, d)
    BY <1>4, <1>7, <2>1, WithIs
  <2>3. Sound(hits')
    BY <2>1, <2>2 DEF Sound, SoundAt
  <2>4. \A d \in Counter :
          /\ Live(hits', d, now) = IF d = c THEN more ELSE Live(hits, d, now)
          /\ TouchIn(hits', d) = IF d = c THEN now ELSE TouchIn(hits, d)
    BY <1>4, <2>1, <2>2
  <2>5. Recorded(hits', c, {})
    BY <2>4 DEF Recorded, more, deque
  <2> QED BY <1>3, <1>9, <2>3, <2>5 DEF deque
<1>10. CASE allowed /\ deque = <<>>
  <2>1. PICK room \in Rooms(table) : hits' = With(room, c, <<now>>)
    BY <1>3, <1>10
  <2>2. more = <<now>>
    BY <1>10
  <2>9. Len(more) \in 1 .. Limit[c[1]]
    BY <1>5, <1>6, <1>7, <1>10
  <2>3. Sound(room)
    BY <1>4, RoomIs
  <2>4. PICK K : GivesUp(table, K) /\ Without(room, table, K)
    BY <1>4, RoomIs
  <2> HIDE DEF more, deque
  <2>5. /\ Sound(With(room, c, more))
        /\ \A d \in Counter :
              /\ Live(With(room, c, more), d, now) = IF d = c THEN more ELSE Live(room, d, now)
              /\ TouchIn(With(room, c, more), d) = IF d = c THEN now ELSE TouchIn(room, d)
    BY <1>7, <2>9, <2>3, WithIs
  <2>6. Sound(hits')
    BY <2>1, <2>2, <2>5 DEF Sound, SoundAt
  <2>7. Recorded(hits', c, K)
    BY <1>4, <2>1, <2>2, <2>4, <2>5 DEF Recorded, Without, more, deque
  <2>8. GivesUp(hits, K) /\ c \notin K
    <3>1. TouchIn(table, c) = Never
      BY <1>4, <1>10 DEF TouchIn, deque
    <3>4. c \notin K
      BY <2>4, <3>1 DEF GivesUp
    <3>2. CASE TouchIn(hits, c) = Never
      <4>1. \A d \in Counter : TouchIn(table, d) = TouchIn(hits, d)
        BY <1>4, <3>1, <3>2
      <4> QED BY <2>4, <3>4, <4>1 DEF GivesUp
    <3>3. CASE TouchIn(hits, c) # Never
      <4> DEFINE known == {d \in Counter : TouchIn(table, d) # Never}
                 before == {d \in Counter : TouchIn(hits, d) # Never}
      <4>1. before \subseteq DOMAIN hits /\ c \in before /\ known = before \ {c}
        BY <1>4, <3>1, <3>3 DEF TouchIn
      <4> HIDE DEF known, before
      <4>2. IsFiniteSet(before) /\ Cardinality(before) <= Cardinality(DOMAIN hits)
        BY <4>1, FS_Subset DEF Held
      <4>3. Cardinality(known) = Cardinality(before) - 1 /\ Cardinality(before) \in Nat
        BY <4>1, <4>2, FS_RemoveElement, FS_CardinalityType
      <4>4. Cardinality(DOMAIN hits) \in Nat /\ Cardinality(DOMAIN hits) <= MAX_COUNTERS
        BY FS_CardinalityType DEF Held
      <4>5. ~(Cardinality(known) >= MAX_COUNTERS)
        BY <4>2, <4>3, <4>4, Bounds
      <4> QED BY <2>4, <3>4, <4>5 DEF GivesUp, known
    <3> QED BY <3>2, <3>3
  <2> QED BY <1>3, <1>10, <2>6, <2>7, <2>8 DEF deque
<1> QED BY <1>8, <1>9, <1>10

-----------------------------------------------------------------------------
(* What time does to what counts *)

(* What will be live later is what is live now, cut again.                 *)
LEMMA LiveLater ==
  ASSUME now \in Nat, NEW table, Sound(table), NEW c \in Counter, NEW later \in Nat, now <= later
  PROVE  Live(table, c, later) = Kept(Live(table, c, now), later - Window[c[1]])
<1> DEFINE early == now - Window[c[1]]
           late == later - Window[c[1]]
<1>1. early \in Int /\ late \in Int /\ early <= late
  BY Lengths
<1>2. CASE c \in DOMAIN table
  <2>1. IsDeque(table[c])
    BY <1>2 DEF Sound, SoundAt
  <2> HIDE DEF early, late
  <2>2. Kept(Kept(table[c], early), late) = Kept(table[c], late)
    BY <1>1, <2>1, KeptOfKept
  <2> QED BY <1>2, <2>2 DEF Live, early, late
<1>3. CASE c \notin DOMAIN table
  <2>1. IsDeque(<<>>) /\ Len(<<>>) = 0
    BY DEF IsDeque
  <2> HIDE DEF early, late
  <2>2. Kept(<<>>, late) = <<>>
    BY <1>1, <2>1, KeptAll
  <2> QED BY <1>3, <2>2 DEF Live, late
<1> QED BY <1>2, <1>3

(* Whole seconds, rounded up: enough, and one less would not be.           *)
LEMMA SecondsIs ==
  ASSUME NEW ticks \in Nat \ {0}
  PROVE  /\ Seconds(ticks) \in Nat \ {0}
         /\ Seconds(ticks) * Second >= ticks
         /\ Seconds(ticks) * Second - Second < ticks
<1> DEFINE q == Seconds(ticks)
<1>1. Second \in Nat \ {0}
  BY LimiterAssumption
<1>2. PICK n \in Nat : n = ticks + Second - 1
  BY <1>1
<1>3. q = n \div Second
  BY <1>2 DEF Seconds
<1>4. /\ n \div Second \in Int /\ n % Second \in 0 .. Second - 1
      /\ n = Second * (n \div Second) + (n % Second)
  BY <1>1, <1>2
<1>5. q \in Int /\ Second * q = n - (n % Second)
  BY <1>1, <1>2, <1>3, <1>4
<1> HIDE DEF q
<1>6. Second * q = q * Second
  BY <1>1, <1>5
<1>7. q * Second >= ticks /\ q * Second - Second < ticks
  BY <1>1, <1>2, <1>4, <1>5, <1>6
<1>8. q > 0
  <2> SUFFICES ASSUME q <= 0 PROVE FALSE
    BY <1>5
  <2>1. q * Second <= 0
    BY <1>1, <1>5
  <2> QED BY <1>1, <1>5, <1>7, <2>1
<1> QED BY <1>5, <1>7, <1>8 DEF q

(* How long a refused counter has to wait.                                 *)
LEMMA RetryAfterIs ==
  ASSUME now \in Nat, NEW c \in Counter, NEW deque, IsDeque(deque), Len(deque) > 0,
         deque[1] > now - Window[c[1]]
  PROVE  LET rest == deque[1] + Window[c[1]] - now IN
         /\ rest \in Nat \ {0} /\ RetryAfter(c, deque) = Seconds(rest)
         /\ RetryAfter(c, deque) \in Nat \ {0}
<1> DEFINE rest == deque[1] + Window[c[1]] - now
<1>1. Window[c[1]] \in Nat /\ deque[1] \in Nat
  BY Lengths DEF IsDeque
<1>2. rest \in Nat \ {0}
  BY <1>1
<1> DEFINE s == Seconds(rest)
<1>3. s \in Nat \ {0}
  BY <1>2, SecondsIs
<1>4. RetryAfter(c, deque) = Max({1, s})
  BY DEF RetryAfter
<1> HIDE DEF rest, s
<1>5. Max({1, s}) = s
  <2>1. s \in {1, s} /\ \A y \in {1, s} : s >= y
    BY <1>3
  <2>2. \A x \in {1, s} : (\A y \in {1, s} : x >= y) => x = s
    BY <1>3
  <2> QED BY <2>1, <2>2 DEF Max
<1> QED BY <1>2, <1>3, <1>4, <1>5 DEF rest, s

LEMMA WaitsAreHonest ==
  ASSUME now \in Nat, Sound(hits)
  PROVE  WaitIsHonest
<1> SUFFICES ASSUME NEW c \in DOMAIN hits, Len(Live(hits, c, now)) >= Limit[c[1]]
             PROVE  LET wait == RetryAfter(c, Live(hits, c, now)) * Second IN
                    /\ Len(Live(hits, c, now + wait)) < Limit[c[1]]
                    /\ wait > Second => Len(Live(hits, c, now + wait - Second)) >= Limit[c[1]]
  BY DEF WaitIsHonest
<1> DEFINE deque == Live(hits, c, now)
           wait == RetryAfter(c, deque) * Second
           rest == deque[1] + Window[c[1]] - now
<1>1. c \in Counter
  BY DEF Sound, SoundAt
<1>2. /\ Limit[c[1]] \in Nat \ {0} /\ Window[c[1]] \in Nat \ {0} /\ Second \in Nat \ {0}
  BY <1>1, Lengths, LimiterAssumption
<1>3. /\ IsDeque(deque) /\ Len(deque) \in Nat /\ Len(deque) <= Limit[c[1]]
      /\ \A i \in 1 .. Len(deque) : deque[i] \in Nat /\ deque[i] > now - Window[c[1]]
  BY <1>1, LiveIs DEF Sound
<1>4. Len(deque) > 0 /\ 1 \in 1 .. Len(deque)
  BY <1>2, <1>3
<1>5. /\ rest \in Nat \ {0} /\ RetryAfter(c, deque) = Seconds(rest)
      /\ RetryAfter(c, deque) \in Nat \ {0}
  BY <1>1, <1>3, <1>4, RetryAfterIs
<1>6. wait \in Nat /\ wait >= rest /\ wait - Second < rest
  <2>1. /\ Seconds(rest) \in Nat \ {0}
        /\ Seconds(rest) * Second >= rest
        /\ Seconds(rest) * Second - Second < rest
    BY <1>5, SecondsIs
  <2>2. Seconds(rest) * Second \in Nat
    BY <1>2, <2>1
  <2> QED BY <1>5, <2>1, <2>2
<1>7. deque[1] \in Nat /\ rest = deque[1] + Window[c[1]] - now
  BY <1>3, <1>4
<1> HIDE DEF rest, wait
<1>8. Len(Live(hits, c, now + wait)) < Limit[c[1]]
  <2> DEFINE later == now + wait
             cutoff == later - Window[c[1]]
  <2>1. later \in Nat /\ now <= later /\ cutoff \in Int /\ deque[1] <= cutoff
    BY <1>2, <1>6, <1>7
  <2>2. Live(hits, c, later) = Kept(deque, cutoff)
    BY <1>1, <2>1, LiveLater
  <2> HIDE DEF later, cutoff, deque
  <2>3. PICK n \in 0 .. Len(deque) :
            /\ Len(Kept(deque, cutoff)) = Len(deque) - n
            /\ \A i \in 1 .. Len(Kept(deque, cutoff)) :
                  Kept(deque, cutoff)[i] = deque[n + i] /\ Kept(deque, cutoff)[i] > cutoff
    BY <1>3, <2>1, KeptIs
  <2>4. n # 0
    <3> SUFFICES ASSUME n = 0 PROVE FALSE
      OBVIOUS
    <3>1. 1 \in 1 .. Len(Kept(deque, cutoff)) /\ n + 1 = 1
      BY <1>3, <1>4, <2>3
    <3>2. deque[1] > cutoff
      BY <2>3, <3>1
    <3> QED BY <1>7, <2>1, <3>2
  <2> QED BY <1>2, <1>3, <2>2, <2>3, <2>4 DEF later
<1>9. ASSUME wait > Second PROVE Len(Live(hits, c, now + wait - Second)) >= Limit[c[1]]
  <2> DEFINE later == now + wait - Second
             cutoff == later - Window[c[1]]
  <2>1. later \in Nat /\ now <= later /\ cutoff \in Int /\ deque[1] > cutoff
    BY <1>2, <1>6, <1>7, <1>9
  <2>2. Live(hits, c, later) = Kept(deque, cutoff)
    BY <1>1, <2>1, LiveLater
  <2> HIDE DEF later, cutoff, deque
  <2>3. \A i \in 1 .. Len(deque) : deque[i] > cutoff
    <3>1. \A i \in 1 .. Len(deque) : deque[1] <= deque[i]
      BY <1>3, <1>4 DEF IsDeque
    <3> QED BY <1>3, <1>7, <2>1, <3>1
  <2>4. Kept(deque, cutoff) = deque
    BY <1>3, <2>1, <2>3, KeptAll
  <2> QED BY <2>2, <2>4 DEF later, deque
<1> QED BY <1>8, <1>9 DEF wait

-----------------------------------------------------------------------------
(* Whose request it is *)

(* Whichever way a request comes and whatever its header says, it is       *)
(* counted under its sender.                                               *)
LEMMA KeyIsSender ==
  ASSUME NEW client \in Sender, NEW ip \in Key(client)
  PROVE  ip = client
<1>1. /\ Loopback \in Client /\ Unknown \notin Client /\ Garbage \notin Spelling
  BY LimiterAssumption DEF Spelling
<1>2. PICK from \in Arrival(client) : ip = ClientIp(from[1], from[2])
  BY DEF Key
<1>3. CASE client = Unknown
  <2>1. from[1] = Garbage
    BY <1>2, <1>3 DEF Arrival
  <2>2. Canonical(from[1]) = Unknown
    BY <1>1, <2>1 DEF Canonical
  <2> QED BY <1>1, <1>2, <1>3, <2>2 DEF ClientIp
<1>4. CASE client # Unknown
  <2>1. client \in Client
    BY <1>4 DEF Sender
  <2>2. CASE \E s, t \in {"plain", "mapped"} : from = <<<<Loopback, s>>, <<<<client, t>>>>>>
    <3>1. PICK s \in {"plain", "mapped"}, t \in {"plain", "mapped"} :
              from = <<<<Loopback, s>>, <<<<client, t>>>>>>
      BY <2>2
    <3>2. /\ from[1] = <<Loopback, s>> /\ from[2] = <<<<client, t>>>>
          /\ from[2] # <<>> /\ Len(from[2]) = 1 /\ from[2][1] = <<client, t>>
      BY <3>1
    <3>3. Canonical(from[1]) = Loopback /\ Canonical(from[2][1]) = client
      BY <1>1, <2>1, <3>2 DEF Canonical, Spelling
    <3> QED BY <1>1, <1>2, <1>4, <3>2, <3>3 DEF ClientIp
  <2>3. CASE from \in ({client} \X {"plain", "mapped"})
                        \X (IF client = Loopback THEN {<<>>} ELSE Header)
    <3>1. Canonical(from[1]) = client /\ (client = Loopback => from[2] = <<>>)
      BY <2>1, <2>3 DEF Canonical, Spelling
    <3> QED BY <1>2, <3>1 DEF ClientIp
  <2> QED BY <1>2, <1>4, <2>2, <2>3 DEF Arrival
<1> QED BY <1>3, <1>4

-----------------------------------------------------------------------------
(* The invariant *)

(* A login under way has an address, and the one between its two counters  *)
(* has passed the first.                                                   *)
SlotsOK ==
    /\ \A a \in Attempt : attempt[a].pc # "idle" => attempt[a].email \in Email
    /\ busy \in Attempt => attempt[busy].pc = "counted"

IInv == TypeOK /\ Held(hits) /\ Sound(hits) /\ SlotsOK /\ ChargedToItsSender

LEMMA InitInv == Init => IInv
<1> SUFFICES ASSUME Init PROVE IInv
  OBVIOUS
<1>1. /\ DOMAIN hits = {} /\ answer.asked = Nobody /\ answer.asked[1] = "nobody"
      /\ \A a \in Attempt : attempt[a] = Idle
  BY DEF Init, Nobody
<1>2. TypeOK
  BY <1>1, LimiterAssumption DEF TypeOK, Init, Idle, Never
<1>3. SlotsOK
  BY <1>1, LimiterAssumption DEF SlotsOK, Init, Idle
<1> QED BY <1>1, <1>2, <1>3, FS_EmptySet, Bounds
        DEF IInv, Held, Sound, SoundAt, ChargedToItsSender

(* What a decision leaves.                                                 *)
LEMMA HitTyped ==
  ASSUME IInv, UNCHANGED now, NEW c \in Counter, NEW sender \in Sender, Hit(c, sender)
  PROVE  /\ Held(hits') /\ Sound(hits') /\ (Sound(hits))'
         /\ swept_at' \in Nat \cup {Never}
         /\ answer' \in [asked: Counter, sender: Sender, allowed: BOOLEAN, retry_after: Nat]
         /\ answer'.asked = c /\ answer'.sender = sender
<1>1. now \in Nat /\ swept_at \in Nat \cup {Never}
  BY DEF IInv, TypeOK
<1>2. Held(hits')
  BY HitHeld DEF IInv
<1> DEFINE deque == Live(hits, c, now)
           allowed == Len(deque) < Limit[c[1]]
<1>3. /\ Sound(hits')
      /\ answer' = [asked |-> c, sender |-> sender, allowed |-> allowed,
                    retry_after |-> IF allowed THEN 0 ELSE RetryAfter(c, deque)]
  BY <1>1, HitIs DEF IInv
<1>4. swept_at' = now \/ swept_at' = swept_at
  BY DEF Hit
<1>5. /\ IsDeque(deque) /\ Len(deque) \in Nat
      /\ \A i \in 1 .. Len(deque) : deque[i] > now - Window[c[1]]
      /\ Limit[c[1]] \in Nat \ {0}
  BY <1>1, LiveIs, Lengths DEF Sound, IInv
<1>6. ASSUME ~allowed PROVE RetryAfter(c, deque) \in Nat
  <2>1. Len(deque) > 0 /\ 1 \in 1 .. Len(deque)
    BY <1>5, <1>6
  <2> QED BY <1>1, <1>5, <2>1, RetryAfterIs
<1> QED BY <1>1, <1>2, <1>3, <1>4, <1>6 DEF Sound, SoundAt

Slots == [Attempt -> [pc: {"idle", "counted", "verify"}, email: Email \cup {Unknown},
                      since: Nat, forgiven: BOOLEAN]]

EmailCounter(e) == <<"login_email", e>>

LEMMA ForgivenTyped ==
  ASSUME NEW slots, slots \in Slots
  PROVE  /\ Forgiven(slots) \in Slots
         /\ \A a \in Attempt :
               /\ Forgiven(slots)[a].pc = slots[a].pc
               /\ Forgiven(slots)[a].email = slots[a].email
               /\ Forgiven(slots)[a].since = slots[a].since
               /\ Forgiven(slots)[a].forgiven
                     <=> \/ slots[a].forgiven
                         \/ /\ slots[a].pc = "verify"
                            /\ EmailCounter(slots[a].email) \in DOMAIN hits \ DOMAIN hits'
<1> DEFINE gone(a) == /\ slots[a].pc = "verify"
                      /\ EmailCounter(slots[a].email) \in DOMAIN hits \ DOMAIN hits'
           flag(a) == slots[a].forgiven \/ gone(a)
<1>1. ASSUME NEW a \in Attempt
      PROVE  /\ Forgiven(slots)[a] \in [pc: {"idle", "counted", "verify"},
                                        email: Email \cup {Unknown}, since: Nat, forgiven: BOOLEAN]
             /\ Forgiven(slots)[a].pc = slots[a].pc
             /\ Forgiven(slots)[a].email = slots[a].email
             /\ Forgiven(slots)[a].since = slots[a].since
             /\ Forgiven(slots)[a].forgiven = flag(a)
  <2>1. Forgiven(slots)[a] = [slots[a] EXCEPT !.forgiven = flag(a)]
    BY DEF Forgiven, EmailCounter
  <2>2. flag(a) \in BOOLEAN
    OBVIOUS
  <2> HIDE DEF flag
  <2> QED BY <2>1, <2>2 DEF Slots
<1> HIDE DEF gone, flag
<1>2. Forgiven(slots) = [a \in Attempt |-> Forgiven(slots)[a]]
  BY DEF Forgiven
<1>3. \A a \in Attempt : Forgiven(slots)[a].forgiven <=> slots[a].forgiven \/ gone(a)
  BY <1>1 DEF flag
<1> QED BY <1>1, <1>2, <1>3 DEF Slots, gone

LEMMA Counters ==
  /\ \A rule \in Rule \ {"login_email"}, client \in Sender : <<rule, client>> \in Counter
  /\ \A email \in Email : <<"login_email", email>> \in Counter
BY DEF Counter, Sender

(* A request counted under its sender.                                     *)
LEMMA HitOfSender ==
  ASSUME IInv, UNCHANGED now, NEW client \in Sender, NEW rule \in Rule \ {"login_email"},
         NEW ip \in Key(client), Hit(<<rule, ip>>, client)
  PROVE  /\ Held(hits') /\ (Sound(hits))' /\ swept_at' \in Nat \cup {Never}
         /\ answer' \in [asked: Counter, sender: Sender, allowed: BOOLEAN, retry_after: Nat]
         /\ ChargedToItsSender'
<1>1. ip = client
  BY KeyIsSender
<1>2. PICK c \in Counter : c = <<rule, client>>
  BY Counters
<1>3. Hit(c, client)
  BY <1>1, <1>2
<1>4. answer'.asked = c /\ answer'.sender = client
  BY <1>3, HitTyped
<1>5. ChargedToItsSender'
  BY <1>2, <1>4 DEF ChargedToItsSender
<1> QED BY <1>3, <1>5, HitTyped

LEMMA Inductive == IInv /\ [Next]_vars => IInv'
<1> SUFFICES ASSUME IInv, [Next]_vars PROVE IInv'
  OBVIOUS
<1> USE DEF Slots
<1>0. /\ now \in Nat /\ swept_at \in Nat \cup {Never} /\ attempt \in Slots
      /\ busy \in Attempt \cup {NoAttempt} /\ NoAttempt \notin Attempt
      /\ answer \in [asked: Counter \cup {Nobody}, sender: Sender,
                     allowed: BOOLEAN, retry_after: Nat]
      /\ Held(hits) /\ Sound(hits) /\ SlotsOK /\ ChargedToItsSender
  BY LimiterAssumption DEF IInv, TypeOK, Sender
<1>1. ASSUME NEW a \in Attempt, NEW client \in Sender, NEW email \in Email,
             Login(a, client, email)
      PROVE  IInv'
  <2> DEFINE slots == IF answer'.allowed
                      THEN [attempt EXCEPT ![a] = [Idle EXCEPT !.pc = "counted", !.email = email]]
                      ELSE attempt
  <2>1. /\ UNCHANGED now /\ attempt[a].pc = "idle" /\ busy = NoAttempt
        /\ busy' = IF answer'.allowed THEN a ELSE NoAttempt
        /\ attempt' = Forgiven(slots)
    BY <1>1 DEF Login
  <2>2. PICK ip \in Key(client) : Hit(<<"login_ip", ip>>, client)
    BY <1>1 DEF Login
  <2>3. /\ Held(hits') /\ (Sound(hits))' /\ swept_at' \in Nat \cup {Never}
        /\ answer' \in [asked: Counter, sender: Sender, allowed: BOOLEAN, retry_after: Nat]
        /\ ChargedToItsSender'
    BY <2>1, <2>2, HitOfSender DEF Rule
  <2>4. /\ slots \in Slots
        /\ \A b \in Attempt : slots[b].pc # "idle" => slots[b].email \in Email
        /\ answer'.allowed => slots[a].pc = "counted"
    BY <1>0 DEF Idle, SlotsOK
  <2> HIDE DEF slots
  <2>5. /\ attempt' \in Slots
        /\ \A b \in Attempt : attempt'[b].pc = slots[b].pc /\ attempt'[b].email = slots[b].email
    BY <2>1, <2>4, ForgivenTyped
  <2>6. SlotsOK'
    BY <1>0, <2>1, <2>4, <2>5 DEF SlotsOK
  <2>7. TypeOK'
    BY <1>0, <2>1, <2>3, <2>5 DEF TypeOK, Sound, SoundAt, IsDeque, Sender
  <2> QED BY <2>3, <2>6, <2>7 DEF IInv, Held
<1>2. ASSUME NEW a \in Attempt, CountEmail(a) PROVE IInv'
  <2> DEFINE next == IF answer'.allowed
                     THEN [attempt[a] EXCEPT !.pc = "verify", !.since = now] ELSE Idle
             slots == [attempt EXCEPT ![a] = next]
  <2>1. /\ UNCHANGED now /\ busy = a /\ busy' = NoAttempt /\ attempt' = Forgiven(slots)
        /\ Hit(<<"login_email", attempt[a].email>>, answer.sender)
    BY <1>2 DEF CountEmail
  <2>2. attempt[a].email \in Email
    BY <1>0, <2>1 DEF SlotsOK
  <2>3. PICK c \in Counter : c = <<"login_email", attempt[a].email>>
    BY <2>2, Counters
  <2>4. /\ Held(hits') /\ (Sound(hits))' /\ swept_at' \in Nat \cup {Never}
        /\ answer' \in [asked: Counter, sender: Sender, allowed: BOOLEAN, retry_after: Nat]
        /\ answer'.asked = c
    BY <1>0, <2>1, <2>3, HitTyped
  <2>5. ChargedToItsSender'
    BY <2>3, <2>4 DEF ChargedToItsSender
  <2>6. /\ slots \in Slots
        /\ \A b \in Attempt : slots[b].pc # "idle" => slots[b].email \in Email
    BY <1>0, <2>2 DEF Idle, SlotsOK
  <2> HIDE DEF slots
  <2>7. /\ attempt' \in Slots
        /\ \A b \in Attempt : attempt'[b].pc = slots[b].pc /\ attempt'[b].email = slots[b].email
    BY <2>1, <2>6, ForgivenTyped
  <2>8. SlotsOK'
    BY <1>0, <2>1, <2>6, <2>7 DEF SlotsOK
  <2>9. TypeOK'
    BY <1>0, <2>1, <2>4, <2>7 DEF TypeOK, Sound, SoundAt, IsDeque, Sender
  <2> QED BY <2>4, <2>5, <2>8, <2>9 DEF IInv, Held
<1>3. ASSUME NEW a \in Attempt, Succeed(a) PROVE IInv'
  <2>1. /\ UNCHANGED <<now, swept_at, answer, busy>> /\ busy = NoAttempt
        /\ DOMAIN hits' \subseteq DOMAIN hits /\ \A d \in DOMAIN hits' : hits'[d] = hits[d]
        /\ attempt' = Forgiven([attempt EXCEPT ![a] = Idle])
    BY <1>3 DEF Succeed, Restrict
  <2>2. Held(hits')
    BY <1>0, <2>1, SmallerIsHeld
  <2>3. (Sound(hits))'
    BY <1>0, <2>1 DEF Sound, SoundAt
  <2> DEFINE slots == [attempt EXCEPT ![a] = Idle]
  <2>4. /\ slots \in Slots
        /\ \A b \in Attempt : slots[b].pc # "idle" => slots[b].email \in Email
    BY <1>0 DEF Idle, SlotsOK
  <2>5. attempt' = Forgiven(slots)
    BY <2>1
  <2> HIDE DEF slots
  <2>6. /\ attempt' \in Slots
        /\ \A b \in Attempt : attempt'[b].pc = slots[b].pc /\ attempt'[b].email = slots[b].email
    BY <2>4, <2>5, ForgivenTyped
  <2>7. SlotsOK'
    BY <1>0, <2>1, <2>4, <2>6 DEF SlotsOK
  <2>8. TypeOK'
    BY <1>0, <2>1, <2>3, <2>6 DEF TypeOK, Sound, SoundAt, IsDeque, Sender
  <2>9. ChargedToItsSender'
    BY <1>0, <2>1 DEF ChargedToItsSender
  <2> QED BY <2>2, <2>3, <2>7, <2>8, <2>9 DEF IInv, Held
<1>4. ASSUME NEW client \in Sender, Ask("refresh_ip", client) \/ Ask("demo_ip", client)
      PROVE  IInv'
  <2>1. PICK rule \in Rule \ {"login_email"} : Ask(rule, client)
    BY <1>4 DEF Rule
  <2>2. /\ UNCHANGED <<now, busy>> /\ busy = NoAttempt /\ attempt' = Forgiven(attempt)
        /\ \E ip \in Key(client) : Hit(<<rule, ip>>, client)
    BY <2>1 DEF Ask
  <2>3. /\ Held(hits') /\ (Sound(hits))' /\ swept_at' \in Nat \cup {Never}
        /\ answer' \in [asked: Counter, sender: Sender, allowed: BOOLEAN, retry_after: Nat]
        /\ ChargedToItsSender'
    BY <2>2, HitOfSender
  <2>4. /\ attempt' \in Slots
        /\ \A b \in Attempt : attempt'[b].pc = attempt[b].pc /\ attempt'[b].email = attempt[b].email
    BY <1>0, <2>2, ForgivenTyped
  <2>5. SlotsOK'
    BY <1>0, <2>2, <2>4 DEF SlotsOK
  <2>6. TypeOK'
    BY <1>0, <2>2, <2>3, <2>4 DEF TypeOK, Sound, SoundAt, IsDeque, Sender
  <2> QED BY <2>3, <2>5, <2>6 DEF IInv, Held
<1>5. CASE Restart
  <2>1. /\ DOMAIN hits' = {} /\ swept_at' = Never /\ UNCHANGED <<now, answer, busy>>
        /\ busy = NoAttempt /\ attempt' = [a \in Attempt |-> Idle]
    BY <1>5 DEF Restart
  <2>2. Held(hits')
    BY <2>1, FS_EmptySet, Bounds DEF Held
  <2>3. (Sound(hits))'
    BY <2>1 DEF Sound, SoundAt
  <2>4. SlotsOK' /\ attempt' \in Slots
    BY <1>0, <2>1 DEF SlotsOK, Idle
  <2>5. TypeOK'
    BY <1>0, <2>1, <2>3, <2>4 DEF TypeOK, Sound, SoundAt, IsDeque, Sender
  <2>6. ChargedToItsSender'
    BY <1>0, <2>1 DEF ChargedToItsSender
  <2> QED BY <2>2, <2>3, <2>4, <2>5, <2>6 DEF IInv, Held
<1>6. CASE Tick
  <2>1. UNCHANGED <<hits, swept_at, answer, attempt, busy>> /\ now' = now + 1
    BY <1>6 DEF Tick
  <2>2. (Sound(hits))'
    <3>1. \A d \in DOMAIN hits : Newest(hits[d]) \in Nat /\ Newest(hits[d]) <= now
      BY <1>0, HeldDeque DEF Sound
    <3> QED BY <1>0, <2>1, <3>1 DEF Sound, SoundAt
  <2>3. TypeOK'
    BY <1>0, <2>1, <2>2 DEF TypeOK, Sound, SoundAt, IsDeque, Sender
  <2> QED BY <1>0, <2>1, <2>2, <2>3 DEF IInv, Held, SlotsOK, ChargedToItsSender
<1>7. ASSUME NEW a \in Attempt, Fail(a) PROVE IInv'
  <2>1. /\ UNCHANGED <<now, hits, swept_at, answer, busy>> /\ busy = NoAttempt
        /\ attempt' = [attempt EXCEPT ![a] = Idle]
    BY <1>7 DEF Fail
  <2>2. SlotsOK' /\ attempt' \in Slots
    BY <1>0, <2>1 DEF SlotsOK, Idle
  <2>3. TypeOK'
    BY <1>0, <2>1, <2>2 DEF TypeOK, Sound, SoundAt, IsDeque, Sender
  <2> QED BY <1>0, <2>1, <2>2, <2>3 DEF IInv, Held, Sound, SoundAt, ChargedToItsSender
<1>8. CASE UNCHANGED vars
  BY <1>0, <1>8 DEF vars, IInv, TypeOK, Held, Sound, SoundAt, SlotsOK, ChargedToItsSender
<1> QED BY <1>1, <1>2, <1>3, <1>4, <1>5, <1>6, <1>7, <1>8 DEF Next

LEMMA Invariant == Spec => []IInv
BY InitInv, Inductive, PTL DEF Spec

(* However many keys are tried, the table of counters stays within         *)
(* MAX_COUNTERS: a key that is new finds room, or room is made for it by a *)
(* sweep or an eviction (_make_room).                                      *)
THEOREM TableStaysBounded == Spec => []TableBounded
<1>1. IInv => TableBounded
  BY DEF IInv, Held, TableBounded
<1> QED BY <1>1, Invariant, PTL

(* Every request is counted under the machine that sent it, whatever it    *)
(* writes in the header, however its address is spelled and whichever way  *)
(* it came (client_ip).                                                    *)
THEOREM EveryoneIsChargedAlone == Spec => []ChargedToItsSender
<1>1. IInv => ChargedToItsSender
  BY DEF IInv
<1> QED BY <1>1, Invariant, PTL

(* The types of the table, the answers and the slots.                      *)
THEOREM Typed == Spec => []TypeOK
<1>1. IInv => TypeOK
  BY DEF IInv
<1> QED BY <1>1, Invariant, PTL

(* A wait that is asked of somebody comes true, and a second less would    *)
(* not (_decide).                                                          *)
THEOREM EveryWaitIsHonest == Spec => []WaitIsHonest
<1>1. IInv => WaitIsHonest
  BY WaitsAreHonest DEF IInv, TypeOK
<1> QED BY <1>1, Invariant, PTL

-----------------------------------------------------------------------------
(* The table implements SlidingWindow *)

LEMMA TouchedIs == TouchedNow = [c \in Counter |-> TouchIn(hits, c)]
BY DEF TouchedNow, TouchIn

(* A decision is one of the promise's.                                     *)
LEMMA HitRefines ==
  ASSUME IInv, UNCHANGED now, NEW c \in Counter, NEW sender, Hit(c, sender)
  PROVE  Promise!Admit(c) \/ Promise!Refuse(c)
<1> DEFINE deque == Live(hits, c, now)
           allowed == Len(deque) < Limit[c[1]]
<1>1. now \in Nat /\ Sound(hits) /\ Held(hits)
  BY DEF IInv, TypeOK
<1>2. /\ answer' = [asked |-> c, sender |-> sender, allowed |-> allowed,
                    retry_after |-> IF allowed THEN 0 ELSE RetryAfter(c, deque)]
      /\ ~allowed => Same(hits', hits)
      /\ allowed => \E K : /\ IF deque = <<>> THEN GivesUp(hits, K) ELSE K = {}
                           /\ c \notin K /\ Recorded(hits', c, K)
  BY <1>1, HitIs
<1>3. LiveNow[c] = deque /\ [d \in Counter |-> Limit[d[1]]][c] = Limit[c[1]]
  BY DEF LiveNow
<1>4. Len(deque) \in Nat /\ Limit[c[1]] \in Nat
  BY <1>1, LiveIs, Lengths DEF Sound
<1> HIDE DEF deque
<1>5. CASE ~allowed
  <2>1. LiveNow' = LiveNow
    BY <1>2, <1>5 DEF LiveNow, Same
  <2>2. TouchedNow' = TouchedNow
    BY <1>2, <1>5 DEF TouchedNow, TouchIn, Same
  <2>3. Len(LiveNow[c]) >= [d \in Counter |-> Limit[d[1]]][c]
    BY <1>3, <1>4, <1>5
  <2>4. [asked |-> answer.asked, allowed |-> answer.allowed]' = [asked |-> c, allowed |-> FALSE]
    <3>1. allowed = FALSE
      BY <1>5
    <3> HIDE DEF allowed
    <3>2. answer'.asked = c /\ answer'.allowed = allowed
      BY <1>2
    <3> QED BY <3>1, <3>2
  <2> QED BY <2>1, <2>2, <2>3, <2>4 DEF Promise!Refuse
<1>6. CASE allowed
  <2>1. PICK K : /\ IF deque = <<>> THEN GivesUp(hits, K) ELSE K = {}
                 /\ c \notin K /\ Recorded(hits', c, K)
    BY <1>2, <1>6
  <2>2. LiveNow' = [d \in Counter |-> IF d = c THEN Append(LiveNow[c], now)
                                      ELSE IF d \in K THEN <<>> ELSE LiveNow[d]]
    BY <2>1 DEF LiveNow, Recorded
  <2>3. TouchedNow' = [d \in Counter |-> IF d = c THEN now
                                         ELSE IF d \in K THEN Never ELSE TouchedNow[d]]
    BY <2>1 DEF TouchedNow, TouchIn, Recorded
  <2> DEFINE known == {d \in Counter : TouchIn(hits, d) # Never}
  <2>4. Promise!Touched = known
    BY DEF Promise!Touched, TouchedNow, TouchIn, Never, Promise!Never
  <2>5. K \in Promise!Forgettable(c)
    <3>1. CASE K = {}
      <4>1. Cardinality({}) <= EVICTION_BATCH
        BY FS_EmptySet, Bounds
      <4> QED BY <3>1, <4>1, SameCount DEF Promise!Forgettable
    <3>2. CASE K # {}
      <4>1. deque = <<>> /\ GivesUp(hits, K)
        BY <2>1, <3>2
      <4>2. /\ K \subseteq known /\ Cardinality(K) <= EVICTION_BATCH
            /\ Cardinality(known) >= MAX_COUNTERS
            /\ \A k \in K, o \in known \ K : TouchIn(hits, k) <= TouchIn(hits, o)
        BY <3>2, <4>1 DEF GivesUp
      <4>3. ~(Cardinality(known) < MAX_COUNTERS)
        <5>1. known \subseteq DOMAIN hits
          BY DEF TouchIn
        <5> HIDE DEF known
        <5>2. Cardinality(known) \in Nat
          BY <1>1, <5>1, FS_Subset, FS_CardinalityType DEF Held
        <5> QED BY <4>2, <5>2, Bounds
      <4>4. \A d \in known : d \in Counter /\ TouchedNow[d] = TouchIn(hits, d)
        BY TouchedIs
      <4> HIDE DEF known
      <4>5. LiveNow[c] = <<>> /\ K \in SUBSET (known \ {c})
        BY <1>3, <2>1, <4>1, <4>2
      <4>6. \A k \in K, o \in known \ K : TouchedNow[k] <= TouchedNow[o]
        BY <4>2, <4>4
      <4> QED BY <2>4, <4>2, <4>3, <4>5, <4>6, SameCount DEF Promise!Forgettable
    <3> QED BY <3>1, <3>2
  <2>6. Len(LiveNow[c]) < [d \in Counter |-> Limit[d[1]]][c]
    BY <1>3, <1>6
  <2>7. [asked |-> answer.asked, allowed |-> answer.allowed]' = [asked |-> c, allowed |-> TRUE]
    BY <1>2, <1>6
  <2> QED BY <2>2, <2>3, <2>5, <2>6, <2>7 DEF Promise!Admit, Never, Promise!Never
<1> QED BY <1>5, <1>6

(* As time passes the events leave what counts, and the counters what is   *)
(* of any interest, without the table being touched.                       *)
LEMMA TickRefines ==
  ASSUME IInv, Tick
  PROVE  Promise!Elapse
<1>1. /\ now \in Nat /\ Sound(hits) /\ now' = now + 1
      /\ UNCHANGED <<hits, answer>>
  BY DEF IInv, TypeOK, Tick
<1> DEFINE later == now + 1
<1>2. later \in Nat /\ now <= later
  BY <1>1
<1> HIDE DEF later
<1>3. ASSUME NEW c \in Counter
      PROVE  Live(hits, c, later) = Promise!After(Live(hits, c, now), later - Window[c[1]])
  <2>1. Live(hits, c, later) = Kept(Live(hits, c, now), later - Window[c[1]])
    BY <1>1, <1>2, LiveLater
  <2>2. IsDeque(Live(hits, c, now)) /\ later - Window[c[1]] \in Int
    BY <1>1, <1>2, LiveIs, Lengths DEF Sound
  <2> QED BY <2>1, <2>2, KeptIsAfter
<1>4. LiveNow' = [c \in Counter |-> Promise!After(LiveNow[c], later - [d \in Counter |-> Window[d[1]]][c])]
  BY <1>1, <1>3 DEF LiveNow, later
<1>5. TouchedNow' = [c \in Counter |-> IF TouchedNow[c] > later - LongestWindow
                                       THEN TouchedNow[c] ELSE Never]
  <2>1. \A c \in DOMAIN hits : Newest(hits[c]) \in Nat
    BY <1>1, HeldDeque DEF Sound
  <2>2. ASSUME NEW c \in Counter
        PROVE  (IF c \in DOMAIN hits /\ Newest(hits[c]) > later - LongestWindow
                THEN Newest(hits[c]) ELSE Never)
             = IF TouchIn(hits, c) > later - LongestWindow THEN TouchIn(hits, c) ELSE Never
    BY <1>1, <2>1, Lengths DEF TouchIn, Never, later
  <2> QED BY <1>1, <2>2, TouchedIs DEF TouchedNow, later
<1> QED BY <1>1, <1>4, <1>5 DEF Promise!Elapse, later, Never, Promise!Never

LEMMA RefinedInit == Init => Promise!Init
BY DEF Init, Promise!Init, LiveNow, TouchedNow, Live, Never, Promise!Never

(* Whoever is counted is one of the counters.                              *)
LEMMA CountedAs ==
  ASSUME IInv
  PROVE  /\ \A client \in Sender, rule \in Rule \ {"login_email"} :
               (\E ip \in Key(client) : Hit(<<rule, ip>>, client))
                  => \E c \in Counter : Hit(c, client)
         /\ \A a \in Attempt : busy = a => <<"login_email", attempt[a].email>> \in Counter
<1>1. ASSUME NEW client \in Sender, NEW rule \in Rule \ {"login_email"},
             \E ip \in Key(client) : Hit(<<rule, ip>>, client)
      PROVE  \E c \in Counter : Hit(c, client)
  BY <1>1, KeyIsSender, Counters
<1>2. ASSUME NEW a \in Attempt, busy = a
      PROVE  <<"login_email", attempt[a].email>> \in Counter
  BY <1>2, Counters DEF IInv, SlotsOK
<1> QED BY <1>1, <1>2

LEMMA RefinedNext == IInv /\ [Next]_vars => [Promise!Next]_(Promise!vars)
<1> SUFFICES ASSUME IInv, [Next]_vars PROVE [Promise!Next]_(Promise!vars)
  OBVIOUS
<1>1. ASSUME UNCHANGED now, NEW client \in Sender, NEW rule \in Rule \ {"login_email"},
             \E ip \in Key(client) : Hit(<<rule, ip>>, client)
      PROVE  Promise!Next
  BY <1>1, CountedAs, HitRefines DEF Promise!Next
<1>2. ASSUME NEW a \in Attempt, NEW client \in Sender, NEW email \in Email,
             Login(a, client, email)
      PROVE  Promise!Next
  BY <1>1, <1>2 DEF Login, Rule
<1>3. ASSUME NEW a \in Attempt, CountEmail(a) PROVE Promise!Next
  <2>1. PICK c \in Counter : Hit(c, answer.sender) /\ UNCHANGED now
    BY <1>3, CountedAs DEF CountEmail
  <2> QED BY <2>1, HitRefines DEF Promise!Next
<1>4. ASSUME NEW a \in Attempt, Succeed(a) PROVE Promise!Next
  <2> DEFINE c == <<"login_email", attempt[a].email>>
  <2>1. /\ UNCHANGED <<now, answer>> /\ c \in Counter
        /\ DOMAIN hits' = DOMAIN hits \ {c} /\ \A d \in DOMAIN hits' : hits'[d] = hits[d]
    BY <1>4, Counters DEF Succeed, Restrict, IInv, SlotsOK
  <2> HIDE DEF c
  <2>2. LiveNow' = [LiveNow EXCEPT ![c] = <<>>]
    BY <2>1 DEF LiveNow, Live
  <2>3. TouchedNow' = [TouchedNow EXCEPT ![c] = Never]
    BY <2>1 DEF TouchedNow
  <2>4. Promise!Clear(c)
    BY <2>1, <2>2, <2>3 DEF Promise!Clear, Never, Promise!Never
  <2> QED BY <2>1, <2>4 DEF Promise!Next
<1>5. ASSUME NEW client \in Sender, Ask("refresh_ip", client) \/ Ask("demo_ip", client)
      PROVE  Promise!Next
  <2>1. PICK rule \in Rule \ {"login_email"} : Ask(rule, client)
    BY <1>5 DEF Rule
  <2> QED BY <1>1, <2>1 DEF Ask
<1>6. CASE Restart
  <2>1. DOMAIN hits' = {} /\ UNCHANGED <<now, answer>>
    BY <1>6 DEF Restart
  <2> QED BY <2>1 DEF Promise!Next, Promise!Restart, LiveNow, TouchedNow, Live, Never, Promise!Never
<1>7. CASE Tick
  BY <1>7, TickRefines DEF Promise!Next
<1>8. ASSUME UNCHANGED <<now, hits, answer>> PROVE UNCHANGED Promise!vars
  BY <1>8 DEF Promise!vars, LiveNow, TouchedNow
<1>9. ASSUME NEW a \in Attempt, Fail(a) PROVE UNCHANGED <<now, hits, answer>>
  BY <1>9 DEF Fail
<1>10. CASE UNCHANGED vars
  BY <1>8, <1>10 DEF vars
<1> QED BY <1>2, <1>3, <1>4, <1>5, <1>6, <1>7, <1>8, <1>9, <1>10 DEF Next

(* The lazy table, cut when it is asked, swept when that is due and        *)
(* evicted when it is full, answers as one that knows every event inside   *)
(* every window (the docstrings of ratelimit.py).                          *)
THEOREM TableKeepsThePromise == Spec => ImplementsWindow
BY RefinedInit, RefinedNext, Invariant, PTL DEF Spec, Promise!Spec, ImplementsWindow

-----------------------------------------------------------------------------
(* Attempts are counted: each has an event of its own *)

(* The logins under way for an address that were let in within one window, *)
(* less those whose counter is gone since.                                 *)
LetIn(e) == {a \in Attempt : /\ attempt[a].pc = "verify" /\ attempt[a].email = e
                             /\ ~attempt[a].forgiven
                             /\ attempt[a].since > now - Window["login_email"]}

(* Each of A has an event of its own in the deque, of the time it came.    *)
Counts(deque, A, since) ==
    \E f \in [A -> 1 .. Len(deque)] :
        /\ \A a, b \in A : f[a] = f[b] => a = b
        /\ \A a \in A : deque[f[a]] = since[a]

Since == [a \in Attempt |-> attempt[a].since]

CountInv == \A e \in Email : Counts(Live(hits, EmailCounter(e), now), LetIn(e), Since)

LEMMA FewerCount ==
  ASSUME NEW deque, NEW A, NEW B, B \subseteq A, NEW one, NEW other,
         \A a \in B : other[a] = one[a], Counts(deque, A, one)
  PROVE  Counts(deque, B, other)
<1>1. PICK f \in [A -> 1 .. Len(deque)] : /\ \A a, b \in A : f[a] = f[b] => a = b
                                          /\ \A a \in A : deque[f[a]] = one[a]
  BY DEF Counts
<1> DEFINE g == [a \in B |-> f[a]]
<1>2. g \in [B -> 1 .. Len(deque)]
  BY <1>1
<1>3. /\ \A a, b \in B : g[a] = g[b] => a = b
      /\ \A a \in B : deque[g[a]] = other[a]
  BY <1>1
<1> QED BY <1>2, <1>3 DEF Counts

(* Events that are not of the past stay when the deque is cut.             *)
LEMMA LaterCount ==
  ASSUME NEW deque, IsDeque(deque), NEW cutoff \in Int, NEW A, NEW since,
         \A a \in A : since[a] > cutoff, Counts(deque, A, since)
  PROVE  Counts(Kept(deque, cutoff), A, since)
<1> DEFINE n == Popped(deque, cutoff)
           kept == Kept(deque, cutoff)
<1>1. PICK f \in [A -> 1 .. Len(deque)] : /\ \A a, b \in A : f[a] = f[b] => a = b
                                          /\ \A a \in A : deque[f[a]] = since[a]
  BY DEF Counts
<1>2. /\ n \in 0 .. Len(deque) /\ Len(kept) = Len(deque) - n
      /\ \A i \in 1 .. Len(kept) : kept[i] = deque[n + i]
  BY KeptIs
<1>3. \A i \in 1 .. n : deque[i] <= cutoff
  BY PoppedIs
<1>4. Len(deque) \in Nat /\ \A i \in 1 .. Len(deque) : deque[i] \in Nat
  BY DEF IsDeque
<1> HIDE DEF n, kept
<1>5. ASSUME NEW a \in A PROVE f[a] - n \in 1 .. Len(kept) /\ n + (f[a] - n) = f[a]
  <2>1. f[a] \in 1 .. Len(deque) /\ deque[f[a]] > cutoff
    BY <1>1
  <2>2. f[a] \notin 1 .. n
    BY <1>3, <1>4, <2>1
  <2> QED BY <1>2, <1>4, <2>1, <2>2
<1> DEFINE g == [a \in A |-> f[a] - n]
<1>6. g \in [A -> 1 .. Len(kept)]
  BY <1>5
<1>7. \A a \in A : kept[g[a]] = since[a]
  BY <1>1, <1>2, <1>5
<1>8. \A a, b \in A : g[a] = g[b] => a = b
  <2> SUFFICES ASSUME NEW a \in A, NEW b \in A, g[a] = g[b] PROVE a = b
    OBVIOUS
  <2>1. f[a] - n = f[b] - n /\ f[a] = n + (f[a] - n) /\ f[b] = n + (f[b] - n)
    BY <1>5
  <2>2. f[a] = f[b]
    BY <2>1
  <2> QED BY <1>1, <2>2
<1> QED BY <1>6, <1>7, <1>8 DEF Counts, kept

(* A new event counts one more.                                            *)
LEMMA OneMoreCounts ==
  ASSUME NEW deque, IsDeque(deque), NEW t \in Nat, NEW A, NEW new, NEW since,
         since[new] = t, Counts(deque, A \ {new}, since)
  PROVE  Counts(Append(deque, t), A, since)
<1> DEFINE more == Append(deque, t)
           last == Len(deque) + 1
<1>1. PICK f \in [A \ {new} -> 1 .. Len(deque)] :
          /\ \A a, b \in A \ {new} : f[a] = f[b] => a = b
          /\ \A a \in A \ {new} : deque[f[a]] = since[a]
  BY DEF Counts
<1>2. deque \in Seq(Nat) /\ Len(deque) \in Nat
  BY DEF IsDeque
<1>3. /\ Len(more) = last /\ more[last] = t
      /\ \A i \in 1 .. Len(deque) : more[i] = deque[i]
  BY <1>2, AppendProperties
<1> HIDE DEF more
<1> DEFINE g == [a \in A |-> IF a = new THEN last ELSE f[a]]
<1>4. g \in [A -> 1 .. Len(more)]
  BY <1>1, <1>2, <1>3
<1>5. \A a \in A : more[g[a]] = since[a]
  BY <1>1, <1>3
<1>6. \A a \in A \ {new} : f[a] # last
  BY <1>1, <1>2
<1>7. \A a, b \in A : g[a] = g[b] => a = b
  BY <1>1, <1>6
<1> QED BY <1>4, <1>5, <1>7 DEF Counts, more

(* No more than there are events.                                          *)
LEMMA CountedAtMost ==
  ASSUME NEW deque, IsDeque(deque), NEW A, NEW since, Counts(deque, A, since)
  PROVE  IsFiniteSet(A) /\ Cardinality(A) <= Len(deque)
<1>1. PICK f \in [A -> 1 .. Len(deque)] : \A a, b \in A : f[a] = f[b] => a = b
  BY DEF Counts
<1>2. f \in Injection(A, 1 .. Len(deque))
  BY <1>1 DEF Injection, IsInjective
<1>3. PICK n \in Nat : n = Len(deque)
  BY DEF IsDeque
<1>4. IsFiniteSet(1 .. n) /\ Cardinality(1 .. n) = n
  BY FS_Interval
<1> QED BY <1>2, <1>3, <1>4, FS_Injection

(* The counters a decision is not about stay as they are, or go.           *)
LEMMA OthersStay ==
  ASSUME NEW c, NEW sender, Hit(c, sender), NEW d \in DOMAIN hits', d # c
  PROVE  d \in DOMAIN hits /\ hits'[d] = hits[d]
<1> DEFINE due == IF SweepDue THEN Swept(hits) ELSE hits
           deque == Live(due, c, now)
           table == Pruned(due, c, now)
           Part(part, whole) == \A k \in DOMAIN part : k # c =>
                                   k \in DOMAIN whole /\ part[k] = whole[k]
<1>1. \A any : Part(Swept(any), any)
  BY DEF Swept, Restrict
<1>2. Part(due, hits)
  BY <1>1
<1> HIDE DEF due
<1>3. Part(table, due)
  BY DEF Pruned
<1>4. \A room \in Rooms(table) : Part(room, table)
  <2> HIDE DEF table, deque
  <2>1. \A K : Part(Restrict(Swept(table), DOMAIN Swept(table) \ K), Swept(table))
    BY DEF Restrict
  <2> SUFFICES ASSUME NEW room \in Rooms(table) PROVE Part(room, table)
    OBVIOUS
  <2>2. \/ room = table \/ room = Swept(table)
        \/ \E K : room = Restrict(Swept(table), DOMAIN Swept(table) \ K)
    BY DEF Rooms
  <2>3. Part(table, table) /\ Part(Swept(table), table)
    BY <1>1
  <2>4. ASSUME NEW K PROVE Part(Restrict(Swept(table), DOMAIN Swept(table) \ K), table)
    BY <2>1, <2>3
  <2> HIDE DEF Part
  <2> QED BY <2>2, <2>3, <2>4
<1>5. \/ \E room \in Rooms(table) : hits' = With(room, c, <<now>>)
      \/ hits' = With(table, c, Append(deque, now))
      \/ hits' = table
  BY DEF Hit, Refused, due
<1>6. \A any, events : Part(With(any, c, events), any)
  BY DEF With
<1> HIDE DEF table, deque, Part
<1>7. \E part : Part(hits', part) /\ Part(part, table)
  <2>1. Part(table, table)
    BY DEF Part
  <2> QED BY <1>4, <1>5, <1>6, <2>1
<1> QED BY <1>2, <1>3, <1>7 DEF Part

(* What a decision does to an address's counter.                           *)
LEMMA EmailAfterHit ==
  ASSUME IInv, UNCHANGED now, NEW c \in Counter, NEW sender, Hit(c, sender),
         NEW e \in Email
  PROVE  LET d == EmailCounter(e) IN
         \/ d \in DOMAIN hits \ DOMAIN hits'
         \/ Live(hits', d, now) = Live(hits, d, now) /\ (d = c => ~answer'.allowed)
         \/ d = c /\ answer'.allowed /\ Live(hits', d, now) = Append(Live(hits, d, now), now)
<1> DEFINE d == EmailCounter(e)
<1>1. d \in Counter
  BY Counters DEF EmailCounter
<1>2. now \in Nat /\ Sound(hits) /\ Held(hits)
  BY DEF IInv, TypeOK
<1> HIDE DEF d
<1>3. CASE d # c
  <2>1. CASE d \in DOMAIN hits'
    BY <1>3, <2>1, OthersStay DEF Live, d
  <2>2. CASE d \notin DOMAIN hits' /\ d \notin DOMAIN hits
    BY <1>3, <2>2 DEF Live, d
  <2> QED BY <2>1, <2>2 DEF d
<1>4. CASE d = c
  <2> DEFINE allowed == Len(Live(hits, c, now)) < Limit[c[1]]
  <2>1. /\ answer' = [asked |-> c, sender |-> sender, allowed |-> allowed,
                      retry_after |-> IF allowed THEN 0 ELSE RetryAfter(c, Live(hits, c, now))]
        /\ ~allowed => Same(hits', hits)
        /\ allowed => \E K : Recorded(hits', c, K)
    BY <1>2, HitIs
  <2> HIDE DEF allowed
  <2>2. answer'.allowed = allowed
    BY <2>1
  <2>3. CASE ~allowed
    <3>1. Live(hits', d, now) = Live(hits, d, now)
      BY <1>1, <2>1, <2>3 DEF Same
    <3>2. ~answer'.allowed
      BY <2>2, <2>3
    <3> QED BY <3>1, <3>2 DEF d
  <2>4. CASE allowed
    <3>1. Live(hits', d, now) = Append(Live(hits, d, now), now)
      BY <1>1, <1>4, <2>1, <2>4 DEF Recorded
    <3>2. answer'.allowed
      BY <2>2, <2>4
    <3> QED BY <1>4, <3>1, <3>2 DEF d
  <2> QED BY <2>3, <2>4
<1> QED BY <1>3, <1>4 DEF d

(* The logins let in, by the slots s.                                      *)
LetInOf(s, e) == {a \in Attempt : /\ s[a].pc = "verify" /\ s[a].email = e /\ ~s[a].forgiven
                                  /\ s[a].since > now - Window["login_email"]}

LEMMA NobodyCounts ==
  ASSUME NEW deque, NEW since
  PROVE  Counts(deque, {}, since)
<1>1. [a \in {} |-> 0] \in [{} -> 1 .. Len(deque)]
  OBVIOUS
<1> QED BY <1>1 DEF Counts

(* Once an address's counter is gone, so are those it counted.             *)
LEMMA GoneAreForgiven ==
  ASSUME NEW slots, slots \in Slots, NEW e, attempt' = Forgiven(slots), UNCHANGED now
  PROVE  /\ LetIn(e)' \subseteq LetInOf(slots, e)
         /\ \A a \in Attempt : Since'[a] = slots[a].since
         /\ EmailCounter(e) \in DOMAIN hits \ DOMAIN hits' => LetIn(e)' = {}
<1>1. \A a \in Attempt :
         /\ attempt'[a].pc = slots[a].pc /\ attempt'[a].email = slots[a].email
         /\ attempt'[a].since = slots[a].since
         /\ attempt'[a].forgiven
               <=> \/ slots[a].forgiven
                   \/ /\ slots[a].pc = "verify"
                      /\ EmailCounter(slots[a].email) \in DOMAIN hits \ DOMAIN hits'
  BY ForgivenTyped
<1>2. ASSUME NEW a \in LetIn(e)'
      PROVE  /\ a \in LetInOf(slots, e)
             /\ EmailCounter(e) \notin DOMAIN hits \ DOMAIN hits'
  BY <1>1 DEF LetIn, LetInOf
<1>3. \A a \in Attempt : Since'[a] = slots[a].since
  BY <1>1 DEF Since
<1> QED BY <1>2, <1>3

(* A decision keeps the account of an address: whoever it lets in gains an *)
(* event, and nobody else is let in.                                       *)
LEMMA HitCounts ==
  ASSUME IInv, CountInv, UNCHANGED now, NEW c \in Counter, NEW sender, Hit(c, sender),
         NEW slots, slots \in Slots, attempt' = Forgiven(slots), NEW e \in Email,
         \A a \in LetIn(e) : slots[a].since = attempt[a].since,
         IF c = EmailCounter(e) /\ answer'.allowed
         THEN \E new \in Attempt : /\ slots[new].since = now
                                   /\ LetInOf(slots, e) \ {new} \subseteq LetIn(e)
         ELSE LetInOf(slots, e) \subseteq LetIn(e)
  PROVE  Counts(Live(hits', EmailCounter(e), now), LetIn(e)', Since')
<1> DEFINE d == EmailCounter(e)
           deque == Live(hits, d, now)
<1>1. now \in Nat /\ d \in Counter /\ Sound(hits)
  BY Counters DEF IInv, TypeOK, EmailCounter
<1>2. IsDeque(deque) /\ Counts(deque, LetIn(e), Since)
  BY <1>1, LiveIs DEF Sound, CountInv
<1>3. /\ LetIn(e)' \subseteq LetInOf(slots, e)
      /\ \A a \in Attempt : Since'[a] = slots[a].since
      /\ d \in DOMAIN hits \ DOMAIN hits' => LetIn(e)' = {}
  BY GoneAreForgiven
<1>4. \A a \in LetIn(e) : a \in Attempt /\ Since'[a] = Since[a]
  BY <1>3 DEF LetIn, Since
<1> HIDE DEF d, deque
<1>5. \/ d \in DOMAIN hits \ DOMAIN hits'
      \/ Live(hits', d, now) = deque /\ (d = c => ~answer'.allowed)
      \/ d = c /\ answer'.allowed /\ Live(hits', d, now) = Append(deque, now)
  BY EmailAfterHit DEF d, deque
<1>6. CASE d \in DOMAIN hits \ DOMAIN hits'
  BY <1>3, <1>6, NobodyCounts DEF d
<1>7. CASE Live(hits', d, now) = deque /\ (d = c => ~answer'.allowed)
  <2>1. LetIn(e)' \subseteq LetIn(e)
    BY <1>3, <1>7 DEF d
  <2>2. Counts(deque, LetIn(e)', Since')
    BY <1>2, <1>4, <2>1, FewerCount
  <2> QED BY <1>7, <2>2 DEF d
<1>8. CASE d = c /\ answer'.allowed /\ Live(hits', d, now) = Append(deque, now)
  <2>1. PICK new \in Attempt : slots[new].since = now /\ LetInOf(slots, e) \ {new} \subseteq LetIn(e)
    BY <1>8 DEF d
  <2>2. LetIn(e)' \ {new} \subseteq LetIn(e) /\ Since'[new] = now
    BY <1>3, <2>1
  <2>3. Counts(deque, LetIn(e)' \ {new}, Since')
    BY <1>2, <1>4, <2>2, FewerCount
  <2>4. Counts(Append(deque, now), LetIn(e)', Since')
    BY <1>1, <1>2, <2>2, <2>3, OneMoreCounts
  <2> QED BY <1>8, <2>4 DEF d
<1> QED BY <1>5, <1>6, <1>7, <1>8

LEMMA CountInit == Init => CountInv
<1> SUFFICES ASSUME Init, NEW e \in Email
             PROVE  Counts(Live(hits, EmailCounter(e), now), LetIn(e), Since)
  BY DEF CountInv
<1>1. LetIn(e) = {}
  BY DEF Init, LetIn, Idle
<1> QED BY <1>1, NobodyCounts

LEMMA CountStep == IInv /\ CountInv /\ [Next]_vars => CountInv'
<1> SUFFICES ASSUME IInv, CountInv, [Next]_vars, NEW e \in Email
             PROVE  Counts(Live(hits', EmailCounter(e), now'), LetIn(e)', Since')
  BY DEF CountInv
<1> DEFINE d == EmailCounter(e)
           deque == Live(hits, d, now)
<1>0. /\ now \in Nat /\ d \in Counter /\ Sound(hits) /\ attempt \in Slots
      /\ busy \in Attempt => attempt[busy].pc = "counted"
      /\ Counts(deque, LetIn(e), Since)
  BY Counters DEF IInv, TypeOK, EmailCounter, Slots, SlotsOK, CountInv
<1>1. ASSUME NEW a \in Attempt, NEW client \in Sender, NEW email \in Email,
             Login(a, client, email)
      PROVE  Counts(Live(hits', d, now'), LetIn(e)', Since')
  <2> DEFINE slots == IF answer'.allowed
                      THEN [attempt EXCEPT ![a] = [Idle EXCEPT !.pc = "counted", !.email = email]]
                      ELSE attempt
  <2>1. /\ UNCHANGED now /\ attempt[a].pc = "idle" /\ attempt' = Forgiven(slots)
    BY <1>1 DEF Login
  <2>2. PICK ip \in Key(client) : Hit(<<"login_ip", ip>>, client)
    BY <1>1 DEF Login
  <2>3. PICK c \in Counter : c = <<"login_ip", ip>> /\ c # d
    <3>1. <<"login_ip", client>> \in Counter /\ <<"login_ip", ip>> # d
      BY Counters DEF Rule, EmailCounter
    <3>2. ip = client
      BY KeyIsSender
    <3> QED BY <3>1, <3>2
  <2>4. /\ slots \in Slots /\ LetInOf(slots, e) \subseteq LetIn(e)
        /\ \A b \in LetIn(e) : slots[b].since = attempt[b].since
    BY <1>0, <2>1 DEF Idle, Slots, LetInOf, LetIn
  <2> HIDE DEF slots
  <2>5. Counts(Live(hits', d, now), LetIn(e)', Since')
    BY <2>1, <2>2, <2>3, <2>4, HitCounts
  <2> QED BY <2>1, <2>5
<1>2. ASSUME NEW a \in Attempt, CountEmail(a)
      PROVE  Counts(Live(hits', d, now'), LetIn(e)', Since')
  <2> DEFINE next == IF answer'.allowed
                     THEN [attempt[a] EXCEPT !.pc = "verify", !.since = now] ELSE Idle
             slots == [attempt EXCEPT ![a] = next]
             c == EmailCounter(attempt[a].email)
  <2>1. /\ UNCHANGED now /\ busy = a /\ attempt' = Forgiven(slots)
        /\ Hit(c, answer.sender) /\ attempt[a].pc = "counted" /\ c \in Counter
    BY <1>0, <1>2, CountedAs DEF CountEmail, EmailCounter
  <2>2. slots \in Slots
    BY <1>0 DEF Idle, Slots
  <2>3. \A b \in LetIn(e) : b # a /\ slots[b].since = attempt[b].since
    BY <1>0, <2>1 DEF LetIn, Slots
  <2>4. LetInOf(slots, e) \ {a} \subseteq LetIn(e)
    BY <1>0 DEF LetIn, LetInOf, Slots
  <2>5. ASSUME answer'.allowed PROVE slots[a].since = now /\ slots[a].email = attempt[a].email
    BY <1>0, <2>5 DEF Slots
  <2>6. ASSUME ~answer'.allowed PROVE a \notin LetInOf(slots, e)
    BY <1>0, <2>6 DEF LetInOf, Idle, Slots
  <2>7. (a \in LetInOf(slots, e) /\ answer'.allowed) => c = d
    BY <2>5 DEF LetInOf, EmailCounter
  <2> HIDE DEF slots, c, d
  <2>8. IF c = d /\ answer'.allowed
        THEN \E new \in Attempt : /\ slots[new].since = now
                                  /\ LetInOf(slots, e) \ {new} \subseteq LetIn(e)
        ELSE LetInOf(slots, e) \subseteq LetIn(e)
    BY <2>4, <2>5, <2>6, <2>7
  <2>9. Counts(Live(hits', d, now), LetIn(e)', Since')
    BY <2>1, <2>2, <2>3, <2>8, HitCounts DEF d
  <2> QED BY <2>1, <2>9
<1>3. ASSUME NEW a \in Attempt, Succeed(a)
      PROVE  Counts(Live(hits', d, now'), LetIn(e)', Since')
  <2> DEFINE slots == [attempt EXCEPT ![a] = Idle]
             c == EmailCounter(attempt[a].email)
  <2>1. /\ UNCHANGED now /\ attempt' = Forgiven(slots)
        /\ DOMAIN hits' = DOMAIN hits \ {c} /\ \A k \in DOMAIN hits' : hits'[k] = hits[k]
    BY <1>3 DEF Succeed, Restrict, EmailCounter
  <2>2. slots \in Slots /\ LetInOf(slots, e) \subseteq LetIn(e)
        /\ \A b \in LetInOf(slots, e) : slots[b].since = attempt[b].since
    BY <1>0 DEF Idle, Slots, LetInOf, LetIn
  <2> HIDE DEF slots, c
  <2>3. /\ LetIn(e)' \subseteq LetInOf(slots, e)
        /\ \A b \in Attempt : Since'[b] = slots[b].since
        /\ d \in DOMAIN hits \ DOMAIN hits' => LetIn(e)' = {}
    BY <2>1, <2>2, GoneAreForgiven
  <2>4. CASE d \in DOMAIN hits \ DOMAIN hits'
    BY <2>3, <2>4, NobodyCounts
  <2>5. CASE d \notin DOMAIN hits \ DOMAIN hits'
    <3>1. Live(hits', d, now) = deque
      BY <2>1, <2>5 DEF Live
    <3>2. \A b \in LetIn(e)' : Since'[b] = Since[b]
      BY <2>2, <2>3 DEF LetInOf, Since
    <3>3. Counts(deque, LetIn(e)', Since')
      BY <1>0, <2>2, <2>3, <3>2, FewerCount
    <3> QED BY <2>1, <3>1, <3>3
  <2> QED BY <2>4, <2>5
<1>4. ASSUME NEW client \in Sender, Ask("refresh_ip", client) \/ Ask("demo_ip", client)
      PROVE  Counts(Live(hits', d, now'), LetIn(e)', Since')
  <2>1. PICK rule \in Rule \ {"login_email"} : Ask(rule, client)
    BY <1>4 DEF Rule
  <2>2. UNCHANGED now /\ attempt' = Forgiven(attempt)
    BY <2>1 DEF Ask
  <2>3. PICK ip \in Key(client) : Hit(<<rule, ip>>, client)
    BY <2>1 DEF Ask
  <2>4. PICK c \in Counter : c = <<rule, ip>> /\ c # d
    BY KeyIsSender, Counters DEF Rule, EmailCounter
  <2>5. LetInOf(attempt, e) \subseteq LetIn(e)
    BY DEF LetInOf, LetIn
  <2>6. Counts(Live(hits', d, now), LetIn(e)', Since')
    BY <1>0, <2>2, <2>3, <2>4, <2>5, HitCounts
  <2> QED BY <2>2, <2>6
<1>5. CASE Restart
  <2>1. LetIn(e)' = {}
    BY <1>5 DEF Restart, LetIn, Idle
  <2> QED BY <2>1, NobodyCounts
<1>6. CASE Tick
  <2>1. UNCHANGED <<hits, attempt>> /\ now' = now + 1
    BY <1>6 DEF Tick
  <2> DEFINE later == now + 1
             cutoff == later - Window["login_email"]
  <2>2. later \in Nat /\ now <= later /\ cutoff \in Int /\ cutoff >= now - Window["login_email"]
    BY <1>0, Lengths DEF Rule
  <2>3. d[1] = "login_email"
    BY DEF EmailCounter
  <2> HIDE DEF d
  <2>4. IsDeque(deque) /\ Live(hits, d, later) = Kept(deque, cutoff)
    BY <1>0, <2>2, <2>3, LiveLater, LiveIs DEF Sound
  <2>5. /\ LetIn(e)' \subseteq LetIn(e) /\ Since' = Since
        /\ \A a \in LetIn(e)' : Since[a] > cutoff
    BY <1>0, <2>1, Lengths DEF LetIn, Since, Slots, Rule
  <2> HIDE DEF cutoff
  <2>6. Counts(deque, LetIn(e)', Since)
    BY <1>0, <2>5, FewerCount
  <2>7. Counts(Kept(deque, cutoff), LetIn(e)', Since)
    BY <2>2, <2>4, <2>5, <2>6, LaterCount
  <2> QED BY <2>1, <2>4, <2>5, <2>7 DEF d
<1>7. ASSUME NEW a \in Attempt, Fail(a)
      PROVE  Counts(Live(hits', d, now'), LetIn(e)', Since')
  <2>1. UNCHANGED <<now, hits>> /\ attempt' = [attempt EXCEPT ![a] = Idle]
    BY <1>7 DEF Fail
  <2>2. LetIn(e)' \subseteq LetIn(e) /\ \A b \in LetIn(e)' : Since'[b] = Since[b]
    BY <1>0, <2>1 DEF LetIn, Since, Slots, Idle
  <2>3. Counts(deque, LetIn(e)', Since')
    BY <1>0, <2>2, FewerCount
  <2> QED BY <2>1, <2>3
<1>8. CASE UNCHANGED vars
  BY <1>0, <1>8 DEF vars, LetIn, Since
<1> QED BY <1>1, <1>2, <1>3, <1>4, <1>5, <1>6, <1>7, <1>8 DEF Next

LEMMA CountInvariant == Spec => []CountInv
BY Invariant, CountInit, CountStep, PTL DEF Spec

(* Attempts that arrive together are counted together: each login under    *)
(* way has an event of its own in its address's deque, unless the counter  *)
(* was reset, evicted or lost since, and a deque never exceeds its limit   *)
(* (login counts on the way in).                                           *)
THEOREM EveryAttemptIsCounted == Spec => []AttemptsAreCounted
<1>1. IInv /\ CountInv => AttemptsAreCounted
  <2> SUFFICES ASSUME IInv, CountInv, NEW e \in Email
               PROVE  Cardinality(LetIn(e)) <= Limit["login_email"]
    BY DEF AttemptsAreCounted, LetIn
  <2> DEFINE d == EmailCounter(e)
             deque == Live(hits, d, now)
  <2>1. now \in Nat /\ Sound(hits) /\ d \in Counter /\ d[1] = "login_email"
    BY Counters DEF IInv, TypeOK, EmailCounter
  <2>2. IsDeque(deque) /\ Len(deque) \in Nat /\ Len(deque) <= Limit[d[1]] /\ Limit[d[1]] \in Nat
    BY <2>1, LiveIs, Lengths DEF Sound
  <2>3. Counts(deque, LetIn(e), Since)
    BY DEF CountInv
  <2> HIDE DEF d, deque
  <2>4. IsFiniteSet(LetIn(e)) /\ Cardinality(LetIn(e)) <= Len(deque)
    BY <2>2, <2>3, CountedAtMost
  <2>5. Cardinality(LetIn(e)) \in Nat
    BY <2>4, FS_CardinalityType
  <2> QED BY <2>1, <2>2, <2>4, <2>5
<1> QED BY <1>1, Invariant, CountInvariant, PTL
=============================================================================
