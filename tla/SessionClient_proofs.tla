------------------------ MODULE SessionClient_proofs ------------------------
(***************************************************************************)
(* Theorems about SessionClient, for any requests of the screens, any      *)
(* number of tokens and of presses.                                        *)
(***************************************************************************)
EXTENDS SessionClient, SequenceTheorems, TLAPS

(* What the tab holds, by its parts.                                       *)
Shape(s) ==
    /\ DOMAIN s = {"tab", "call", "shared"} /\ DOMAIN s.call = Caller
    /\ DOMAIN s.tab = {"access", "demo", "kept", "user", "demoEnded", "screen"}

(* What the start goes through before the page is mounted, and what may    *)
(* be sent again after an exchange.                                        *)
Phase == {"racing", "me", "resumed"}
Reading == {"asked", "welcome"} \cup Phase

PathOf(pc) ==
    CASE pc \in {"login", "logout"} -> pc
      [] pc = "door" -> "demo"
      [] pc \notin {"login", "logout", "door"} -> "read"

(* A caller's record says what the caller is about.                        *)
CallOK(r, c) ==
    /\ DOMAIN r = DOMAIN Idle
    /\ r.pc \in {"idle", "login", "door", "logout"} \cup Reading
    /\ r.wire # Silent => r.wire.path = PathOf(r.pc) /\ r.pc \notin {"idle", "racing"}
    /\ r.on # None => r.pc \in Reading
    /\ r.pc \in Phase => c = "boot"
    /\ r.pc = "logout" => c = "exit"
    /\ c = "boot" => ~r.signal

(* The tokens m there are, and the credentials X spent among them.         *)
IsOf(t, kind, m, X) == t # None => t \in DOMAIN m /\ m[t].kind = kind /\ t \notin X

TabOK(t, m, X) ==
    /\ IsOf(t.access, IF t.demo THEN "demo" ELSE "operator", m, X)
    /\ IsOf(t.kept, "demo", m, X)

(* One exchange at a door, with a credential for it that nobody spent.     *)
SharedOK(shared_, m, X) ==
    /\ DOMAIN shared_ \subseteq Exchange
    /\ \A e \in DOMAIN shared_ :
         /\ shared_[e].path = e[2]
         /\ e[2] = "refresh" => IsOf(shared_[e].cookie, "operator", m, X)
         /\ e[2] = "demo" => IsOf(shared_[e].bearer, "demo", m, X)
    /\ \A e, f \in DOMAIN shared_ : e[2] = f[2] => e = f

Core(s, m, X) ==
    /\ Shape(s) /\ TabOK(s.tab, m, X) /\ SharedOK(s.shared, m, X)
    /\ \A c \in Caller : CallOK(s.call[c], c)

(* While the start goes on nothing is shown, nobody is signed in and       *)
(* nobody else is about anything.                                          *)
Starting(s) ==
    s.call["boot"].pc \in Phase =>
        /\ s.tab.screen = "blank" /\ s.tab.user = None
        /\ \A c \in Caller \ {"boot"} : s.call[c].pc = "idle"

(* The token kept for a reload is the demonstration's that is held.        *)
Matches(s) == s.tab.kept # None => s.tab.demo /\ s.tab.access \in {s.tab.kept, None}
KeptOK(s) == s.call["boot"].pc = "racing" \/ Matches(s)

Sound(s, m, X) == Core(s, m, X) /\ Starting(s) /\ KeptOK(s)

(* The service numbers what it mints; nothing was spent twice, and the     *)
(* cookie of the jar not at all.                                           *)
ServiceOK(v) ==
    /\ DOMAIN v = {"minted", "stale", "ended"}
    /\ \E S : v.minted \in Seq(S)
    /\ v.stale \subseteq DOMAIN v.minted

Books ==
    /\ ServiceOK(service)
    /\ history.twice = {} /\ history.spent \subseteq Token
    /\ IsOf(jar, "operator", service.minted, history.spent)

IInv == Sound(Here, service.minted, history.spent) /\ Books

-----------------------------------------------------------------------------
(* The operators one by one: what each changes of the tab *)

LEMMA Callers ==
  /\ "boot" \in Caller /\ "form" \in Caller /\ "door" \in Caller /\ "exit" \in Caller
  /\ Reads \subseteq Caller /\ Writes \subseteq Caller
  /\ "boot" \notin Reads \cup Writes
BY ClientAssumption DEF Caller

LEMMA IdleFields ==
  /\ Idle.pc = "idle" /\ Idle.on = None /\ Idle.wire = Silent /\ Idle.signal = FALSE
  /\ DOMAIN Idle = {"pc", "wire", "on", "retried", "signal", "aborted"}
  /\ \A c : CallOK(Idle, c)
<1>1. /\ Idle.pc = "idle" /\ Idle.on = None /\ Idle.wire = Silent /\ Idle.signal = FALSE
      /\ DOMAIN Idle = {"pc", "wire", "on", "retried", "signal", "aborted"}
  BY DEF Idle
<1>2. \A c : CallOK(Idle, c)
  BY <1>1 DEF CallOK, Phase, Reading
<1> QED BY <1>1, <1>2

LEMMA SetAccessFields ==
  ASSUME NEW s, Shape(s), NEW t
  PROVE  LET n == SetAccessToken(s, t)
         IN /\ Shape(n) /\ n.call = s.call /\ n.shared = s.shared
            /\ n.tab.access = t /\ ~n.tab.demo /\ n.tab.kept = None
            /\ n.tab.user = s.tab.user /\ n.tab.screen = s.tab.screen
            /\ n.tab.demoEnded = s.tab.demoEnded
BY DEF Shape, SetAccessToken

LEMMA SetDemoFields ==
  ASSUME NEW s, Shape(s), NEW t
  PROVE  LET n == SetDemoToken(s, t)
         IN /\ Shape(n) /\ n.call = s.call /\ n.shared = s.shared
            /\ n.tab.access = t /\ (n.tab.demo <=> t # None) /\ n.tab.kept = t
            /\ n.tab.user = s.tab.user /\ n.tab.screen = s.tab.screen
            /\ n.tab.demoEnded = s.tab.demoEnded
BY DEF Shape, SetDemoToken

LEMMA AdoptFields ==
  ASSUME NEW s, Shape(s), NEW user
  PROVE  LET n == Adopt(s, user)
         IN /\ Shape(n) /\ n.call = s.call /\ n.shared = s.shared
            /\ n.tab.access = s.tab.access /\ n.tab.demo = s.tab.demo
            /\ n.tab.kept = s.tab.kept /\ n.tab.screen = s.tab.screen
            /\ n.tab.user = user
BY DEF Shape, Adopt

LEMMA ClearFields ==
  ASSUME NEW s, Shape(s)
  PROVE  LET n == Clear(s)
         IN /\ Shape(n) /\ n.call = s.call /\ n.shared = s.shared
            /\ n.tab.access = s.tab.access /\ n.tab.demo = s.tab.demo
            /\ n.tab.kept = s.tab.kept /\ n.tab.screen = s.tab.screen
            /\ n.tab.user = None
BY DEF Shape, Clear

LEMMA RestingFields ==
  ASSUME NEW s, Shape(s), NEW c \in Caller
  PROVE  LET n == Resting(s, c)
         IN /\ Shape(n) /\ n.tab = s.tab /\ n.shared = s.shared
            /\ n.call[c] = Idle /\ \A o \in Caller \ {c} : n.call[o] = s.call[o]
BY DEF Shape, Resting

(* Two records of a caller that differ at most in having been given up.    *)
Alike(r, q) ==
    /\ DOMAIN r = DOMAIN q
    /\ r.pc = q.pc /\ r.wire = q.wire /\ r.on = q.on /\ r.signal = q.signal

LEMMA AbortFields ==
  ASSUME NEW s, Shape(s), NEW callers,
         \A c \in Caller : DOMAIN s.call[c] = DOMAIN Idle
  PROVE  LET n == Abort(s, callers)
         IN /\ Shape(n) /\ n.tab = s.tab
            /\ DOMAIN n.shared \subseteq DOMAIN s.shared
            /\ \A e \in DOMAIN n.shared : n.shared[e] = s.shared[e]
            /\ \A c \in Caller : n.call[c] = Idle \/ Alike(n.call[c], s.call[c])
            /\ \A c \in Caller : \/ n.call[c].on = None
                                 \/ /\ n.call[c].on = s.call[c].on
                                    /\ n.call[c].on \in DOMAIN s.shared
                                         => n.call[c].on \in DOMAIN n.shared
<1> DEFINE gone == {c \in callers : s.call[c].signal}
           cut == {e \in DOMAIN s.shared : e[1] \in gone}
           after(c) == IF s.call[c].on \in cut \/ (c \in gone /\ s.call[c].on = None) THEN Idle
                       ELSE [s.call[c] EXCEPT !.aborted = @ \/ c \in gone]
           n == Abort(s, callers)
<1>1. n = [s EXCEPT !.call = [c \in Caller |-> after(c)],
                    !.shared = Restrict(s.shared, DOMAIN s.shared \ cut)]
  BY DEF Abort
<1>2. \A c \in Caller : after(c) = Idle \/ Alike(after(c), s.call[c])
  BY IdleFields DEF Alike
<1>3. \A c \in Caller : \/ after(c).on = None
                        \/ after(c).on = s.call[c].on /\ after(c).on \notin cut
  BY IdleFields
<1> HIDE DEF after, cut
<1>4. /\ DOMAIN n = DOMAIN s /\ n.tab = s.tab /\ n.call = [c \in Caller |-> after(c)]
      /\ n.shared = Restrict(s.shared, DOMAIN s.shared \ cut)
  BY <1>1 DEF Shape
<1>5. /\ DOMAIN n.shared \subseteq DOMAIN s.shared
      /\ \A e \in DOMAIN n.shared : n.shared[e] = s.shared[e]
  BY <1>4 DEF Restrict
<1>6. Shape(n)
  BY <1>4 DEF Shape
<1>7. \A c \in Caller : n.call[c] = after(c)
  BY <1>4
<1>8. \A c \in Caller : n.call[c] = Idle \/ Alike(n.call[c], s.call[c])
  BY <1>2, <1>7
<1>9. DOMAIN n.shared = DOMAIN s.shared \ cut
  BY <1>4 DEF Restrict
<1>10. \A c \in Caller : \/ n.call[c].on = None
                         \/ /\ n.call[c].on = s.call[c].on
                            /\ n.call[c].on \in DOMAIN s.shared
                                 => n.call[c].on \in DOMAIN n.shared
  BY <1>7, <1>3, <1>9
<1> QED BY <1>4, <1>5, <1>6, <1>8, <1>10

LEMMA AskingFields ==
  ASSUME NEW s, Shape(s), NEW c \in Caller, NEW pc, NEW path,
         DOMAIN s.call[c] = DOMAIN Idle
  PROVE  LET n == Asking(s, c, pc, path)
         IN /\ Shape(n) /\ n.tab = s.tab /\ n.shared = s.shared
            /\ \A o \in Caller \ {c} : n.call[o] = s.call[o]
            /\ DOMAIN n.call[c] = DOMAIN Idle
            /\ n.call[c].pc = pc /\ n.call[c].on = None
            /\ n.call[c].signal = s.call[c].signal
            /\ n.call[c].wire = Fetch(s, path) /\ Fetch(s, path).path = path
<1>1. Fetch(s, path).path = path
  BY DEF Fetch
<1> QED BY <1>1, IdleFields DEF Shape, Asking

-----------------------------------------------------------------------------
(* The operators one by one: what each keeps *)

(* The typing of a tab stands on its tokens alone.                         *)
LEMMA SetAccessKeeps ==
  ASSUME NEW s, NEW m, NEW X, Core(s, m, X), Starting(s), NEW t, IsOf(t, "operator", m, X)
  PROVE  /\ Sound(SetAccessToken(s, t), m, X) /\ Matches(SetAccessToken(s, t))
         /\ SetAccessToken(s, t).tab.kept = None
         /\ SetAccessToken(s, t).tab.user = s.tab.user
         /\ SetAccessToken(s, t).call = s.call
<1> DEFINE n == SetAccessToken(s, t)
<1>1. /\ Shape(n) /\ n.call = s.call /\ n.shared = s.shared
      /\ n.tab.access = t /\ ~n.tab.demo /\ n.tab.kept = None
      /\ n.tab.user = s.tab.user /\ n.tab.screen = s.tab.screen
  <2>1. Shape(s)
    BY DEF Core
  <2> QED BY <2>1, SetAccessFields
<1> HIDE DEF n
<1>2. TabOK(n.tab, m, X)
  BY <1>1 DEF TabOK, IsOf
<1>3. Core(n, m, X) /\ Starting(n) /\ Matches(n)
  BY <1>1, <1>2 DEF Core, Starting, Matches
<1> QED BY <1>1, <1>3 DEF Sound, KeptOK, n

LEMMA SetDemoKeeps ==
  ASSUME NEW s, NEW m, NEW X, Core(s, m, X), Starting(s), NEW t, IsOf(t, "demo", m, X)
  PROVE  /\ Sound(SetDemoToken(s, t), m, X) /\ Matches(SetDemoToken(s, t))
         /\ SetDemoToken(s, t).tab.kept = t
         /\ SetDemoToken(s, t).tab.user = s.tab.user
         /\ SetDemoToken(s, t).call = s.call
<1> DEFINE n == SetDemoToken(s, t)
<1>1. /\ Shape(n) /\ n.call = s.call /\ n.shared = s.shared
      /\ n.tab.access = t /\ (n.tab.demo <=> t # None) /\ n.tab.kept = t
      /\ n.tab.user = s.tab.user /\ n.tab.screen = s.tab.screen
  BY SetDemoFields DEF Core
<1> HIDE DEF n
<1>2. TabOK(n.tab, m, X)
  BY <1>1 DEF TabOK, IsOf
<1>3. Core(n, m, X) /\ Starting(n) /\ Matches(n)
  BY <1>1, <1>2 DEF Core, Starting, Matches
<1> QED BY <1>1, <1>3 DEF Sound, KeptOK, n

LEMMA AdoptKeeps ==
  ASSUME NEW s, NEW m, NEW X, Sound(s, m, X), NEW user,
         s.call["boot"].pc \notin Phase
  PROVE  Sound(Adopt(s, user), m, X) /\ Adopt(s, user).call = s.call
<1> DEFINE n == Adopt(s, user)
<1>1. /\ Shape(n) /\ n.call = s.call /\ n.shared = s.shared
      /\ n.tab.access = s.tab.access /\ n.tab.demo = s.tab.demo
      /\ n.tab.kept = s.tab.kept /\ n.tab.screen = s.tab.screen
  BY AdoptFields DEF Core, Sound
<1> HIDE DEF n
<1>2. TabOK(n.tab, m, X)
  BY <1>1 DEF TabOK, IsOf, Sound, Core
<1>3. Core(n, m, X) /\ Starting(n) /\ KeptOK(n)
  BY <1>1, <1>2 DEF Core, Starting, Matches, KeptOK, Sound
<1> QED BY <1>1, <1>3 DEF Sound, n

LEMMA ClearKeeps ==
  ASSUME NEW s, NEW m, NEW X, Sound(s, m, X)
  PROVE  /\ Sound(Clear(s), m, X) /\ Clear(s).call = s.call
         /\ Matches(s) => Matches(Clear(s))
         /\ Clear(s).tab.user = None
<1> DEFINE n == Clear(s)
<1>1. /\ Shape(n) /\ n.call = s.call /\ n.shared = s.shared
      /\ n.tab.access = s.tab.access /\ n.tab.demo = s.tab.demo
      /\ n.tab.kept = s.tab.kept /\ n.tab.screen = s.tab.screen
      /\ n.tab.user = None
  BY ClearFields DEF Core, Sound
<1> HIDE DEF n
<1>2. TabOK(n.tab, m, X)
  BY <1>1 DEF TabOK, IsOf, Sound, Core
<1>3. Core(n, m, X) /\ Starting(n) /\ KeptOK(n)
  BY <1>1, <1>2 DEF Core, Starting, Matches, KeptOK, Sound
<1> QED BY <1>1, <1>3 DEF Sound, n, Matches

(* A caller lets go; the start only when nothing is kept amiss.            *)
LEMMA RestingKeeps ==
  ASSUME NEW s, NEW m, NEW X, Core(s, m, X), Starting(s), NEW c \in Caller,
         Matches(s) \/ (c # "boot" /\ KeptOK(s))
  PROVE  /\ Sound(Resting(s, c), m, X) /\ Resting(s, c).tab = s.tab
         /\ Resting(s, c).call[c] = Idle
         /\ \A o \in Caller \ {c} : Resting(s, c).call[o] = s.call[o]
<1> DEFINE n == Resting(s, c)
<1>1. /\ Shape(n) /\ n.tab = s.tab /\ n.shared = s.shared
      /\ n.call[c] = Idle /\ \A o \in Caller \ {c} : n.call[o] = s.call[o]
  BY RestingFields DEF Core
<1> HIDE DEF n
<1>2. Core(n, m, X)
  BY <1>1, IdleFields DEF Core
<1>3. Starting(n)
  BY <1>1, IdleFields, Callers DEF Starting, Phase
<1>4. KeptOK(n)
  BY <1>1, IdleFields, Callers DEF KeptOK, Matches
<1> QED BY <1>1, <1>2, <1>3, <1>4 DEF Sound, n

(* Giving up calls leaves the tab alone, and of the calls less than there  *)
(* was.                                                                    *)
LEMMA AbortKeeps ==
  ASSUME NEW s, NEW m, NEW X, Core(s, m, X), Starting(s), Matches(s), NEW callers
  PROVE  /\ Sound(Abort(s, callers), m, X) /\ Abort(s, callers).tab = s.tab
         /\ \A c \in Caller : Abort(s, callers).call[c].pc \in {"idle", s.call[c].pc}
<1> DEFINE n == Abort(s, callers)
<1>1. /\ Shape(n) /\ n.tab = s.tab
      /\ DOMAIN n.shared \subseteq DOMAIN s.shared
      /\ \A e \in DOMAIN n.shared : n.shared[e] = s.shared[e]
      /\ \A c \in Caller : n.call[c] = Idle \/ Alike(n.call[c], s.call[c])
  <2>1. Shape(s) /\ \A c \in Caller : DOMAIN s.call[c] = DOMAIN Idle
    BY DEF Core, CallOK
  <2> QED BY <2>1, AbortFields, Zenon
<1> HIDE DEF n
<1>2. \A c \in Caller : CallOK(n.call[c], c) /\ n.call[c].pc \in {"idle", s.call[c].pc}
  <2> TAKE c \in Caller
  <2>1. CASE n.call[c] = Idle
    BY <2>1, IdleFields
  <2>2. CASE Alike(n.call[c], s.call[c])
    BY <2>2 DEF Core, CallOK, Alike
  <2> QED BY <1>1, <2>1, <2>2
<1>3. SharedOK(n.shared, m, X)
  BY <1>1 DEF SharedOK, Core
<1>4. Core(n, m, X)
  BY <1>1, <1>2, <1>3 DEF Core
<1>5. Starting(n) /\ KeptOK(n)
  BY <1>1, <1>2, Callers DEF Starting, KeptOK, Matches, Phase
<1> QED BY <1>1, <1>2, <1>4, <1>5 DEF Sound, n

(* A caller asks anew: the start for itself, somebody else when the start  *)
(* is over.                                                                *)
LEMMA AskingKeeps ==
  ASSUME NEW s, NEW m, NEW X, Core(s, m, X), Starting(s), Matches(s),
         NEW c \in Caller, NEW pc, NEW path,
         pc \in {"login", "door", "logout", "asked", "welcome", "me", "resumed"},
         path = PathOf(pc),
         pc = "logout" => c = "exit",
         IF pc \in Phase
         THEN c = "boot" /\ s.call["boot"].pc \in Phase
         ELSE c = "boot" \/ s.call["boot"].pc \notin Phase
  PROVE  /\ Sound(Asking(s, c, pc, path), m, X)
         /\ Asking(s, c, pc, path).tab = s.tab
<1> DEFINE n == Asking(s, c, pc, path)
<1>0. Shape(s) /\ CallOK(s.call[c], c) /\ DOMAIN s.call[c] = DOMAIN Idle
  BY DEF Core, CallOK
<1>1. /\ Shape(n) /\ n.tab = s.tab /\ n.shared = s.shared
      /\ \A o \in Caller \ {c} : n.call[o] = s.call[o]
      /\ DOMAIN n.call[c] = DOMAIN Idle
      /\ n.call[c].pc = pc /\ n.call[c].on = None
      /\ n.call[c].signal = s.call[c].signal
      /\ n.call[c].wire.path = path
  BY <1>0, AskingFields
<1> HIDE DEF n
<1>2. CallOK(n.call[c], c)
  BY <1>0, <1>1 DEF CallOK, Phase, Reading
<1>3. Core(n, m, X)
  BY <1>1, <1>2 DEF Core
<1>4. Starting(n)
  BY <1>1, Callers DEF Starting, Phase
<1>5. KeptOK(n)
  BY <1>1 DEF KeptOK, Matches
<1> QED BY <1>1, <1>3, <1>4, <1>5 DEF Sound, n

(* A navigation changes no more than the screen, and what is given up      *)
(* with it.                                                                *)
LEMMA LandKeeps ==
  ASSUME NEW s, NEW m, NEW X, Sound(s, m, X), NEW screen
  PROVE  /\ Sound(Land(s, screen), m, X)
         /\ Land(s, screen).tab.user = s.tab.user
         /\ Land(s, screen).tab.kept = s.tab.kept
         /\ \A c \in Caller : Land(s, screen).call[c].pc \in {"idle", s.call[c].pc}
<1> DEFINE shown == IF s.tab.demoEnded THEN "demo-ended" ELSE screen
           a == Abort(s, Caller)
           n == Land(s, screen)
<1>1. CASE s.tab.screen \in {"blank", shown}
  BY <1>1 DEF Land
<1>2. CASE s.tab.screen \notin {"blank", shown}
  <2>1. n = [a EXCEPT !.tab.screen = shown]
    BY <1>2 DEF Land
  <2>2. s.call["boot"].pc \notin Phase /\ Matches(s)
    BY <1>2 DEF Sound, Starting, KeptOK, Phase
  <2>3. /\ Sound(a, m, X) /\ a.tab = s.tab
        /\ \A c \in Caller : a.call[c].pc \in {"idle", s.call[c].pc}
    BY <2>2, AbortKeeps DEF Sound
  <2> HIDE DEF a, shown, n
  <2>4. Shape(a)
    BY <2>3 DEF Sound, Core
  <2>5. /\ Shape(n) /\ n.call = a.call /\ n.shared = a.shared
        /\ n.tab.access = a.tab.access /\ n.tab.demo = a.tab.demo
        /\ n.tab.kept = a.tab.kept /\ n.tab.user = a.tab.user
    BY <2>1, <2>4 DEF Shape
  <2>6. n.call["boot"].pc \notin Phase
    BY <2>2, <2>3, <2>5, Callers DEF Phase
  <2>7. TabOK(n.tab, m, X)
    BY <2>3, <2>5 DEF TabOK, IsOf, Sound, Core
  <2>8. Core(n, m, X) /\ Starting(n) /\ KeptOK(n)
    BY <2>2, <2>3, <2>5, <2>6, <2>7 DEF Core, Starting, KeptOK, Matches, Sound
  <2> QED BY <2>3, <2>5, <2>8 DEF Sound, n
<1> QED BY <1>1, <1>2

LEMMA ForgetKeeps ==
  ASSUME NEW s, NEW m, NEW X, Sound(s, m, X)
  PROVE  /\ Sound(ForgetSession(s), m, X)
         /\ ForgetSession(s).tab.kept = None
         /\ ForgetSession(s).tab.user = None
         /\ \A c \in Caller : ForgetSession(s).call[c].pc \in {"idle", s.call[c].pc}
<1> DEFINE c1 == Clear(s)
           c2 == SetAccessToken(c1, None)
           n == Abort(c2, Reads)
<1>1. Sound(c1, m, X) /\ c1.call = s.call /\ c1.tab.user = None
  BY ClearKeeps
<1> HIDE DEF c1
<1>2. IsOf(None, "operator", m, X)
  BY DEF IsOf
<1>3. /\ Sound(c2, m, X) /\ Matches(c2) /\ c2.tab.kept = None
      /\ c2.tab.user = None /\ c2.call = s.call
  BY <1>1, <1>2, SetAccessKeeps DEF Sound
<1> HIDE DEF c2
<1>4. /\ Sound(n, m, X) /\ n.tab = c2.tab
      /\ \A c \in Caller : n.call[c].pc \in {"idle", c2.call[c].pc}
  BY <1>3, AbortKeeps DEF Sound
<1> HIDE DEF n
<1>5. n = ForgetSession(s)
  BY DEF n, c2, c1, ForgetSession
<1> QED BY <1>3, <1>4, <1>5

LEMMA EndingsKeep ==
  ASSUME NEW s, NEW m, NEW X, Sound(s, m, X), NEW n \in {OnDemoEnded(s), OnSessionLost(s)}
  PROVE  /\ Sound(n, m, X) /\ n.tab.kept = None /\ n.tab.user = None
         /\ \A c \in Caller : n.call[c].pc \in {"idle", s.call[c].pc}
<1>1. PICK screen : n = Land(ForgetSession(s), screen)
  BY DEF OnDemoEnded, OnSessionLost
<1> DEFINE f == ForgetSession(s)
<1>2. /\ Sound(f, m, X) /\ f.tab.kept = None /\ f.tab.user = None
      /\ \A c \in Caller : f.call[c].pc \in {"idle", s.call[c].pc}
  BY ForgetKeeps
<1> HIDE DEF f
<1>3. /\ Sound(n, m, X) /\ n.tab.user = f.tab.user /\ n.tab.kept = f.tab.kept
      /\ \A c \in Caller : n.call[c].pc \in {"idle", f.call[c].pc}
  BY <1>1, <1>2, LandKeeps DEF f
<1> QED BY <1>2, <1>3

(* The start is over: the page is mounted.                                 *)
LEMMA MountKeeps ==
  ASSUME NEW s, NEW m, NEW X, Core(s, m, X), Starting(s), Matches(s)
  PROVE  Sound(Mount(s), m, X) /\ Mount(s).tab.user = s.tab.user
<1> DEFINE r == Resting(s, "boot")
           shown == IF s.tab.demoEnded THEN "demo-ended"
                    ELSE IF s.tab.user # None THEN "app" ELSE "login"
           n == Mount(s)
<1>1. /\ Sound(r, m, X) /\ r.tab = s.tab /\ r.call["boot"] = Idle
  BY RestingKeeps, Callers
<1>2. n = [r EXCEPT !.tab.screen = shown]
  BY DEF Mount
<1> HIDE DEF r, shown, n
<1>3. Shape(r)
  BY <1>1 DEF Sound, Core
<1>4. /\ Shape(n) /\ n.call = r.call /\ n.shared = r.shared
      /\ n.tab.access = r.tab.access /\ n.tab.demo = r.tab.demo
      /\ n.tab.kept = r.tab.kept /\ n.tab.user = r.tab.user
  BY <1>2, <1>3 DEF Shape
<1>5. TabOK(n.tab, m, X)
  BY <1>1, <1>4 DEF TabOK, IsOf, Sound, Core
<1>6. Core(n, m, X) /\ Starting(n) /\ KeptOK(n)
  BY <1>1, <1>4, <1>5, IdleFields DEF Core, Starting, KeptOK, Matches, Sound, Phase
<1> QED BY <1>1, <1>4, <1>6 DEF Sound, n

(* The start goes on with the pass that was kept, or is over.              *)
LEMMA ResumeKeeps ==
  ASSUME NEW s, NEW m, NEW X, Core(s, m, X), Starting(s), s.call["boot"].pc = "racing"
  PROVE  Sound(Resume(s), m, X) /\ Resume(s).tab.user \in {None, s.tab.user}
<1>1. CASE s.tab.kept = None
  <2> DEFINE c1 == Clear(s)
  <2>1. Sound(s, m, X) /\ Matches(s)
    BY <1>1 DEF Sound, KeptOK, Matches
  <2>2. Sound(c1, m, X) /\ Matches(c1) /\ c1.tab.user = None
    BY <2>1, ClearKeeps
  <2> HIDE DEF c1
  <2>3. Sound(Mount(c1), m, X) /\ Mount(c1).tab.user = None
    BY <2>2, MountKeeps DEF Sound
  <2> QED BY <1>1, <2>3 DEF Resume, c1
<1>2. CASE s.tab.kept # None
  <2> DEFINE d == SetDemoToken(s, s.tab.kept)
             n == Asking(d, "boot", "resumed", "read")
  <2>1. IsOf(s.tab.kept, "demo", m, X)
    BY DEF Core, TabOK
  <2>2. Sound(d, m, X) /\ Matches(d) /\ d.tab.user = s.tab.user /\ d.call = s.call
    BY <2>1, SetDemoKeeps
  <2> HIDE DEF d
  <2>3. d.call["boot"].pc \in Phase /\ "resumed" \in Phase /\ PathOf("resumed") = "read"
    BY <2>2 DEF Phase, PathOf
  <2>4. Sound(n, m, X) /\ n.tab = d.tab
    BY <2>2, <2>3, AskingKeeps, Callers DEF Sound
  <2> HIDE DEF n
  <2>5. n = Resume(s)
    BY <1>2 DEF n, d, Resume
  <2> QED BY <2>2, <2>4, <2>5
<1> QED BY <1>1, <1>2

LEMMA LeftKeeps ==
  ASSUME NEW s, NEW m, NEW X, Sound(s, m, X), s.call["boot"].pc \notin Phase
  PROVE  Sound(Left(s), m, X)
<1> DEFINE r == Resting(s, "exit")
           f == ForgetSession(r)
<1>1. Matches(s)
  BY DEF Sound, KeptOK, Phase
<1>2. Sound(r, m, X)
  BY <1>1, RestingKeeps, Callers DEF Sound
<1> HIDE DEF r
<1>3. Sound(f, m, X)
  BY <1>2, ForgetKeeps
<1> HIDE DEF f
<1>4. Sound(Land(f, "login"), m, X)
  BY <1>3, LandKeeps
<1> QED BY <1>4 DEF Left, f, r

(* A rejection: the start goes on, the exit leaves, the others rest.  Only *)
(* the exit signs anybody out.                                             *)
LEMMA RejectedKeeps ==
  ASSUME NEW s, NEW m, NEW X, Sound(s, m, X), NEW c \in Caller, NEW gone
  PROVE  /\ Sound(Rejected(s, c, gone), m, X)
         /\ s.tab.user # None /\ s.call[c].pc # "logout"
              => Rejected(s, c, gone).tab.user = s.tab.user
<1> DEFINE n == Rejected(s, c, gone)
<1>0. /\ s.call[c].pc \in Phase => c = "boot" /\ s.tab.user = None
      /\ CallOK(s.call[c], c) /\ Core(s, m, X) /\ Starting(s) /\ KeptOK(s)
  BY DEF Core, CallOK, Starting, Sound
<1>1. CASE s.call[c].pc = "racing"
  <2>1. c = "boot" /\ n = Resume(s)
    BY <1>0, <1>1 DEF Rejected, Phase
  <2> QED BY <1>0, <1>1, <2>1, ResumeKeeps DEF Phase
<1>2. CASE s.call[c].pc = "me"
  <2>1. n = Mount(Clear(s)) /\ c = "boot" /\ s.tab.user = None
    BY <1>0, <1>2 DEF Rejected, Phase
  <2>2. Sound(s, m, X) /\ Matches(s)
    BY <1>0, <1>2, <2>1 DEF KeptOK
  <2>3. Sound(Clear(s), m, X) /\ Matches(Clear(s))
    BY <2>2, ClearKeeps
  <2>4. Sound(Mount(Clear(s)), m, X)
    BY <2>3, MountKeeps DEF Sound
  <2> QED BY <2>1, <2>4
<1>3. CASE s.call[c].pc = "resumed"
  <2> DEFINE g == [s EXCEPT !.tab.demoEnded = gone]
             d == SetDemoToken(g, None)
             c1 == Clear(d)
  <2>1. n = Mount(c1) /\ c = "boot" /\ s.tab.user = None
    BY <1>0, <1>3 DEF Rejected, Phase
  <2>2. Shape(s)
    BY <1>0 DEF Core
  <2>3. /\ Shape(g) /\ g.call = s.call /\ g.shared = s.shared
        /\ g.tab.access = s.tab.access /\ g.tab.demo = s.tab.demo
        /\ g.tab.kept = s.tab.kept /\ g.tab.user = s.tab.user
        /\ g.tab.screen = s.tab.screen
    BY <2>2 DEF Shape
  <2> HIDE DEF g
  <2>4. TabOK(g.tab, m, X)
    BY <1>0, <2>3 DEF TabOK, IsOf, Core
  <2>5. Core(g, m, X) /\ Starting(g)
    BY <1>0, <2>3, <2>4 DEF Core, Starting
  <2>6. IsOf(None, "demo", m, X)
    BY DEF IsOf
  <2>7. Sound(d, m, X) /\ Matches(d)
    BY <2>5, <2>6, SetDemoKeeps
  <2> HIDE DEF d
  <2>8. Sound(c1, m, X) /\ Matches(c1)
    BY <2>7, ClearKeeps
  <2> HIDE DEF c1
  <2>9. Sound(Mount(c1), m, X)
    BY <2>8, MountKeeps DEF Sound
  <2> QED BY <2>1, <2>9
<1>4. CASE s.call[c].pc = "logout"
  <2>1. n = Left(s) /\ c = "exit"
    BY <1>0, <1>4 DEF Rejected, CallOK
  <2>2. s.call["boot"].pc \notin Phase
    BY <1>0, <1>4, <2>1, ClientAssumption, Callers DEF Starting, Phase
  <2> QED BY <1>4, <2>1, <2>2, LeftKeeps
<1>5. CASE s.call[c].pc \notin {"racing", "me", "resumed", "logout"}
  <2>1. n = Resting(s, c)
    BY <1>5 DEF Rejected
  <2>2. Matches(s) \/ (c # "boot" /\ KeptOK(s))
    BY <1>0, <1>5 DEF KeptOK
  <2> QED BY <1>0, <2>1, <2>2, RestingKeeps
<1> QED BY <1>1, <1>2, <1>3, <1>4, <1>5

(* An answer that grants: a token of the kind that was asked for is held.  *)
LEMMA GrantedKeeps ==
  ASSUME NEW s, NEW m, NEW X, Sound(s, m, X), NEW c \in Caller, NEW token,
         s.call[c].wire # Silent,
         s.call[c].pc = "login" => IsOf(token, "operator", m, X),
         s.call[c].pc = "door" => IsOf(token, "demo", m, X)
  PROVE  Sound(Granted(s, c, token), m, X)
<1> DEFINE n == Granted(s, c, token)
           user == Session(s.call[c].wire.bearer)
<1>0. /\ s.call[c].pc \in Phase => c = "boot"
      /\ s.call[c].pc = "logout" => c = "exit"
      /\ s.call[c].pc \notin {"idle", "racing"}
      /\ s.call["boot"].pc \in Phase => c = "boot"
      /\ Core(s, m, X) /\ Starting(s)
  BY DEF Sound, Core, CallOK, Starting
<1> HIDE DEF user
<1>1. CASE s.call[c].pc \in {"me", "resumed"}
  <2> DEFINE a == Adopt(s, user)
  <2>1. n = Mount(a) /\ c = "boot"
    BY <1>0, <1>1 DEF Granted, Phase, user
  <2>2. Matches(s)
    BY <1>1, <2>1 DEF KeptOK, Sound
  <2>3. /\ Shape(a) /\ a.call = s.call /\ a.shared = s.shared
        /\ a.tab.access = s.tab.access /\ a.tab.demo = s.tab.demo
        /\ a.tab.kept = s.tab.kept /\ a.tab.screen = s.tab.screen
    BY <1>0, AdoptFields DEF Core
  <2> HIDE DEF a
  <2> DEFINE r == Resting(a, "boot")
             shown == IF a.tab.demoEnded THEN "demo-ended"
                      ELSE IF a.tab.user # None THEN "app" ELSE "login"
  <2>4. /\ Shape(r) /\ r.tab = a.tab /\ r.shared = a.shared
        /\ r.call["boot"] = Idle /\ \A o \in Caller \ {"boot"} : r.call[o] = a.call[o]
    BY <2>3, RestingFields, Callers
  <2>5. n = [r EXCEPT !.tab.screen = shown]
    BY <2>1 DEF Mount
  <2> HIDE DEF r, shown, n
  <2>6. /\ Shape(n) /\ n.call = r.call /\ n.shared = r.shared
        /\ n.tab.access = r.tab.access /\ n.tab.demo = r.tab.demo
        /\ n.tab.kept = r.tab.kept
    BY <2>4, <2>5 DEF Shape
  <2>7. TabOK(n.tab, m, X)
    BY <1>0, <2>3, <2>4, <2>6 DEF TabOK, IsOf, Core
  <2>8. \A o \in Caller : CallOK(n.call[o], o)
    BY <1>0, <2>3, <2>4, <2>6, IdleFields DEF Core
  <2>9. SharedOK(n.shared, m, X)
    BY <1>0, <2>3, <2>4, <2>6 DEF Core
  <2>10. Starting(n) /\ KeptOK(n)
    BY <2>2, <2>3, <2>4, <2>6, IdleFields DEF Starting, KeptOK, Matches, Phase
  <2>11. Sound(n, m, X)
    BY <2>6, <2>7, <2>8, <2>9, <2>10 DEF Sound, Core
  <2> QED BY <2>11 DEF n
<1>2. CASE s.call[c].pc = "login"
  <2> DEFINE a == SetAccessToken(s, token)
  <2>1. n = Asking(a, c, "welcome", "read")
    BY <1>2 DEF Granted
  <2>2. Sound(a, m, X) /\ Matches(a) /\ a.call = s.call
    BY <1>0, <1>2, SetAccessKeeps
  <2> HIDE DEF a
  <2>3. /\ PathOf("welcome") = "read" /\ "welcome" \notin Phase
        /\ c = "boot" \/ a.call["boot"].pc \notin Phase
    BY <1>0, <2>2 DEF PathOf, Phase
  <2> QED BY <2>1, <2>2, <2>3, AskingKeeps DEF Sound
<1>3. CASE s.call[c].pc = "door"
  <2> DEFINE a == SetDemoToken(s, token)
  <2>1. n = Asking(a, c, "welcome", "read")
    BY <1>3 DEF Granted
  <2>2. Sound(a, m, X) /\ Matches(a) /\ a.call = s.call
    BY <1>0, <1>3, SetDemoKeeps
  <2> HIDE DEF a
  <2>3. /\ PathOf("welcome") = "read" /\ "welcome" \notin Phase
        /\ c = "boot" \/ a.call["boot"].pc \notin Phase
    BY <1>0, <2>2 DEF PathOf, Phase
  <2> QED BY <2>1, <2>2, <2>3, AskingKeeps DEF Sound
<1>4. CASE s.call[c].pc = "welcome"
  <2> DEFINE r == Resting(s, c)
             a == Adopt(r, user)
  <2>1. n = Land(a, "app")
    BY <1>4 DEF Granted, user
  <2>2. Matches(s) \/ c # "boot"
    BY <1>4 DEF Sound, KeptOK
  <2>3. /\ Sound(r, m, X) /\ r.call[c] = Idle
        /\ \A o \in Caller \ {c} : r.call[o] = s.call[o]
    BY <1>0, <2>2, RestingKeeps DEF Sound
  <2>4. r.call["boot"].pc \notin Phase
    BY <1>0, <2>3, IdleFields, Callers DEF Phase
  <2> HIDE DEF r
  <2>5. Sound(a, m, X)
    BY <2>3, <2>4, AdoptKeeps
  <2> HIDE DEF a
  <2> QED BY <2>1, <2>5, LandKeeps
<1>5. CASE s.call[c].pc = "logout"
  <2>1. n = Left(s) /\ s.call["boot"].pc \notin Phase
    BY <1>0, <1>5, ClientAssumption, Callers DEF Granted, Phase
  <2> QED BY <2>1, LeftKeeps
<1>6. CASE s.call[c].pc \notin {"me", "resumed", "login", "door", "welcome", "logout"}
  <2>1. n = Resting(s, c)
    BY <1>6 DEF Granted
  <2>2. Matches(s) \/ c # "boot"
    BY <1>0, <1>6 DEF Sound, KeptOK
  <2> QED BY <1>0, <2>1, <2>2, RestingKeeps DEF Sound
<1> QED BY <1>1, <1>2, <1>3, <1>4, <1>5, <1>6

(* A renewal joins the exchange of its door or begins one, with the        *)
(* credential of that door.                                                *)
LEMMA RenewKeeps ==
  ASSUME NEW s, NEW m, NEW X, Sound(s, m, X), NEW c \in Caller,
         IsOf(jar, "operator", m, X), s.call[c].pc \in Reading \ {"racing"}
  PROVE  Sound(Renew(s, c), m, X)
<1> DEFINE door == IF s.tab.demo THEN "demo" ELSE "refresh"
           underway == {e \in DOMAIN s.shared : e[2] = door}
           e == IF underway = {} THEN <<c, door>> ELSE CHOOSE other \in underway : TRUE
           wire == Fetch(s, door)
           n == Renew(s, c)
           begun == IF underway = {} THEN Begun(s.shared, e, wire) ELSE s.shared
<1>1. n = [s EXCEPT !.shared = begun,
                    !.call[c].on = e, !.call[c].wire = Silent]
  BY DEF Renew
<1>2. /\ door \in {"refresh", "demo"} /\ wire.path = door
      /\ door = "refresh" => IsOf(wire.cookie, "operator", m, X)
      /\ door = "demo" => IsOf(wire.bearer, "demo", m, X)
  BY DEF Fetch, Sound, Core, TabOK
<1>3. /\ e \in Exchange /\ e[2] = door
      /\ \A f \in DOMAIN s.shared : f[2] = door => e \in DOMAIN s.shared
      /\ DOMAIN s.shared \subseteq Exchange
  <2>1. DOMAIN s.shared \subseteq Exchange
    BY DEF Sound, Core, SharedOK
  <2>2. CASE underway = {}
    <3>1. e = <<c, door>>
      BY <2>2
    <3>2. e \in Exchange /\ e[2] = door
      BY <1>2, <3>1 DEF Exchange
    <3>3. \A f \in DOMAIN s.shared : f[2] # door
      BY <2>2
    <3> HIDE DEF e, door
    <3> QED BY <2>1, <3>2, <3>3
  <2>3. CASE underway # {}
    <3>1. e \in underway
      BY <2>3
    <3> HIDE DEF e
    <3> QED BY <2>1, <3>1
  <2> QED BY <2>2, <2>3
<1>4. /\ DOMAIN begun = DOMAIN s.shared \cup {e}
      /\ \A f \in DOMAIN s.shared : begun[f] = s.shared[f]
      /\ e \notin DOMAIN s.shared => begun[e] = wire
  <2>1. CASE underway = {}
    <3>1. begun = Begun(s.shared, e, wire) /\ e \notin DOMAIN s.shared
      BY <1>3, <2>1
    <3> HIDE DEF e, wire, begun
    <3> QED BY <3>1 DEF Begun
  <2>2. CASE underway # {}
    <3>1. begun = s.shared /\ e \in DOMAIN s.shared
      BY <2>2
    <3> HIDE DEF e, begun
    <3> QED BY <3>1
  <2> QED BY <2>1, <2>2
<1> HIDE DEF e, door, underway, wire, begun, n
<1>5. /\ Shape(s) /\ SharedOK(s.shared, m, X) /\ CallOK(s.call[c], c)
      /\ DOMAIN s.call[c] = {"pc", "wire", "on", "retried", "signal", "aborted"}
  BY IdleFields DEF Sound, Core, CallOK
<1>6. /\ Shape(n) /\ n.tab = s.tab /\ n.shared = begun
      /\ \A o \in Caller \ {c} : n.call[o] = s.call[o]
      /\ DOMAIN n.call[c] = DOMAIN Idle /\ n.call[c].pc = s.call[c].pc
      /\ n.call[c].on = e /\ n.call[c].wire = Silent
      /\ n.call[c].signal = s.call[c].signal
  BY <1>1, <1>5, IdleFields DEF Shape
<1>7. /\ DOMAIN n.shared = DOMAIN s.shared \cup {e}
      /\ \A f \in DOMAIN s.shared : n.shared[f] = s.shared[f]
      /\ e \notin DOMAIN s.shared => n.shared[e] = wire
  <2>1. n.shared = begun
    BY <1>6
  <2> QED BY <1>4, <2>1, Zenon
<1>8. SharedOK(n.shared, m, X)
  BY <1>2, <1>3, <1>5, <1>7 DEF SharedOK
<1>9. CallOK(n.call[c], c)
  BY <1>5, <1>6 DEF CallOK
<1>10. Core(n, m, X)
  BY <1>6, <1>8, <1>9 DEF Sound, Core
<1>11. \A o \in Caller : n.call[o].pc = s.call[o].pc
  BY <1>6
<1>12. Starting(n) /\ KeptOK(n)
  BY <1>6, <1>11, Callers DEF Sound, Starting, KeptOK, Matches
<1> QED BY <1>10, <1>12 DEF Sound, n

(* What an answer to a call makes of the tab.                              *)
LEMMA AnsweredKeeps ==
  ASSUME NEW s, NEW m, NEW X, Sound(s, m, X), NEW c \in Caller, NEW reply,
         IsOf(jar, "operator", m, X), s.call[c].wire # Silent,
         reply.answer \in {"ok", "gone", "expired", "unauthenticated"},
         reply.answer = "expired" => s.call[c].wire.path = "read",
         reply.answer = "ok" /\ s.call[c].wire.path = "login"
           => IsOf(reply.token, "operator", m, X),
         reply.answer = "ok" /\ s.call[c].wire.path = "demo"
           => IsOf(reply.token, "demo", m, X)
  PROVE  Sound(Answered(s, c, reply), m, X)
<1>0. /\ s.call[c].wire.path = PathOf(s.call[c].pc)
      /\ s.call[c].pc \in {"login", "door", "logout"} \cup (Reading \ {"racing"})
      /\ Core(s, m, X) /\ Starting(s)
  BY DEF Sound, Core, CallOK
<1>1. CASE reply.answer = "ok"
  <2>1. Answered(s, c, reply) = Granted(s, c, reply.token)
    BY <1>1 DEF Answered
  <2>2. /\ s.call[c].pc = "login" => s.call[c].wire.path = "login"
        /\ s.call[c].pc = "door" => s.call[c].wire.path = "demo"
    BY <1>0 DEF PathOf
  <2> QED BY <1>1, <2>1, <2>2, GrantedKeeps
<1>2. CASE reply.answer = "gone"
  <2> DEFINE d == SetDemoToken(s, None)
             n == OnDemoEnded(d)
  <2>1. Answered(s, c, reply) = Rejected(n, c, TRUE)
    BY <1>2 DEF Answered
  <2>2. IsOf(None, "demo", m, X)
    BY DEF IsOf
  <2>3. Sound(d, m, X)
    BY <1>0, <2>2, SetDemoKeeps
  <2> HIDE DEF d
  <2>4. Sound(n, m, X)
    BY <2>3, EndingsKeep
  <2> HIDE DEF n
  <2> QED BY <2>1, <2>4, RejectedKeeps
<1>3. CASE reply.answer = "expired" /\ ~s.call[c].retried
  <2>1. Answered(s, c, reply) = Renew(s, c)
    BY <1>3 DEF Answered
  <2>2. s.call[c].pc \in Reading \ {"racing"}
    BY <1>0, <1>3 DEF PathOf
  <2> QED BY <2>1, <2>2, RenewKeeps
<1>4. CASE \/ reply.answer = "unauthenticated"
           \/ reply.answer = "expired" /\ s.call[c].retried
  <2> DEFINE n == OnSessionLost(s)
  <2>1. Answered(s, c, reply) = Rejected(n, c, FALSE)
    BY <1>4 DEF Answered
  <2>2. Sound(n, m, X)
    BY EndingsKeep
  <2> HIDE DEF n
  <2> QED BY <2>1, <2>2, RejectedKeeps
<1> QED BY <1>1, <1>2, <1>3, <1>4

-----------------------------------------------------------------------------
(* The end of an exchange *)

(* Leaving an exchange out.                                                *)
LEMMA QuietFields ==
  ASSUME NEW s, Shape(s), NEW e
  PROVE  LET n == [s EXCEPT !.shared = Restrict(@, DOMAIN @ \ {e})]
         IN /\ Shape(n) /\ n.tab = s.tab /\ n.call = s.call
            /\ DOMAIN n.shared = DOMAIN s.shared \ {e}
            /\ \A f \in DOMAIN n.shared : n.shared[f] = s.shared[f]
BY DEF Shape, Restrict

(* An answer to an exchange e: the credentials X spent become Y, of its    *)
(* door only, and the token it brings is another one.                      *)
KindOf(e) == IF e[2] = "refresh" THEN "operator" ELSE "demo"

Heard(e, reply, m, X, Y) ==
    /\ reply.answer \in {"lost", "ok", "gone", "refused", "failed"}
    /\ reply.answer # "ok" => Y = X
    /\ reply.answer = "ok" =>
         /\ \A t \in Y \ X : t \in DOMAIN m => m[t].kind = KindOf(e)
         /\ IsOf(reply.token, KindOf(e), m, Y)

(* What holds of n when s was told the answer, before anybody hears it.    *)
Conclusion(s, n, answer, m, Y) ==
    /\ Core(n, m, Y) /\ Starting(n)
    /\ Matches(n) \/ (answer # "ok" /\ n.call["boot"].pc = "racing")
    /\ answer # "gone" => n.call = s.call
    /\ answer = "lost" => n.tab.user = s.tab.user

LEMMA ConcludedKeeps ==
  ASSUME NEW s, NEW m, NEW X, NEW Y, Sound(s, m, X), NEW e \in DOMAIN s.shared, NEW reply,
         Heard(e, reply, m, X, Y)
  PROVE  Conclusion(s, Concluded(s, e, reply), reply.answer, m, Y)
<1> DEFINE q == [s EXCEPT !.shared = Restrict(@, DOMAIN @ \ {e})]
           n == Concluded(s, e, reply)
<1> SUFFICES /\ Core(n, m, Y) /\ Starting(n)
             /\ Matches(n) \/ (reply.answer # "ok" /\ n.call["boot"].pc = "racing")
             /\ reply.answer # "gone" => n.call = s.call
             /\ reply.answer = "lost" => n.tab.user = s.tab.user
  BY DEF Conclusion
<1>0. Shape(s) /\ SharedOK(s.shared, m, X) /\ e[2] \in {"refresh", "demo"}
  BY DEF Sound, Core, SharedOK, Exchange, Opening
<1>1. /\ Shape(q) /\ q.tab = s.tab /\ q.call = s.call
      /\ DOMAIN q.shared = DOMAIN s.shared \ {e}
      /\ \A f \in DOMAIN q.shared : q.shared[f] = s.shared[f]
  BY <1>0, QuietFields
<1> HIDE DEF q
<1>2. SharedOK(q.shared, m, X) /\ \A f \in DOMAIN q.shared : f[2] # e[2]
  BY <1>0, <1>1 DEF SharedOK
<1>3. Sound(q, m, X)
  BY <1>1, <1>2 DEF Sound, Core, Starting, KeptOK, Matches
<1>4. CASE reply.answer = "ok"
  <2>1. n = IF e[2] = "refresh" THEN SetAccessToken(q, reply.token)
            ELSE SetDemoToken(q, reply.token)
    BY <1>0, <1>4 DEF Concluded, Refreshed, q
  <2>2. SharedOK(q.shared, m, Y)
    <3>1. \A f \in DOMAIN q.shared : f[2] \in {"refresh", "demo"}
      BY <1>2 DEF SharedOK, Exchange, Opening
    <3>2. \A t : IsOf(t, IF e[2] = "refresh" THEN "demo" ELSE "operator", m, X)
                 => IsOf(t, IF e[2] = "refresh" THEN "demo" ELSE "operator", m, Y)
      BY <1>0, <1>4 DEF Heard, KindOf, IsOf
    <3> QED BY <1>0, <1>2, <3>1, <3>2 DEF SharedOK
  <2>3. n.tab = (IF e[2] = "refresh" THEN SetAccessToken(q, reply.token)
                 ELSE SetDemoToken(q, reply.token)).tab
    BY <2>1
  <2>4. /\ Shape(n) /\ n.call = q.call /\ n.shared = q.shared
        /\ n.tab.access = reply.token /\ n.tab.kept \in {None, reply.token}
        /\ n.tab.kept # None => e[2] = "demo" /\ n.tab.kept = reply.token
        /\ n.tab.demo <=> e[2] = "demo" /\ reply.token # None
        /\ n.tab.user = q.tab.user /\ n.tab.screen = q.tab.screen
    <3>1. CASE e[2] = "refresh"
      BY <1>1, <2>1, <3>1, SetAccessFields
    <3>2. CASE e[2] = "demo"
      BY <1>1, <2>1, <3>2, SetDemoFields
    <3> QED BY <1>0, <3>1, <3>2
  <2> HIDE DEF n
  <2>5. TabOK(n.tab, m, Y)
    BY <1>0, <1>4, <2>4 DEF TabOK, IsOf, Heard, KindOf
  <2>6. Core(n, m, Y) /\ Starting(n) /\ Matches(n)
    BY <1>3, <2>2, <2>4, <2>5 DEF Core, Starting, Matches, Sound
  <2> QED BY <1>1, <1>4, <2>4, <2>6 DEF n
<1>5. CASE reply.answer = "lost"
  BY <1>1, <1>3, <1>5 DEF Concluded, Heard, Sound, KeptOK, q
<1>6. CASE reply.answer = "gone"
  <2> DEFINE d == SetDemoToken(q, None)
  <2>1. n = OnDemoEnded(d) /\ Y = X
    BY <1>6 DEF Concluded, Heard, q
  <2>2. IsOf(None, "demo", m, X)
    BY DEF IsOf
  <2>3. Sound(d, m, X) /\ d.call = q.call
    BY <1>3, <2>2, SetDemoKeeps DEF Sound
  <2> HIDE DEF d, n
  <2>4. /\ Sound(n, m, X) /\ n.tab.kept = None
        /\ \A c \in Caller : n.call[c].pc \in {"idle", s.call[c].pc}
    BY <1>1, <2>1, <2>3, EndingsKeep
  <2> QED BY <1>6, <2>1, <2>4 DEF n, Sound, Matches
<1>7. CASE reply.answer \in {"refused", "failed"} /\ e[2] = "refresh"
  <2>1. n = [q EXCEPT !.tab.access = None] /\ Y = X
    BY <1>7 DEF Concluded, Heard, q
  <2> HIDE DEF n
  <2>2. /\ Shape(n) /\ n.call = q.call /\ n.shared = q.shared
        /\ n.tab.access = None /\ n.tab.demo = q.tab.demo
        /\ n.tab.kept = q.tab.kept
        /\ n.tab.user = q.tab.user /\ n.tab.screen = q.tab.screen
    BY <1>1, <2>1 DEF Shape
  <2>3. TabOK(n.tab, m, X)
    BY <1>3, <2>2 DEF TabOK, IsOf, Sound, Core
  <2>4. Core(n, m, X) /\ Starting(n) /\ KeptOK(n)
    BY <1>3, <2>2, <2>3 DEF Sound, Core, Starting, KeptOK, Matches
  <2> QED BY <1>1, <1>7, <2>1, <2>2, <2>4 DEF n, KeptOK
<1>8. CASE reply.answer \in {"refused", "failed"} /\ e[2] = "demo"
  <2>1. n = SetDemoToken(q, None) /\ Y = X
    BY <1>8 DEF Concluded, Heard, q
  <2>2. IsOf(None, "demo", m, X)
    BY DEF IsOf
  <2>3. Sound(n, m, X) /\ Matches(n) /\ n.call = q.call
    BY <1>3, <2>1, <2>2, SetDemoKeeps DEF Sound
  <2> QED BY <1>1, <1>8, <2>1, <2>3 DEF Sound
<1> QED BY <1>0, <1>4, <1>5, <1>6, <1>7, <1>8 DEF Heard

(* Who waited for a token asks again; the start asks whose it is.          *)
LEMMA AgainKeeps ==
  ASSUME NEW s, NEW m, NEW X, Core(s, m, X), Starting(s), Matches(s),
         NEW callers \in SUBSET Caller, \A c \in callers : s.call[c].on # None
  PROVE  Sound(Again(s, callers), m, X)
<1> DEFINE n == Again(s, callers)
           after(c) == IF c \in callers THEN Retried(s, c) ELSE s.call[c]
<1>1. n = [s EXCEPT !.call = [c \in Caller |-> after(c)]]
  BY DEF Again
<1> HIDE DEF n, after
<1>2. /\ Shape(n) /\ n.tab = s.tab /\ n.shared = s.shared
      /\ \A c \in Caller : n.call[c] = after(c)
  BY <1>1 DEF Core, Shape
<1>3. ASSUME NEW c \in callers
      PROVE  /\ CallOK(Retried(s, c), c)
             /\ Retried(s, c).pc # "racing"
             /\ Retried(s, c).pc \in Phase => s.call[c].pc \in Phase
  <2>1. /\ CallOK(s.call[c], c) /\ s.call[c].pc \in Reading
        /\ DOMAIN s.call[c] = {"pc", "wire", "on", "retried", "signal", "aborted"}
    BY <1>3, IdleFields DEF Core, CallOK
  <2>2. CASE s.call[c].pc = "racing"
    <3> DEFINE a == Asking(s, c, "me", "read")
    <3>1. Retried(s, c) = a.call[c]
      BY <2>2 DEF Retried
    <3>2. "me" \in Phase /\ PathOf("me") = "read" /\ c = "boot" /\ s.call[c].pc \in Phase
      BY <2>1, <2>2 DEF Phase, PathOf, CallOK
    <3>3. Sound(a, m, X)
      BY <3>2, AskingKeeps, Callers
    <3>4. a.call[c].pc = "me"
      BY <2>1, <3>2, Callers, IdleFields, AskingFields DEF Core
    <3> HIDE DEF a
    <3> QED BY <3>1, <3>2, <3>3, <3>4, Callers DEF Sound, Core, Phase
  <2>3. CASE s.call[c].pc # "racing" /\ s.call[c].aborted
    BY <2>3, IdleFields DEF Retried, Phase
  <2>4. CASE s.call[c].pc # "racing" /\ ~s.call[c].aborted
    <3> DEFINE wire == Fetch(s, "read")
    <3>1. Retried(s, c) = [s.call[c] EXCEPT !.wire = wire, !.on = None, !.retried = TRUE]
      BY <2>4 DEF Retried
    <3>2. wire.path = "read"
      BY DEF Fetch
    <3> HIDE DEF wire
    <3>3. /\ DOMAIN Retried(s, c) = DOMAIN s.call[c]
          /\ Retried(s, c).pc = s.call[c].pc /\ Retried(s, c).on = None
          /\ Retried(s, c).signal = s.call[c].signal /\ Retried(s, c).wire = wire
      BY <2>1, <3>1
    <3>4. PathOf(s.call[c].pc) = "read"
      BY <2>1 DEF PathOf, Reading, Phase
    <3> QED BY <2>1, <2>4, <3>2, <3>3, <3>4 DEF CallOK, Reading, Phase
  <2> QED BY <2>2, <2>3, <2>4
<1>4. \A c \in Caller : CallOK(n.call[c], c)
  BY <1>2, <1>3 DEF Core, after
<1>5. Core(n, m, X) /\ KeptOK(n)
  BY <1>2, <1>4 DEF Core, KeptOK, Matches
<1>6. Starting(n)
  <2>1. SUFFICES ASSUME n.call["boot"].pc \in Phase
                 PROVE  /\ n.tab.screen = "blank" /\ n.tab.user = None
                        /\ \A c \in Caller \ {"boot"} : n.call[c].pc = "idle"
    BY DEF Starting
  <2>2. s.call["boot"].pc \in Phase
    BY <1>2, <1>3, <2>1, Callers DEF after
  <2>3. \A c \in Caller \ {"boot"} : s.call[c].pc = "idle" /\ c \notin callers
    BY <2>2 DEF Starting, Core, CallOK, Reading, Phase
  <2> QED BY <1>2, <2>2, <2>3 DEF Starting, after
<1> QED BY <1>5, <1>6 DEF Sound, n

(* Who waited in vain rests; the start goes on.                            *)
LEMMA DeniedKeeps ==
  ASSUME NEW s, NEW m, NEW X, Core(s, m, X), Starting(s),
         NEW callers \in SUBSET Caller,
         Matches(s) \/ s.call["boot"].pc = "racing"
  PROVE  /\ Sound(Denied(s, callers), m, X)
         /\ s.tab.user # None => Denied(s, callers).tab.user = s.tab.user
<1> DEFINE after(c) == IF c \in callers \ {"boot"} THEN Idle ELSE s.call[c]
           rest == [s EXCEPT !.call = [c \in Caller |-> after(c)]]
           n == Denied(s, callers)
<1>1. n = IF "boot" \in callers THEN Rejected(rest, "boot", FALSE) ELSE rest
  BY DEF Denied
<1>2. \A c \in Caller : after(c) \in {Idle, s.call[c]} /\ after("boot") = s.call["boot"]
  OBVIOUS
<1> HIDE DEF after
<1>3. /\ Shape(rest) /\ rest.tab = s.tab /\ rest.shared = s.shared
      /\ \A c \in Caller : rest.call[c] = after(c)
  BY DEF Core, Shape
<1> HIDE DEF rest, n
<1>4. \A c \in Caller : CallOK(rest.call[c], c)
  BY <1>2, <1>3, IdleFields DEF Core
<1>5. Core(rest, m, X) /\ KeptOK(rest)
  BY <1>2, <1>3, <1>4, Callers DEF Core, KeptOK, Matches
<1>6. Starting(rest)
  BY <1>2, <1>3, IdleFields, Callers DEF Starting
<1>7. CallOK(rest.call["boot"], "boot") /\ rest.call["boot"].pc # "logout"
  BY <1>4, Callers, ClientAssumption DEF CallOK
<1>8. /\ Sound(Rejected(rest, "boot", FALSE), m, X)
      /\ rest.tab.user # None => Rejected(rest, "boot", FALSE).tab.user = rest.tab.user
  <2>1. Sound(rest, m, X)
    BY <1>5, <1>6 DEF Sound
  <2> QED BY <1>7, <2>1, RejectedKeeps, Callers
<1>9. Sound(n, m, X) /\ (s.tab.user # None => n.tab.user = s.tab.user)
  BY <1>1, <1>3, <1>5, <1>6, <1>8 DEF Sound
<1> QED BY <1>9 DEF n

LEMMA SettledKeeps ==
  ASSUME NEW s, NEW m, NEW X, NEW Y, Sound(s, m, X), NEW e \in DOMAIN s.shared, NEW reply,
         Heard(e, reply, m, X, Y)
  PROVE  /\ Sound(Settled(s, e, reply), m, Y)
         /\ reply.answer = "lost" /\ s.tab.user # None
              => Settled(s, e, reply).tab.user = s.tab.user
<1> DEFINE waiting == {c \in Caller : s.call[c].on = e}
           done == Concluded(s, e, reply)
           told == IF IsRefusal(reply.answer) /\ \E c \in waiting : s.call[c].pc # "racing"
                   THEN OnSessionLost(done) ELSE done
           n == Settled(s, e, reply)
<1>1. n = IF reply.answer = "ok" THEN Again(told, waiting) ELSE Denied(told, waiting)
  BY DEF Settled
<1>2. /\ Core(done, m, Y) /\ Starting(done)
      /\ \/ Matches(done)
         \/ reply.answer # "ok" /\ done.call["boot"].pc = "racing"
      /\ reply.answer # "gone" => done.call = s.call
      /\ reply.answer = "lost" => done.tab.user = s.tab.user
  <2>1. Conclusion(s, done, reply.answer, m, Y)
    BY ConcludedKeeps
  <2> HIDE DEF done
  <2> QED BY <2>1 DEF Conclusion
<1>3. e # None
  BY ClientAssumption DEF Sound, Core, SharedOK
<1>4. waiting \in SUBSET Caller /\ \A c \in waiting : s.call[c].on # None
  BY <1>3
<1> HIDE DEF done, waiting, n
<1>5. CASE reply.answer = "ok"
  <2>1. told = done
    BY <1>5 DEF IsRefusal
  <2> HIDE DEF told
  <2>2. \A c \in waiting : done.call[c].on # None
    BY <1>2, <1>4, <1>5
  <2>3. Sound(Again(done, waiting), m, Y)
    BY <1>2, <1>4, <1>5, <2>2, AgainKeeps
  <2> QED BY <1>1, <1>5, <2>1, <2>3 DEF n
<1>6. CASE reply.answer # "ok"
  <2>1. /\ Core(told, m, Y) /\ Starting(told)
        /\ Matches(told) \/ told.call["boot"].pc = "racing"
        /\ reply.answer = "lost" => told.tab.user = s.tab.user
    <3>1. CASE told = done
      <4> HIDE DEF told
      <4> QED BY <1>2, <3>1
    <3>2. CASE told = OnSessionLost(done) /\ reply.answer # "lost"
      <4> HIDE DEF told
      <4>1. Sound(done, m, Y)
        BY <1>2 DEF Sound, KeptOK
      <4>2. Sound(told, m, Y) /\ told.tab.kept = None
        BY <3>2, <4>1, EndingsKeep
      <4> QED BY <3>2, <4>2 DEF Sound, Matches
    <3> QED BY <3>1, <3>2 DEF IsRefusal
  <2> HIDE DEF told
  <2>2. /\ Sound(Denied(told, waiting), m, Y)
        /\ told.tab.user # None => Denied(told, waiting).tab.user = told.tab.user
    BY <1>4, <2>1, DeniedKeeps
  <2> QED BY <1>1, <1>6, <2>1, <2>2 DEF n
<1> QED BY <1>5, <1>6

-----------------------------------------------------------------------------
(* The service *)

Extends(m, l) == DOMAIN m \subseteq DOMAIN l /\ \A t \in DOMAIN m : l[t] = m[t]

LEMMA SoundGrows ==
  ASSUME NEW s, NEW m, NEW l, NEW X, Sound(s, m, X), Extends(m, l)
  PROVE  Sound(s, l, X)
<1>1. \A t, kind : IsOf(t, kind, m, X) => IsOf(t, kind, l, X)
  BY DEF IsOf, Extends
<1>2. TabOK(s.tab, l, X) /\ SharedOK(s.shared, l, X)
  BY <1>1 DEF Sound, Core, TabOK, SharedOK
<1> QED BY <1>2 DEF Sound, Core

LEMMA MintedGrows ==
  ASSUME ServiceOK(service), NEW kind, NEW session
  PROVE  LET v == Minted(kind, session)
         IN /\ ServiceOK(v) /\ Extends(service.minted, v.minted)
            /\ Fresh \notin Token /\ Fresh \in DOMAIN v.minted
            /\ v.minted[Fresh].kind = kind
<1> DEFINE m == service.minted
           r == [kind |-> kind, session |-> session]
           v == Minted(kind, session)
<1>1. PICK S : m \in Seq(S)
  BY DEF ServiceOK
<1> DEFINE T == S \cup {r}
<1>2. r \in T /\ r.kind = kind
  OBVIOUS
<1>3. /\ DOMAIN v = DOMAIN service /\ v.minted = Append(m, r)
      /\ v.stale = service.stale
  BY DEF Minted, ServiceOK
<1> HIDE DEF v, r
<1>4. /\ m \in Seq(T) /\ Len(m) \in Nat /\ DOMAIN m = 1 .. Len(m)
  BY <1>1
<1> HIDE DEF T, m
<1>5. /\ Append(m, r) \in Seq(T) /\ Len(Append(m, r)) = Len(m) + 1
      /\ DOMAIN Append(m, r) = 1 .. Len(m) + 1
      /\ Append(m, r)[Len(m) + 1] = r
      /\ \A t \in 1 .. Len(m) : Append(m, r)[t] = m[t]
  BY <1>2, <1>4, AppendProperties
<1>6. Fresh = Len(m) + 1 /\ Token = 1 .. Len(m)
  BY <1>4 DEF Fresh, Token, m
<1>7. Fresh \notin Token /\ Fresh \in 1 .. Len(m) + 1
  BY <1>4, <1>6
<1>8. Extends(m, v.minted)
  BY <1>3, <1>4, <1>5 DEF Extends
<1>9. ServiceOK(v)
  BY <1>3, <1>5, <1>8 DEF ServiceOK, Extends, m
<1> QED BY <1>2, <1>3, <1>5, <1>6, <1>7, <1>8, <1>9 DEF v, m

LEMMA TokensAreNumbers ==
  ASSUME ServiceOK(service)
  PROVE  Token \subseteq Nat /\ None \notin Token /\ service.stale \subseteq Token
<1>1. PICK S : service.minted \in Seq(S)
  BY DEF ServiceOK
<1>2. Token = 1 .. Len(service.minted) /\ Len(service.minted) \in Nat
  BY <1>1 DEF Token
<1> QED BY <1>2, ClientAssumption DEF ServiceOK, Token

(* A reply that leaves the tokens as they were, or mints one of its kind.  *)
Issued(reply, kind) ==
    /\ reply.answer = "ok" /\ reply.token = Fresh
    /\ Fresh \notin Token /\ Fresh \in DOMAIN reply.service.minted
    /\ reply.service.minted[Fresh].kind = kind

LEMMA GivesIssues ==
  ASSUME ServiceOK(service), NEW kind, NEW session, NEW reply \in Gives(kind, session)
  PROVE  /\ ServiceOK(reply.service) /\ Extends(service.minted, reply.service.minted)
         /\ Issued(reply, kind)
<1>1. reply = [service |-> Minted(kind, session), answer |-> "ok", token |-> Fresh]
  BY DEF Gives, Reply
<1>2. reply.service = Minted(kind, session) /\ reply.answer = "ok" /\ reply.token = Fresh
  BY <1>1
<1> QED BY <1>2, MintedGrows DEF Issued

LEMMA SaysNothing ==
  ASSUME ServiceOK(service), NEW answer, NEW session, NEW v \in {service, Ended(session)},
         NEW reply \in Reply(v, answer, None)
  PROVE  /\ ServiceOK(reply.service) /\ Extends(service.minted, reply.service.minted)
         /\ reply.answer = answer
<1>1. reply.service = v /\ reply.answer = answer
  BY DEF Reply
<1>2. /\ DOMAIN v = DOMAIN service /\ v.minted = service.minted
      /\ v.stale = service.stale
  BY DEF Ended, ServiceOK
<1> QED BY <1>1, <1>2 DEF ServiceOK, Extends

LEMMA RepliesGrow ==
  ASSUME ServiceOK(service), NEW wire, NEW reply \in Replies(wire),
         wire.path \in {"read", "refresh", "demo", "login", "logout"}
  PROVE  /\ ServiceOK(reply.service) /\ Extends(service.minted, reply.service.minted)
         /\ wire.path = "read" => reply.answer \in {"ok", "gone", "expired", "unauthenticated"}
         /\ wire.path = "refresh" => \/ reply.answer = "refused"
                                     \/ Issued(reply, "operator") /\ wire.cookie # None
         /\ wire.path = "demo" => reply.answer = "gone" \/ Issued(reply, "demo")
         /\ wire.path = "login" => Issued(reply, "operator")
         /\ wire.path = "logout" => reply.answer = "ok"
<1>1. CASE wire.path = "read"
  <2>1. PICK answer \in ReadAnswers(wire.bearer) : reply \in Reply(service, answer, None)
    BY <1>1 DEF Replies, Says
  <2>2. answer \in {"ok", "gone", "expired", "unauthenticated"}
    BY <2>1 DEF ReadAnswers
  <2> QED BY <1>1, <2>1, <2>2, SaysNothing
<1>2. CASE wire.path = "refresh"
  <2>1. reply \in RefreshReplies(wire.cookie)
    BY <1>2 DEF Replies
  <2>2. \/ reply \in Reply(service, "refused", None)
        \/ wire.cookie # None /\ reply \in Gives("operator", Session(wire.cookie))
        \/ reply \in Reply(Ended(Session(wire.cookie)), "refused", None)
    BY <2>1 DEF RefreshReplies, Says
  <2> QED BY <1>2, <2>2, SaysNothing, GivesIssues
<1>3. CASE wire.path = "demo"
  <2>1. reply \in DoorReplies(wire.bearer)
    BY <1>3 DEF Replies
  <2>2. \/ reply \in Reply(service, "gone", None)
        \/ \E session : reply \in Gives("demo", session)
    BY <2>1 DEF DoorReplies, Says
  <2> QED BY <1>3, <2>2, SaysNothing, GivesIssues
<1>4. CASE wire.path = "login"
  <2>1. reply \in Gives("operator", Fresh)
    BY <1>4 DEF Replies
  <2> QED BY <1>4, <2>1, GivesIssues
<1>5. CASE wire.path = "logout"
  <2>1. reply \in LogoutReplies(wire.cookie)
    BY <1>5 DEF Replies
  <2>2. \/ reply \in Reply(service, "ok", None)
        \/ reply \in Reply(Ended(Session(wire.cookie)), "ok", None)
    BY <2>1 DEF LogoutReplies, Says
  <2> QED BY <1>5, <2>2, SaysNothing
<1> QED BY <1>1, <1>2, <1>3, <1>4, <1>5

-----------------------------------------------------------------------------
(* The steps *)

LEMMA HereFields ==
  ASSUME NEW m, NEW X, Sound(Here, m, X)
  PROVE  /\ Here.tab = tab /\ Here.call = call /\ Here.shared = shared
         /\ Core(Here, m, X) /\ Starting(Here) /\ KeptOK(Here) /\ Shape(Here)
BY DEF Here, Sound, Core

LEMMA BecomeKeeps ==
  ASSUME NEW n, NEW m, NEW X, Sound(n, m, X), Become(n)
  PROVE  Sound(Here', m, X) /\ tab' = n.tab
<1>1. tab' = n.tab /\ call' = n.call /\ shared' = n.shared
  BY DEF Become
<1>2. /\ DOMAIN Here' = {"tab", "call", "shared"}
      /\ Here'.tab = n.tab /\ Here'.call = n.call /\ Here'.shared = n.shared
  BY <1>1 DEF Here
<1> QED BY <1>1, <1>2 DEF Sound, Core, Shape, Starting, KeptOK, Matches

LEMMA AnswerCallStep ==
  ASSUME IInv, NEW c \in Caller, AnswerCall(c)
  PROVE  IInv'
<1> DEFINE wire == call[c].wire
<1>1. PICK reply \in Replies(wire) :
        Served(wire, reply) /\ Become(Answered(Here, c, reply))
  BY DEF AnswerCall
<1> DEFINE l == reply.service.minted
           X == history.spent
           n == Answered(Here, c, reply)
<1>2. /\ Sound(Here, service.minted, X) /\ ServiceOK(service)
      /\ history.twice = {} /\ X \subseteq Token
      /\ IsOf(jar, "operator", service.minted, X)
      /\ history' = history /\ wire # Silent
  BY DEF IInv, Books, AnswerCall, IsAsking
<1>3. /\ Here.call[c] = call[c] /\ CallOK(call[c], c)
      /\ wire.path \in {"read", "login", "demo", "logout"}
  <2>1. Here.call = call /\ Core(Here, service.minted, X)
    BY <1>2, HereFields
  <2>2. CallOK(call[c], c)
    BY <2>1 DEF Core
  <2> QED BY <1>2, <2>1, <2>2 DEF CallOK, PathOf
<1>4. /\ ServiceOK(reply.service) /\ Extends(service.minted, l)
      /\ reply.answer \in {"ok", "gone", "expired", "unauthenticated"}
      /\ reply.answer = "expired" => wire.path = "read"
      /\ wire.path = "login" => Issued(reply, "operator")
      /\ wire.path = "demo" /\ reply.answer = "ok" => Issued(reply, "demo")
  BY <1>1, <1>2, <1>3, RepliesGrow DEF Issued
<1>5. \A kind : Issued(reply, kind) => IsOf(reply.token, kind, l, X)
  BY <1>2 DEF Issued, IsOf
<1>6. IsOf(jar, "operator", l, X)
  BY <1>2, <1>4 DEF IsOf, Extends
<1>7. Sound(Here, l, X)
  BY <1>2, <1>4, SoundGrows
<1>8. service' = reply.service /\ jar' \in {jar, None} \cup {t \in {reply.token} : wire.path = "login"}
  BY <1>1, <1>3 DEF Served, JarAfter
<1>9. Become(n)
  BY <1>1
<1> HIDE DEF wire, l, n
<1>10. Sound(n, l, X)
  BY <1>2, <1>3, <1>4, <1>5, <1>6, <1>7, AnsweredKeeps DEF wire, n
<1>11. Sound(Here', l, X)
  BY <1>9, <1>10, BecomeKeeps
<1>12. IsOf(jar', "operator", l, X)
  BY <1>4, <1>5, <1>6, <1>8 DEF IsOf
<1>13. history'.spent = X /\ history'.twice = {} /\ X \subseteq Token'
  BY <1>2, <1>4, <1>8 DEF Token, Extends, l
<1>14. service'.minted = l
  BY <1>8 DEF l
<1> QED BY <1>4, <1>8, <1>11, <1>12, <1>13, <1>14 DEF IInv, Books

(* An exchange's answer is the first its credential has.                   *)
LEMMA AnswerExchangeStep ==
  ASSUME IInv, NEW e \in Exchange, AnswerExchange(e)
  PROVE  IInv'
<1> DEFINE wire == shared[e]
<1>1. PICK reply \in Replies(wire) \cup Says("failed") :
        Served(wire, reply) /\ Noted(wire, reply) /\ Become(Settled(Here, e, reply))
  BY DEF AnswerExchange
<1> DEFINE l == reply.service.minted
           X == history.spent
           paid == IF reply.answer = "ok" THEN Spends(wire) ELSE {}
           Y == X \cup paid
           n == Settled(Here, e, reply)
<1>2. /\ Sound(Here, service.minted, X) /\ ServiceOK(service)
      /\ history.twice = {} /\ X \subseteq Token
      /\ IsOf(jar, "operator", service.minted, X)
  BY DEF IInv, Books
<1>3. /\ Here.shared = shared /\ e \in DOMAIN shared
      /\ wire.path = e[2] /\ e[2] \in {"refresh", "demo"}
      /\ e[2] = "refresh" => IsOf(wire.cookie, "operator", service.minted, X)
      /\ e[2] = "demo" => IsOf(wire.bearer, "demo", service.minted, X)
  <2>1. Here.shared = shared /\ Core(Here, service.minted, X)
    BY <1>2, HereFields
  <2>2. e \in DOMAIN shared /\ SharedOK(shared, service.minted, X)
    BY <2>1 DEF AnswerExchange, Core
  <2> QED BY <2>1, <2>2 DEF SharedOK, Exchange, Opening
<1>4. /\ ServiceOK(reply.service) /\ Extends(service.minted, l)
      /\ reply.answer \in {"ok", "gone", "refused", "failed"}
      /\ reply.answer = "ok" => Issued(reply, KindOf(e))
      /\ reply.answer = "ok" /\ e[2] = "refresh" => wire.cookie # None
  <2>1. CASE reply \in Replies(wire)
    BY <1>2, <1>3, <2>1, RepliesGrow DEF Issued, KindOf
  <2>2. CASE reply \in Says("failed")
    BY <1>2, <2>2, SaysNothing DEF Says
  <2> QED BY <2>1, <2>2
<1>5. \A t \in paid : t \in Token /\ t \notin X /\ service.minted[t].kind = KindOf(e)
  <2>1. CASE e[2] = "refresh"
    BY <1>3, <1>4, <2>1 DEF Spends, IsOf, KindOf, Token
  <2>2. CASE e[2] = "demo"
    <3>1. \A t \in paid : t = wire.bearer /\ t \in service.stale /\ Kind(t) = "demo"
      BY <1>3, <2>2 DEF Spends
    <3>2. None \notin paid
      BY <1>2, <3>1, TokensAreNumbers
    <3> QED BY <1>3, <2>2, <3>1, <3>2 DEF IsOf, KindOf, Token
  <2> QED BY <1>3, <2>1, <2>2
<1>6. history'.spent = Y /\ history'.twice = {} /\ Y \subseteq Token
  BY <1>1, <1>2, <1>5 DEF Noted
<1> HIDE DEF paid, Y
<1>7. Sound(Here, l, X)
  BY <1>2, <1>4, SoundGrows
<1>8. Heard(e, reply, l, X, Y)
  <2>1. reply.answer # "ok" => Y = X
    BY DEF Y, paid
  <2>2. \A t \in Y \ X : t \in DOMAIN l => l[t].kind = KindOf(e)
    BY <1>4, <1>5 DEF Y, Extends, Token
  <2>3. reply.answer = "ok" => IsOf(reply.token, KindOf(e), l, Y)
    BY <1>4, <1>6 DEF Issued, IsOf
  <2> QED BY <1>4, <2>1, <2>2, <2>3 DEF Heard
<1>9. service' = reply.service
  BY <1>1 DEF Served
<1>10. Become(n)
  BY <1>1
<1> HIDE DEF l, n
<1>11. Sound(n, l, Y)
  BY <1>3, <1>7, <1>8, SettledKeeps DEF n
<1>12. Sound(Here', l, Y)
  BY <1>10, <1>11, BecomeKeeps
<1>13. IsOf(jar', "operator", l, Y)
  <2>1. \/ jar' = None
        \/ jar' = reply.token /\ reply.answer = "ok" /\ e[2] = "refresh"
        \/ jar' = jar /\ ~(reply.answer = "ok" /\ e[2] = "refresh")
    BY <1>1, <1>3 DEF Served, JarAfter
  <2>2. ~(reply.answer = "ok" /\ e[2] = "refresh") => IsOf(jar, "operator", l, Y)
    <3>1. IsOf(jar, "operator", l, X)
      BY <1>2, <1>4 DEF IsOf, Extends
    <3>2. reply.answer # "ok" => Y = X
      BY DEF Y, paid
    <3> QED BY <1>2, <1>3, <1>5, <3>1, <3>2 DEF IsOf, KindOf, Y
  <2> QED BY <1>8, <2>1, <2>2 DEF IsOf, Heard, KindOf
<1>14. Y \subseteq Token' /\ service'.minted = l
  BY <1>4, <1>6, <1>9 DEF Token, Extends, l
<1> QED BY <1>4, <1>6, <1>9, <1>12, <1>13, <1>14 DEF IInv, Books

(* What nobody hears of may have minted a token nobody holds.              *)
LEMMA UnheardKeeps ==
  ASSUME IInv, NEW wire, Unheard(wire), NEW n,
         wire.path \in {"read", "refresh", "demo", "login", "logout"},
         \A m : Sound(Here, m, history.spent) => Sound(n, m, history.spent),
         Become(n)
  PROVE  IInv'
<1> DEFINE m == service.minted
           l == service'.minted
           X == history.spent
<1>1. /\ Sound(Here, m, X) /\ ServiceOK(service)
      /\ history.twice = {} /\ X \subseteq Token /\ IsOf(jar, "operator", m, X)
  BY DEF IInv, Books
<1>2. history' = history /\ jar' = jar
  BY DEF Unheard
<1>3. ServiceOK(service') /\ Extends(m, l)
  <2>1. CASE service' = service
    BY <1>1, <2>1 DEF Extends
  <2>2. ASSUME NEW reply \in Replies(wire), service' = reply.service
        PROVE  ServiceOK(service') /\ Extends(m, l)
    BY <1>1, <2>2, RepliesGrow
  <2> QED BY <2>1, <2>2 DEF Unheard
<1>4. Sound(Here, l, X)
  BY <1>1, <1>3, SoundGrows
<1>5. Sound(Here', l, X)
  BY <1>4, BecomeKeeps
<1>6. IsOf(jar, "operator", l, X) /\ X \subseteq Token'
  BY <1>1, <1>3 DEF IsOf, Extends, Token
<1> QED BY <1>1, <1>2, <1>3, <1>5, <1>6 DEF IInv, Books

LEMMA LoseCallStep ==
  ASSUME IInv, NEW c \in Caller, LoseCall(c)
  PROVE  /\ IInv'
         /\ c # "exit" /\ tab.user # None => tab'.user = tab.user
<1> DEFINE wire == call[c].wire
           X == history.spent
           n == Rejected(Here, c, FALSE)
<1>1. Sound(Here, service.minted, X) /\ Unheard(wire) /\ Become(n) /\ wire # Silent
  BY DEF IInv, LoseCall, IsAsking
<1>2. /\ Here.tab = tab /\ Here.call[c] = call[c] /\ CallOK(call[c], c)
      /\ wire.path \in {"read", "refresh", "demo", "login", "logout"}
  <2>1. Here.tab = tab /\ Here.call = call /\ Core(Here, service.minted, X)
    BY <1>1, HereFields
  <2>2. CallOK(call[c], c)
    BY <2>1 DEF Core
  <2> QED BY <1>1, <2>1, <2>2 DEF CallOK, PathOf
<1> HIDE DEF wire
<1>3. \A m : Sound(Here, m, X) =>
               /\ Sound(n, m, X)
               /\ tab.user # None /\ call[c].pc # "logout" => n.tab.user = tab.user
  BY <1>2, RejectedKeeps
<1> HIDE DEF n
<1>4. IInv'
  BY <1>1, <1>2, <1>3, UnheardKeeps
<1>5. tab' = n.tab
  BY <1>1 DEF Become
<1> QED BY <1>1, <1>2, <1>3, <1>4, <1>5 DEF CallOK

LEMMA LoseExchangeStep ==
  ASSUME IInv, NEW e \in Exchange, LoseExchange(e)
  PROVE  /\ IInv'
         /\ tab.user # None => tab'.user = tab.user
<1> DEFINE wire == shared[e]
           X == history.spent
           reply == [answer |-> "lost"]
           n == Settled(Here, e, reply)
<1>1. Sound(Here, service.minted, X) /\ Unheard(wire) /\ Become(n)
  BY DEF IInv, LoseExchange
<1>2. /\ Here.tab = tab /\ Here.shared = shared /\ e \in DOMAIN shared
      /\ wire.path \in {"read", "refresh", "demo", "login", "logout"}
  <2>1. /\ Here.tab = tab /\ Here.shared = shared
        /\ Core(Here, service.minted, X)
    BY <1>1, HereFields
  <2>2. e \in DOMAIN shared /\ SharedOK(shared, service.minted, X)
    BY <2>1 DEF LoseExchange, Core
  <2> QED BY <2>1, <2>2 DEF SharedOK, Exchange, Opening
<1>3. reply.answer = "lost" /\ \A m : Heard(e, reply, m, X, X)
  BY DEF Heard
<1> HIDE DEF wire, reply
<1>4. \A m : Sound(Here, m, X) =>
               Sound(n, m, X) /\ (tab.user # None => n.tab.user = tab.user)
  BY <1>2, <1>3, SettledKeeps
<1> HIDE DEF n
<1>5. IInv'
  BY <1>1, <1>2, <1>4, UnheardKeeps
<1>6. tab' = n.tab
  BY <1>1 DEF Become
<1> QED BY <1>1, <1>4, <1>5, <1>6

(* The person's steps ask for something or give it up.                     *)
LEMMA PressKeeps ==
  ASSUME IInv, NEW n, Press(n), Sound(n, service.minted, history.spent)
  PROVE  IInv' /\ tab' = n.tab
<1>1. service' = service /\ jar' = jar /\ history' = history /\ Become(n)
  BY DEF Press
<1>2. Sound(Here', service.minted, history.spent) /\ tab' = n.tab
  BY <1>1, BecomeKeeps
<1> QED BY <1>1, <1>2 DEF IInv, Books, Token

LEMMA DeadlineStep ==
  ASSUME IInv, Deadline
  PROVE  IInv' /\ (tab.user # None => tab'.user = tab.user)
<1> DEFINE s == [Here EXCEPT !.call["boot"].on = None]
           m == service.minted
           X == history.spent
<1>1. /\ Core(Here, m, X) /\ Starting(Here) /\ Here.tab = tab /\ Here.call = call
      /\ Shape(Here) /\ CallOK(call["boot"], "boot")
  BY HereFields, Callers DEF IInv, Core
<1>2. call["boot"].pc = "racing" /\ Press(Resume(s))
  BY DEF Deadline
<1>3. DOMAIN call["boot"] = {"pc", "wire", "on", "retried", "signal", "aborted"}
  BY <1>1, IdleFields DEF CallOK
<1>4. /\ Shape(s) /\ s.tab = tab /\ s.shared = Here.shared
      /\ \A c \in Caller \ {"boot"} : s.call[c] = call[c]
      /\ DOMAIN s.call["boot"] = DOMAIN call["boot"]
      /\ s.call["boot"].pc = call["boot"].pc /\ s.call["boot"].on = None
      /\ s.call["boot"].wire = call["boot"].wire
      /\ s.call["boot"].signal = call["boot"].signal
  BY <1>1, <1>3, Callers DEF Shape
<1> HIDE DEF s
<1>5. CallOK(s.call["boot"], "boot")
  BY <1>1, <1>4 DEF CallOK
<1>6. Core(s, m, X) /\ Starting(s) /\ s.call["boot"].pc = "racing"
  BY <1>1, <1>2, <1>4, <1>5 DEF Core, Starting
<1>7. Sound(Resume(s), m, X)
  BY <1>6, ResumeKeeps
<1>8. tab.user = None
  BY <1>1, <1>2 DEF Starting, Phase
<1> QED BY <1>2, <1>7, <1>8, PressKeeps

(* Somebody begins, once the page is mounted.                              *)
LEMMA BeginStep ==
  ASSUME IInv, NEW c \in Caller \ {"boot"}, NEW pc, NEW path, NEW signal,
         Begin(c, pc, path, signal), tab.screen # "blank",
         pc \in {"login", "door", "logout", "asked"}, path = PathOf(pc),
         pc = "logout" => c = "exit"
  PROVE  IInv' /\ tab' = tab
<1> DEFINE m == service.minted
           X == history.spent
           a == Asking(Here, c, pc, path)
           n == [a EXCEPT !.call[c].signal = signal]
<1>1. /\ Core(Here, m, X) /\ Starting(Here) /\ KeptOK(Here)
      /\ Here.tab = tab /\ Here.call = call
  BY HereFields DEF IInv
<1>2. Here.call["boot"].pc \notin Phase
  BY <1>1 DEF Starting
<1>3. Matches(Here) /\ pc \notin Phase
  BY <1>1, <1>2 DEF KeptOK, Phase
<1>4. Sound(a, m, X) /\ a.tab = tab
  BY <1>1, <1>2, <1>3, AskingKeeps
<1> HIDE DEF a
<1>5. Shape(a) /\ CallOK(a.call[c], c)
  BY <1>4 DEF Sound, Core
<1>6. DOMAIN a.call[c] = {"pc", "wire", "on", "retried", "signal", "aborted"}
  BY <1>5, IdleFields DEF CallOK
<1>7. /\ Shape(n) /\ n.tab = a.tab /\ n.shared = a.shared
      /\ \A o \in Caller \ {c} : n.call[o] = a.call[o]
      /\ DOMAIN n.call[c] = DOMAIN a.call[c] /\ n.call[c].pc = a.call[c].pc
      /\ n.call[c].on = a.call[c].on /\ n.call[c].wire = a.call[c].wire
  BY <1>5, <1>6 DEF Shape
<1> HIDE DEF n
<1>8. CallOK(n.call[c], c)
  BY <1>5, <1>7 DEF CallOK
<1>9. Core(n, m, X)
  BY <1>4, <1>7, <1>8 DEF Sound, Core
<1>10. \A o \in Caller : n.call[o].pc = a.call[o].pc
  BY <1>7
<1>11. Starting(n) /\ KeptOK(n)
  BY <1>4, <1>7, <1>10, Callers DEF Sound, Starting, KeptOK, Matches
<1>12. Press(n)
  BY DEF Begin, n, a
<1> QED BY <1>4, <1>7, <1>9, <1>11, <1>12, PressKeeps DEF Sound

LEMMA AbandonStep ==
  ASSUME IInv, NEW q \in Reads, Abandon(q)
  PROVE  IInv' /\ tab' = tab
<1> DEFINE m == service.minted
           X == history.spent
           n == Abort(Here, {q})
<1>1. /\ Core(Here, m, X) /\ Starting(Here) /\ KeptOK(Here)
      /\ Here.tab = tab /\ Here.call = call
  BY HereFields DEF IInv
<1>2. call[q].pc = "asked" /\ Press(n) /\ q \in Caller \ {"boot"}
  BY Callers DEF Abandon
<1>3. Matches(Here)
  BY <1>1, <1>2 DEF Starting, KeptOK, Phase
<1>4. Sound(n, m, X) /\ n.tab = tab
  BY <1>1, <1>3, AbortKeeps
<1> HIDE DEF n
<1> QED BY <1>2, <1>4, PressKeeps

(* The service by itself touches its own books only.                       *)
LEMMA ElsewhereStep ==
  ASSUME IInv, NEW t \in Token, Expire(t) \/ End(t)
  PROVE  IInv' /\ tab' = tab
<1>1. ServiceOK(service) /\ Token \subseteq Nat /\ service.stale \subseteq Token
  BY TokensAreNumbers DEF IInv, Books
<1>2. PICK v : /\ Elsewhere(v) /\ DOMAIN v = DOMAIN service
               /\ v.minted = service.minted /\ v.stale \subseteq Token
  <2>1. CASE Expire(t)
    <3>1. PICK over \in SUBSET Token :
            Elsewhere([service EXCEPT !.stale = service.stale \cup over])
      <4>1. Of(Session(t)) \subseteq Token
        BY DEF Of
      <4> QED BY <2>1, <4>1 DEF Expire
    <3> QED BY <1>1, <3>1 DEF ServiceOK
  <2>2. CASE End(t)
    BY <1>1, <2>2 DEF End, Ended, ServiceOK
  <2> QED BY <2>1, <2>2
<1>3. /\ service' = v /\ Here' = Here /\ tab' = tab
      /\ history' = history /\ jar' = jar
  BY <1>2 DEF Elsewhere, Here
<1>4. ServiceOK(v)
  BY <1>1, <1>2 DEF ServiceOK, Token
<1> QED BY <1>2, <1>3, <1>4 DEF IInv, Books, Token

-----------------------------------------------------------------------------
(* Who waits *)

(* Everybody waits for an exchange under way, or for one of D.             *)
Waits(s, D) ==
    /\ Shape(s) /\ \A c \in Caller : DOMAIN s.call[c] = DOMAIN Idle
    /\ \A c \in Caller : s.call[c].on \in DOMAIN s.shared \cup {None} \cup D

(* And nobody waits for more in n than in s, or is about anything else.    *)
Waiting(n, s) ==
    \A c \in Caller : /\ n.call[c].on \in {None, s.call[c].on}
                      /\ n.call[c].pc \in {"idle", s.call[c].pc}

LEMMA TokensWait ==
  ASSUME NEW s, NEW D, Waits(s, D), NEW t,
         NEW n \in {SetAccessToken(s, t), SetDemoToken(s, t), Adopt(s, t), Clear(s)}
  PROVE  Waits(n, D) /\ Waiting(n, s)
<1>1. Shape(n) /\ n.call = s.call /\ n.shared = s.shared
  BY SetAccessFields, SetDemoFields, AdoptFields, ClearFields DEF Waits
<1> QED BY <1>1 DEF Waits, Waiting

LEMMA RestingWaits ==
  ASSUME NEW s, NEW D, Waits(s, D), NEW c \in Caller
  PROVE  Waits(Resting(s, c), D) /\ Waiting(Resting(s, c), s)
<1> DEFINE n == Resting(s, c)
<1>1. /\ Shape(n) /\ n.tab = s.tab /\ n.shared = s.shared
      /\ n.call[c] = Idle /\ \A o \in Caller \ {c} : n.call[o] = s.call[o]
  BY RestingFields DEF Waits
<1> HIDE DEF n
<1>2. Waits(n, D) /\ Waiting(n, s)
  BY <1>1, IdleFields DEF Waits, Waiting
<1> QED BY <1>2 DEF n

LEMMA AskingWaits ==
  ASSUME NEW s, NEW D, Waits(s, D), NEW c \in Caller, NEW pc, NEW path
  PROVE  Waits(Asking(s, c, pc, path), D)
<1> DEFINE n == Asking(s, c, pc, path)
<1>1. /\ Shape(n) /\ n.shared = s.shared
      /\ \A o \in Caller \ {c} : n.call[o] = s.call[o]
      /\ DOMAIN n.call[c] = DOMAIN Idle /\ n.call[c].on = None
  BY AskingFields DEF Waits
<1> HIDE DEF n
<1>2. Waits(n, D)
  BY <1>1 DEF Waits
<1> QED BY <1>2 DEF n

LEMMA AbortWaits ==
  ASSUME NEW s, NEW D, Waits(s, D), NEW callers
  PROVE  Waits(Abort(s, callers), D) /\ Waiting(Abort(s, callers), s)
<1> DEFINE n == Abort(s, callers)
<1>1. /\ Shape(n)
      /\ \A c \in Caller : n.call[c] = Idle \/ Alike(n.call[c], s.call[c])
      /\ \A c \in Caller : \/ n.call[c].on = None
                           \/ /\ n.call[c].on = s.call[c].on
                              /\ n.call[c].on \in DOMAIN s.shared
                                   => n.call[c].on \in DOMAIN n.shared
  <2>1. Shape(s) /\ \A c \in Caller : DOMAIN s.call[c] = DOMAIN Idle
    BY DEF Waits
  <2> QED BY <2>1, AbortFields, Zenon
<1> HIDE DEF n
<1>2. Waits(n, D) /\ Waiting(n, s)
  BY <1>1, IdleFields DEF Waits, Waiting, Alike
<1> QED BY <1>2 DEF n

LEMMA LandWaits ==
  ASSUME NEW s, NEW D, Waits(s, D), NEW screen
  PROVE  Waits(Land(s, screen), D) /\ Waiting(Land(s, screen), s)
<1> DEFINE a == Abort(s, Caller)
           n == Land(s, screen)
<1>1. Waits(a, D) /\ Waiting(a, s)
  BY AbortWaits
<1>2. n = s \/ \E shown : n = [a EXCEPT !.tab.screen = shown]
  BY DEF Land
<1> HIDE DEF a, n
<1>3. CASE n = s
  BY <1>3 DEF Waiting, n
<1>4. ASSUME NEW shown, n = [a EXCEPT !.tab.screen = shown]
      PROVE  Waits(n, D) /\ Waiting(n, s)
  <2>1. Shape(n) /\ n.call = a.call /\ n.shared = a.shared
    BY <1>1, <1>4 DEF Waits, Shape
  <2> QED BY <1>1, <2>1 DEF Waits, Waiting
<1> QED BY <1>2, <1>3, <1>4 DEF n

LEMMA WaitingIsTransitive ==
  ASSUME NEW n, NEW r, NEW s, Waiting(n, r), Waiting(r, s)
  PROVE  Waiting(n, s)
BY DEF Waiting

LEMMA EndingsWait ==
  ASSUME NEW s, NEW D, Waits(s, D), NEW screen
  PROVE  LET n == Land(ForgetSession(s), screen)
         IN Waits(n, D) /\ Waiting(n, s)
<1> DEFINE c1 == Clear(s)
           c2 == SetAccessToken(c1, None)
           c3 == Abort(c2, Reads)
           n == Land(c3, screen)
<1>1. Waits(c1, D) /\ Waiting(c1, s)
  BY TokensWait
<1> HIDE DEF c1
<1>2. Waits(c2, D) /\ Waiting(c2, c1)
  BY <1>1, TokensWait
<1> HIDE DEF c2
<1>3. Waits(c3, D) /\ Waiting(c3, c2)
  BY <1>2, AbortWaits
<1> HIDE DEF c3
<1>4. Waits(n, D) /\ Waiting(n, c3)
  BY <1>3, LandWaits
<1> HIDE DEF n
<1>5. Waiting(n, s)
  BY <1>1, <1>2, <1>3, <1>4, WaitingIsTransitive
<1> QED BY <1>4, <1>5 DEF ForgetSession, n, c3, c2, c1

LEMMA MountWaits ==
  ASSUME NEW s, NEW D, Waits(s, D)
  PROVE  Waits(Mount(s), D)
<1> DEFINE r == Resting(s, "boot")
           n == Mount(s)
<1>1. Waits(r, D)
  BY RestingWaits, Callers
<1>2. \E shown : n = [r EXCEPT !.tab.screen = shown]
  BY DEF Mount
<1> HIDE DEF r, n
<1>3. Shape(n) /\ n.call = r.call /\ n.shared = r.shared
  BY <1>1, <1>2 DEF Waits, Shape
<1>4. Waits(n, D)
  BY <1>1, <1>3 DEF Waits
<1> QED BY <1>4 DEF n

LEMMA ResumeWaits ==
  ASSUME NEW s, NEW D, Waits(s, D)
  PROVE  Waits(Resume(s), D)
<1>1. CASE s.tab.kept = None
  BY <1>1, TokensWait, MountWaits DEF Resume
<1>2. CASE s.tab.kept # None
  BY <1>2, TokensWait, AskingWaits, Callers DEF Resume
<1> QED BY <1>1, <1>2

LEMMA RejectedWaits ==
  ASSUME NEW s, NEW D, Waits(s, D), NEW c \in Caller, NEW gone
  PROVE  Waits(Rejected(s, c, gone), D)
<1>1. Waits(Resume(s), D) /\ Waits(Resting(s, c), D)
  BY ResumeWaits, RestingWaits
<1>2. Waits(Mount(Clear(s)), D)
  BY TokensWait, MountWaits
<1>3. Waits(Mount(Clear(SetDemoToken([s EXCEPT !.tab.demoEnded = gone], None))), D)
  <2> DEFINE g == [s EXCEPT !.tab.demoEnded = gone]
             d == SetDemoToken(g, None)
             c1 == Clear(d)
  <2>1. Shape(g) /\ g.call = s.call /\ g.shared = s.shared
    BY DEF Waits, Shape
  <2> HIDE DEF g
  <2>2. Waits(g, D)
    BY <2>1 DEF Waits
  <2>3. Waits(d, D)
    BY <2>2, TokensWait
  <2> HIDE DEF d
  <2>4. Waits(c1, D)
    BY <2>3, TokensWait
  <2> HIDE DEF c1
  <2>5. Waits(Mount(c1), D)
    BY <2>4, MountWaits
  <2> QED BY <2>5 DEF c1, d, g
<1>4. Waits(Left(s), D)
  BY RestingWaits, EndingsWait, Callers DEF Left
<1>5. Rejected(s, c, gone) \in
        {Resume(s), Resting(s, c), Mount(Clear(s)), Left(s),
         Mount(Clear(SetDemoToken([s EXCEPT !.tab.demoEnded = gone], None)))}
  BY DEF Rejected
<1> QED BY <1>1, <1>2, <1>3, <1>4, <1>5

LEMMA GrantedWaits ==
  ASSUME NEW s, NEW D, Waits(s, D), NEW c \in Caller, NEW token
  PROVE  Waits(Granted(s, c, token), D)
<1> DEFINE user == Session(s.call[c].wire.bearer)
<1>1. Waits(Mount(Adopt(s, user)), D)
  BY TokensWait, MountWaits
<1>2. Waits(Asking(SetAccessToken(s, token), c, "welcome", "read"), D)
  BY TokensWait, AskingWaits
<1>3. Waits(Asking(SetDemoToken(s, token), c, "welcome", "read"), D)
  BY TokensWait, AskingWaits
<1>4. Waits(Land(Adopt(Resting(s, c), user), "app"), D)
  BY RestingWaits, TokensWait, LandWaits
<1>5. Waits(Left(s), D) /\ Waits(Resting(s, c), D)
  BY RestingWaits, EndingsWait, Callers DEF Left
<1>6. Granted(s, c, token) \in
        {Mount(Adopt(s, user)), Asking(SetAccessToken(s, token), c, "welcome", "read"),
         Asking(SetDemoToken(s, token), c, "welcome", "read"),
         Land(Adopt(Resting(s, c), user), "app"), Left(s), Resting(s, c)}
  BY DEF Granted
<1> QED BY <1>1, <1>2, <1>3, <1>4, <1>5, <1>6

LEMMA RenewWaits ==
  ASSUME NEW s, NEW D, Waits(s, D), NEW c \in Caller
  PROVE  Waits(Renew(s, c), D)
<1> DEFINE door == IF s.tab.demo THEN "demo" ELSE "refresh"
           underway == {e \in DOMAIN s.shared : e[2] = door}
           e == IF underway = {} THEN <<c, door>> ELSE CHOOSE other \in underway : TRUE
           begun == IF underway = {} THEN Begun(s.shared, e, Fetch(s, door)) ELSE s.shared
           n == Renew(s, c)
<1>1. n = [s EXCEPT !.shared = begun, !.call[c].on = e, !.call[c].wire = Silent]
  BY DEF Renew
<1>2. DOMAIN begun = DOMAIN s.shared \cup {e}
  <2>1. CASE underway = {}
    BY <2>1 DEF Begun
  <2>2. CASE underway # {}
    <3>1. e \in underway /\ begun = s.shared
      BY <2>2
    <3> HIDE DEF e, begun
    <3> QED BY <3>1
  <2> QED BY <2>1, <2>2
<1> HIDE DEF e, begun, n
<1>3. DOMAIN s.call[c] = {"pc", "wire", "on", "retried", "signal", "aborted"} /\ Shape(s)
  BY IdleFields DEF Waits
<1>4. /\ Shape(n) /\ n.shared = begun
      /\ \A o \in Caller \ {c} : n.call[o] = s.call[o]
      /\ DOMAIN n.call[c] = DOMAIN s.call[c] /\ n.call[c].on = e
  BY <1>1, <1>3 DEF Shape
<1>5. Waits(n, D)
  BY <1>2, <1>4 DEF Waits
<1> QED BY <1>5 DEF n

LEMMA AnsweredWaits ==
  ASSUME NEW s, NEW D, Waits(s, D), NEW c \in Caller, NEW reply,
         reply.answer \in {"ok", "gone", "expired", "unauthenticated"}
  PROVE  Waits(Answered(s, c, reply), D)
<1>1. Waits(Granted(s, c, reply.token), D) /\ Waits(Renew(s, c), D)
  BY GrantedWaits, RenewWaits
<1>2. Waits(Rejected(OnDemoEnded(SetDemoToken(s, None)), c, TRUE), D)
  BY TokensWait, EndingsWait, RejectedWaits DEF OnDemoEnded
<1>3. Waits(Rejected(OnSessionLost(s), c, FALSE), D)
  BY EndingsWait, RejectedWaits DEF OnSessionLost
<1>4. Answered(s, c, reply) \in
        {Granted(s, c, reply.token), Renew(s, c), Rejected(OnSessionLost(s), c, FALSE),
         Rejected(OnDemoEnded(SetDemoToken(s, None)), c, TRUE)}
  BY DEF Answered
<1> QED BY <1>1, <1>2, <1>3, <1>4

(* When it is over, the exchange e is what some still wait for.            *)
LEMMA ConcludedWaits ==
  ASSUME NEW s, Waits(s, {}), NEW e, e[2] \in {"refresh", "demo"}, NEW reply,
         reply.answer \in {"lost", "ok", "gone", "refused", "failed"}
  PROVE  Waits(Concluded(s, e, reply), {e}) /\ Waiting(Concluded(s, e, reply), s)
<1> DEFINE q == [s EXCEPT !.shared = Restrict(@, DOMAIN @ \ {e})]
           n == Concluded(s, e, reply)
<1>1. /\ Shape(q) /\ q.call = s.call /\ DOMAIN q.shared = DOMAIN s.shared \ {e}
  BY QuietFields DEF Waits
<1>2. n \in {q, SetAccessToken(q, reply.token), SetDemoToken(q, reply.token),
             Land(ForgetSession(SetDemoToken(q, None)), "demo-ended"),
             [q EXCEPT !.tab.access = None], SetDemoToken(q, None)}
  BY DEF Concluded, Refreshed, OnDemoEnded
<1> HIDE DEF q, n
<1>3. Waits(q, {e}) /\ Waiting(q, s)
  BY <1>1 DEF Waits, Waiting
<1>4. \A t : /\ Waits(SetAccessToken(q, t), {e}) /\ Waiting(SetAccessToken(q, t), q)
             /\ Waits(SetDemoToken(q, t), {e}) /\ Waiting(SetDemoToken(q, t), q)
  BY <1>3, TokensWait
<1>5. LET a == [q EXCEPT !.tab.access = None]
      IN Waits(a, {e}) /\ Waiting(a, q)
  <2> DEFINE a == [q EXCEPT !.tab.access = None]
  <2>1. Shape(a) /\ a.call = q.call /\ a.shared = q.shared
    BY <1>1 DEF Shape
  <2> HIDE DEF a
  <2>2. Waits(a, {e}) /\ Waiting(a, q)
    BY <1>3, <2>1 DEF Waits, Waiting
  <2> QED BY <2>2 DEF a
<1>6. LET d == SetDemoToken(q, None)
          a == Land(ForgetSession(d), "demo-ended")
      IN Waits(a, {e}) /\ Waiting(a, q)
  <2> DEFINE d == SetDemoToken(q, None)
             a == Land(ForgetSession(d), "demo-ended")
  <2>1. Waits(d, {e}) /\ Waiting(d, q)
    BY <1>4
  <2> HIDE DEF d
  <2>2. Waits(a, {e}) /\ Waiting(a, d)
    BY <2>1, EndingsWait
  <2> HIDE DEF a
  <2>3. Waiting(a, q)
    BY <2>1, <2>2, WaitingIsTransitive
  <2> QED BY <2>2, <2>3 DEF a, d
<1>7. n = q \/ (Waits(n, {e}) /\ Waiting(n, q))
  BY <1>2, <1>4, <1>5, <1>6
<1>8. Waits(n, {e}) /\ Waiting(n, s)
  BY <1>3, <1>7, WaitingIsTransitive
<1> QED BY <1>8 DEF n

(* The start never waits for the same twice.                               *)
LEMMA StartMovesOn ==
  ASSUME NEW s, NEW D, Waits(s, D), s.call["boot"].pc # "logout", NEW gone
  PROVE  LET n == Rejected(s, "boot", gone)
         IN /\ n.call["boot"].on = None
            /\ \A o \in Caller \ {"boot"} : n.call[o].on = s.call[o].on
<1> DEFINE Moved(n) == /\ n.call["boot"].on = None
                       /\ \A o \in Caller \ {"boot"} : n.call[o].on = s.call[o].on
           Same(g) == Waits(g, D) /\ g.call = s.call
<1>1. ASSUME NEW g, Same(g)
      PROVE  Moved(Resting(g, "boot"))
  <2> DEFINE n == Resting(g, "boot")
  <2>1. Shape(g) /\ g.call = s.call
    BY <1>1 DEF Waits
  <2>2. /\ n.call["boot"] = Idle
        /\ \A o \in Caller \ {"boot"} : n.call[o] = g.call[o]
    BY <2>1, RestingFields, Callers
  <2> HIDE DEF n
  <2>3. Moved(n)
    BY <2>1, <2>2, IdleFields
  <2> QED BY <2>3 DEF n
<1>2. ASSUME NEW g, Same(g)
      PROVE  Moved(Mount(g))
  <2> DEFINE r == Resting(g, "boot")
             n == Mount(g)
  <2>1. Shape(r) /\ Moved(r)
    BY <1>1, <1>2, RestingWaits, Callers DEF Waits
  <2>2. \E shown : n = [r EXCEPT !.tab.screen = shown]
    BY DEF Mount
  <2> HIDE DEF r, n
  <2>3. n.call = r.call
    BY <2>1, <2>2 DEF Shape
  <2>4. Moved(n)
    BY <2>1, <2>3
  <2> QED BY <2>4 DEF n
<1>3. ASSUME NEW g, Same(g)
      PROVE  Moved(Asking(g, "boot", "resumed", "read"))
  <2>1. Shape(g) /\ DOMAIN g.call["boot"] = DOMAIN Idle
    BY <1>3, Callers DEF Waits
  <2> QED BY <1>3, <2>1, AskingFields, Callers
<1>4. ASSUME NEW g, Same(g), NEW t
      PROVE  Same(Clear(g)) /\ Same(SetDemoToken(g, t))
  <2>1. Shape(g)
    BY <1>4 DEF Waits
  <2> QED BY <1>4, <2>1, TokensWait, ClearFields, SetDemoFields
<1>5. Same(s) /\ Same([s EXCEPT !.tab.demoEnded = gone])
  <2> DEFINE g == [s EXCEPT !.tab.demoEnded = gone]
  <2>1. Shape(g) /\ g.call = s.call /\ g.shared = s.shared
    BY DEF Waits, Shape
  <2> HIDE DEF g
  <2>2. Same(g)
    BY <2>1 DEF Waits
  <2> QED BY <2>2 DEF g
<1>6. Moved(Resume(s)) /\ Moved(Resting(s, "boot")) /\ Moved(Mount(Clear(s)))
  <2> HIDE DEF Moved, Same
  <2> QED BY <1>1, <1>2, <1>3, <1>4, <1>5 DEF Resume
<1>7. Moved(Mount(Clear(SetDemoToken([s EXCEPT !.tab.demoEnded = gone], None))))
  <2> HIDE DEF Moved, Same
  <2> QED BY <1>2, <1>4, <1>5
<1>8. Rejected(s, "boot", gone) \in
        {Resume(s), Resting(s, "boot"), Mount(Clear(s)),
         Mount(Clear(SetDemoToken([s EXCEPT !.tab.demoEnded = gone], None)))}
  BY DEF Rejected
<1> HIDE DEF Moved
<1>9. Moved(Rejected(s, "boot", gone))
  BY <1>6, <1>7, <1>8
<1> QED BY <1>9 DEF Moved

(* All who waited for e are told, and wait for nothing that is gone.       *)
LEMMA SettledWaits ==
  ASSUME NEW s, Waits(s, {}), NEW e, e[2] \in {"refresh", "demo"}, e # None, NEW reply,
         reply.answer \in {"lost", "ok", "gone", "refused", "failed"},
         s.call["boot"].pc # "logout"
  PROVE  Waits(Settled(s, e, reply), {})
<1> DEFINE waiting == {c \in Caller : s.call[c].on = e}
           done == Concluded(s, e, reply)
           told == IF IsRefusal(reply.answer) /\ \E c \in waiting : s.call[c].pc # "racing"
                   THEN OnSessionLost(done) ELSE done
           n == Settled(s, e, reply)
<1>1. n = IF reply.answer = "ok" THEN Again(told, waiting) ELSE Denied(told, waiting)
  BY DEF Settled
<1>2. Waits(done, {e}) /\ Waiting(done, s)
  BY ConcludedWaits
<1>3. told \in {done, Land(ForgetSession(done), "login")}
  BY DEF OnSessionLost
<1>4. \A c \in Caller \ waiting : s.call[c].on # e
  OBVIOUS
<1>5. waiting \subseteq Caller
  OBVIOUS
<1> HIDE DEF done, told, waiting, n
<1>6. Waits(told, {e}) /\ Waiting(told, s)
  <2>1. CASE told = done
    BY <1>2, <2>1
  <2>2. CASE told = Land(ForgetSession(done), "login")
    <3>1. Waits(told, {e}) /\ Waiting(told, done)
      BY <1>2, <2>2, EndingsWait
    <3> QED BY <1>2, <3>1, WaitingIsTransitive
  <2> QED BY <1>3, <2>1, <2>2
<1>7. \A c \in Caller \ waiting : told.call[c].on # e
  BY <1>4, <1>6 DEF Waiting
<1>8. CASE reply.answer = "ok"
  <2> DEFINE after(c) == IF c \in waiting THEN Retried(told, c) ELSE told.call[c]
  <2>1. n = [told EXCEPT !.call = [c \in Caller |-> after(c)]]
    BY <1>1, <1>8 DEF Again
  <2>2. \A c \in Caller : DOMAIN Retried(told, c) = DOMAIN Idle /\ Retried(told, c).on = None
    <3> TAKE c \in Caller
    <3>1. Shape(told) /\ DOMAIN told.call[c] = DOMAIN Idle
      BY <1>6 DEF Waits
    <3>2. CASE told.call[c].pc = "racing"
      <4>1. Retried(told, c) = Asking(told, c, "me", "read").call[c]
        BY <3>2 DEF Retried
      <4> QED BY <3>1, <4>1, AskingFields
    <3>3. CASE told.call[c].pc # "racing" /\ told.call[c].aborted
      BY <3>3, IdleFields DEF Retried
    <3>4. CASE told.call[c].pc # "racing" /\ ~told.call[c].aborted
      <4>1. \E wire : Retried(told, c) = [told.call[c] EXCEPT !.wire = wire, !.on = None,
                                                             !.retried = TRUE]
        BY <3>4 DEF Retried
      <4> QED BY <3>1, <4>1, IdleFields
    <3> QED BY <3>2, <3>3, <3>4
  <2>3. \A c \in Caller : /\ DOMAIN after(c) = DOMAIN Idle
                          /\ after(c).on \in {None, told.call[c].on} \ {e}
    BY <1>6, <1>7, <2>2 DEF Waits
  <2> HIDE DEF after
  <2>4. Shape(n) /\ n.shared = told.shared /\ \A c \in Caller : n.call[c] = after(c)
    BY <1>6, <2>1 DEF Waits, Shape
  <2>5. Waits(n, {})
    BY <1>6, <2>3, <2>4 DEF Waits
  <2> QED BY <2>5 DEF n
<1>9. CASE reply.answer # "ok"
  <2> DEFINE after(c) == IF c \in waiting \ {"boot"} THEN Idle ELSE told.call[c]
             rest == [told EXCEPT !.call = [c \in Caller |-> after(c)]]
             moved == Rejected(rest, "boot", FALSE)
  <2>1. n = IF "boot" \in waiting THEN moved ELSE rest
    BY <1>1, <1>9 DEF Denied
  <2>2. \A c \in Caller : /\ after(c) \in {Idle, told.call[c]}
                          /\ after("boot") = told.call["boot"]
                          /\ c # "boot" => after(c).on # e
    BY <1>7, IdleFields
  <2> HIDE DEF after
  <2>3. /\ Shape(rest) /\ rest.shared = told.shared
        /\ \A c \in Caller : rest.call[c] = after(c)
    BY <1>6 DEF Waits, Shape
  <2> HIDE DEF rest, moved
  <2>4. Waits(rest, {e})
    BY <1>6, <2>2, <2>3, IdleFields DEF Waits
  <2>5. rest.call["boot"].pc # "logout" /\ \A c \in Caller \ {"boot"} : rest.call[c].on # e
    BY <1>6, <2>2, <2>3, Callers DEF Waiting
  <2>6. /\ Waits(moved, {e}) /\ moved.call["boot"].on = None
        /\ \A c \in Caller \ {"boot"} : moved.call[c].on = rest.call[c].on
    BY <2>4, <2>5, StartMovesOn, RejectedWaits, Callers DEF moved
  <2>7. \A c \in Caller : n.call[c].on # e
    <3>1. CASE "boot" \in waiting
      BY <2>1, <2>5, <2>6, <3>1
    <3>2. CASE "boot" \notin waiting
      BY <1>7, <2>1, <2>2, <2>3, <2>5, <3>2, Callers
    <3> QED BY <3>1, <3>2
  <2>8. Waits(n, {e})
    BY <2>1, <2>4, <2>6
  <2>9. Waits(n, {})
    BY <2>7, <2>8 DEF Waits
  <2> QED BY <2>9 DEF n
<1> QED BY <1>8, <1>9

(* The steps, each as what becomes of the tab.                             *)
LEMMA NextWaits ==
  ASSUME IInv, Waits(Here, {}), [Next]_vars
  PROVE  Waits(Here', {})
<1>0. /\ Here.tab = tab /\ Here.call = call /\ Here.shared = shared
      /\ CallOK(call["boot"], "boot")
      /\ SharedOK(shared, service.minted, history.spent) /\ ServiceOK(service)
  BY HereFields, Callers DEF IInv, Books, Core
<1>1. ASSUME NEW n, Become(n), Waits(n, {})
      PROVE  Waits(Here', {})
  <2>1. /\ DOMAIN Here' = {"tab", "call", "shared"}
        /\ Here'.tab = n.tab /\ Here'.call = n.call /\ Here'.shared = n.shared
    BY <1>1 DEF Become, Here
  <2> QED BY <1>1, <2>1 DEF Waits, Shape
<1>2. CASE UNCHANGED <<tab, call, shared>>
  BY <1>2 DEF Here
<1>3. ASSUME NEW c \in Caller, AnswerCall(c) \/ LoseCall(c)
      PROVE  Waits(Here', {})
  <2>1. call[c].wire # Silent /\ CallOK(call[c], c)
    BY <1>3, HereFields DEF IInv, Core, AnswerCall, LoseCall, IsAsking
  <2>2. call[c].wire.path \in {"read", "login", "demo", "logout"}
    BY <2>1 DEF CallOK, PathOf
  <2>3. CASE AnswerCall(c)
    <3>1. PICK reply \in Replies(call[c].wire) : Become(Answered(Here, c, reply))
      BY <2>3 DEF AnswerCall
    <3>2. reply.answer \in {"ok", "gone", "expired", "unauthenticated"}
      BY <1>0, <2>2, <3>1, RepliesGrow DEF Issued
    <3> QED BY <1>1, <3>1, <3>2, AnsweredWaits
  <2>4. CASE LoseCall(c)
    BY <1>1, <2>4, RejectedWaits DEF LoseCall
  <2> QED BY <1>3, <2>3, <2>4
<1>4. ASSUME NEW e \in Exchange, AnswerExchange(e) \/ LoseExchange(e)
      PROVE  Waits(Here', {})
  <2>1. /\ e \in DOMAIN shared /\ shared[e].path = e[2] /\ e[2] \in {"refresh", "demo"}
        /\ e # None /\ call["boot"].pc # "logout"
    <3>1. e \in DOMAIN shared
      BY <1>4 DEF AnswerExchange, LoseExchange
    <3>2. call["boot"].pc # "logout"
      BY <1>0 DEF CallOK
    <3> QED BY <1>0, <3>1, <3>2, ClientAssumption DEF SharedOK, Exchange, Opening
  <2>2. PICK reply : /\ Become(Settled(Here, e, reply))
                     /\ reply.answer \in {"lost", "ok", "gone", "refused", "failed"}
    <3>1. CASE AnswerExchange(e)
      <4>1. PICK reply \in Replies(shared[e]) \cup Says("failed") :
              Become(Settled(Here, e, reply))
        BY <3>1 DEF AnswerExchange
      <4>2. CASE reply \in Replies(shared[e])
        BY <1>0, <2>1, <4>1, <4>2, RepliesGrow DEF Issued
      <4>3. CASE reply \in Says("failed")
        BY <1>0, <4>1, <4>3, SaysNothing DEF Says
      <4> QED BY <4>1, <4>2, <4>3
    <3>2. CASE LoseExchange(e)
      <4>1. [answer |-> "lost"].answer = "lost"
        OBVIOUS
      <4> QED BY <3>2, <4>1 DEF LoseExchange
    <3> QED BY <1>4, <3>1, <3>2
  <2>3. Waits(Settled(Here, e, reply), {})
    BY <1>0, <2>1, <2>2, SettledWaits
  <2> QED BY <1>1, <2>2, <2>3
<1>5. ASSUME Deadline
      PROVE  Waits(Here', {})
  <2> DEFINE s == [Here EXCEPT !.call["boot"].on = None]
  <2>1. DOMAIN call["boot"] = {"pc", "wire", "on", "retried", "signal", "aborted"}
    BY <1>0, IdleFields DEF CallOK
  <2>2. /\ Shape(s) /\ s.shared = Here.shared
        /\ \A c \in Caller \ {"boot"} : s.call[c] = Here.call[c]
        /\ DOMAIN s.call["boot"] = DOMAIN call["boot"] /\ s.call["boot"].on = None
    BY <1>0, <2>1, Callers DEF Waits, Shape
  <2> HIDE DEF s
  <2>3. Waits(s, {})
    BY <2>1, <2>2, IdleFields DEF Waits
  <2>4. Waits(Resume(s), {})
    BY <2>3, ResumeWaits
  <2>5. Become(Resume(s))
    BY <1>5 DEF Deadline, Press, s
  <2> QED BY <1>1, <2>4, <2>5
<1>6. ASSUME NEW c \in Caller, NEW pc, NEW path, NEW signal, Begin(c, pc, path, signal)
      PROVE  Waits(Here', {})
  <2> DEFINE a == Asking(Here, c, pc, path)
             n == [a EXCEPT !.call[c].signal = signal]
  <2>1. Waits(a, {})
    BY AskingWaits
  <2> HIDE DEF a
  <2>2. DOMAIN a.call[c] = {"pc", "wire", "on", "retried", "signal", "aborted"} /\ Shape(a)
    BY <2>1, IdleFields DEF Waits
  <2>3. /\ Shape(n) /\ n.shared = a.shared
        /\ \A o \in Caller \ {c} : n.call[o] = a.call[o]
        /\ DOMAIN n.call[c] = DOMAIN a.call[c] /\ n.call[c].on = a.call[c].on
    BY <2>2 DEF Shape
  <2> HIDE DEF n
  <2>4. Waits(n, {})
    BY <2>1, <2>3 DEF Waits
  <2>5. Become(n)
    BY <1>6 DEF Begin, Press, n, a
  <2> QED BY <1>1, <2>4, <2>5
<1>7. ASSUME NEW q \in Reads, Abandon(q)
      PROVE  Waits(Here', {})
  BY <1>1, <1>7, AbortWaits DEF Abandon, Press
<1>8. ASSUME NEW t \in Token, Expire(t) \/ End(t)
      PROVE  Waits(Here', {})
  BY <1>2, <1>8 DEF Expire, End, Elsewhere
<1>9. CASE Submit \/ TryTheDemo \/ SignOut \/ \E q \in Reads \cup Writes : Ask(q)
  BY <1>6, <1>9, Callers DEF Submit, TryTheDemo, SignOut, Ask
<1>10. CASE UNCHANGED vars
  BY <1>2, <1>10 DEF vars
<1> QED BY <1>3, <1>4, <1>5, <1>7, <1>8, <1>9, <1>10 DEF Next

-----------------------------------------------------------------------------
(* The invariant *)

LEMMA MaxOfOne ==
  ASSUME NEW a \in Nat
  PROVE  Max({a}) = a
BY DEF Max

LEMMA InitInvariant == Init => IInv
<1> SUFFICES ASSUME Init PROVE IInv
  OBVIOUS
<1>1. PICK sessions \in {<<>>, <<"operator">>, <<"demo">>, <<"operator", "demo">>} :
        LET held(kind) == {i \in DOMAIN sessions : sessions[i] = kind}
            latest(kind) == IF held(kind) = {} THEN None ELSE Max(held(kind))
        IN /\ service = [minted |-> [i \in DOMAIN sessions |->
                                       [kind |-> sessions[i], session |-> i]],
                         stale |-> {}, ended |-> {}]
           /\ jar = latest("operator")
           /\ tab = [access |-> None, demo |-> FALSE, kept |-> latest("demo"), user |-> None,
                     demoEnded |-> FALSE, screen |-> "blank"]
           /\ call = [c \in Caller |->
                        IF c = "boot" THEN [Idle EXCEPT !.pc = "racing", !.on = Opening]
                        ELSE Idle]
           /\ shared = [e \in {Opening} |-> Fetch([tab |-> tab], "refresh")]
           /\ history = [spent |-> {}, twice |-> {}]
  BY DEF Init
<1> DEFINE held(kind) == {i \in DOMAIN sessions : sessions[i] = kind}
           latest(kind) == IF held(kind) = {} THEN None ELSE Max(held(kind))
           m == [i \in DOMAIN sessions |-> [kind |-> sessions[i], session |-> i]]
           racing == [Idle EXCEPT !.pc = "racing", !.on = Opening]
<1>2. /\ service = [minted |-> m, stale |-> {}, ended |-> {}]
      /\ jar = latest("operator")
      /\ tab = [access |-> None, demo |-> FALSE, kept |-> latest("demo"), user |-> None,
                demoEnded |-> FALSE, screen |-> "blank"]
      /\ call = [c \in Caller |-> IF c = "boot" THEN racing ELSE Idle]
      /\ shared = [e \in {Opening} |-> Fetch([tab |-> tab], "refresh")]
      /\ history = [spent |-> {}, twice |-> {}]
  BY <1>1
<1>3. \E n \in {0, 1, 2} : DOMAIN sessions = 1 .. n
  OBVIOUS
<1>4. /\ \E S : m \in Seq(S)
      /\ DOMAIN m = DOMAIN sessions /\ \A i \in DOMAIN m : m[i].kind = sessions[i]
  <2> DEFINE S == {[kind |-> sessions[i], session |-> i] : i \in DOMAIN sessions}
  <2>1. PICK n \in {0, 1, 2} : DOMAIN sessions = 1 .. n
    BY <1>3
  <2>2. m \in [1 .. n -> S] /\ n \in Nat
    BY <2>1
  <2>3. DOMAIN m = DOMAIN sessions /\ \A i \in DOMAIN m : m[i].kind = sessions[i]
    OBVIOUS
  <2> HIDE DEF m, S
  <2>4. m \in Seq(S)
    BY <2>2
  <2> QED BY <2>3, <2>4
<1>5. \A kind \in {"operator", "demo"} : IsOf(latest(kind), kind, m, {})
  <2>1. SUFFICES ASSUME NEW kind \in {"operator", "demo"}, held(kind) # {}
                 PROVE  latest(kind) \in held(kind)
    <3>1. \A kind \in {"operator", "demo"} : latest(kind) = None \/ held(kind) # {}
      OBVIOUS
    <3>2. \A kind : \A i \in held(kind) : i \in DOMAIN sessions /\ sessions[i] = kind
      OBVIOUS
    <3> HIDE DEF held, latest, m
    <3> QED BY <1>4, <2>1, <3>1, <3>2 DEF IsOf
  <2>2. \E a \in {1, 2} : held(kind) = {a}
    <3>1. CASE sessions = <<>>
      BY <2>1, <3>1
    <3>2. CASE sessions = <<"operator">>
      BY <2>1, <3>2
    <3>3. CASE sessions = <<"demo">>
      BY <2>1, <3>3
    <3>4. CASE sessions = <<"operator", "demo">>
      BY <2>1, <3>4
    <3> QED BY <3>1, <3>2, <3>3, <3>4
  <2>3. PICK a \in {1, 2} : held(kind) = {a}
    BY <2>2
  <2>4. latest(kind) = Max({a})
    BY <2>3
  <2> HIDE DEF held, latest
  <2> QED BY <2>3, <2>4, MaxOfOne
<1> HIDE DEF held, latest, m
<1>6. /\ DOMAIN Here = {"tab", "call", "shared"}
      /\ Here.tab = tab /\ Here.call = call /\ Here.shared = shared
  BY DEF Here
<1>7. /\ DOMAIN tab = {"access", "demo", "kept", "user", "demoEnded", "screen"}
      /\ tab.access = None /\ tab.kept = latest("demo") /\ tab.user = None
      /\ tab.screen = "blank"
  BY <1>2
<1>8. TabOK(tab, m, {})
  BY <1>5, <1>7 DEF TabOK, IsOf
<1>9. SharedOK(shared, m, {})
  <2>1. DOMAIN shared = {Opening} /\ shared[Opening] = Fetch([tab |-> tab], "refresh")
    BY <1>2
  <2>2. Fetch([tab |-> tab], "refresh").path = "refresh"
        /\ Fetch([tab |-> tab], "refresh").cookie = jar
    BY DEF Fetch
  <2>3. Opening \in Exchange /\ Opening[2] = "refresh" /\ IsOf(jar, "operator", m, {})
    BY <1>2, <1>5 DEF Exchange, Opening
  <2> QED BY <2>1, <2>2, <2>3 DEF SharedOK
<1>10. /\ DOMAIN racing = DOMAIN Idle /\ racing.pc = "racing" /\ racing.wire = Silent
       /\ racing.signal = FALSE
  BY IdleFields
<1> HIDE DEF racing
<1>11. DOMAIN call = Caller /\ \A c \in Caller : CallOK(call[c], c)
  <2>1. CallOK(racing, "boot")
    BY <1>10 DEF CallOK, Phase, Reading
  <2> QED BY <1>2, <2>1, IdleFields
<1>12. /\ call["boot"].pc = "racing"
       /\ \A c \in Caller \ {"boot"} : call[c].pc = "idle"
  BY <1>2, <1>10, IdleFields, Callers
<1>13. Sound(Here, m, {})
  BY <1>6, <1>7, <1>8, <1>9, <1>11, <1>12 DEF Sound, Core, Shape, Starting, KeptOK
<1>14. ServiceOK(service) /\ service.minted = m
  BY <1>2, <1>4 DEF ServiceOK
<1>15. history.spent = {} /\ history.twice = {} /\ IsOf(jar, "operator", m, {})
  BY <1>2, <1>5
<1> QED BY <1>13, <1>14, <1>15 DEF IInv, Books

(* Every step keeps it, and tells who signs somebody out.                  *)
LEMMA NextInvariant ==
  ASSUME IInv, [Next]_vars
  PROVE  /\ IInv'
         /\ [tab.user # None /\ tab'.user = None =>
               \/ \E c \in Caller : AnswerCall(c)
               \/ \E e \in Exchange : AnswerExchange(e)
               \/ LoseCall("exit")]_vars
<1>1. CASE UNCHANGED vars
  <2>1. IInv'
    BY <1>1 DEF vars, IInv, Here, Books, Token
  <2> QED BY <1>1, <2>1
<1>2. ASSUME NEW c \in Caller, AnswerCall(c)
      PROVE  IInv'
  BY <1>2, AnswerCallStep
<1>3. ASSUME NEW c \in Caller, LoseCall(c)
      PROVE  IInv' /\ (c # "exit" /\ tab.user # None => tab'.user = tab.user)
  BY <1>3, LoseCallStep
<1>4. ASSUME NEW e \in Exchange, AnswerExchange(e)
      PROVE  IInv'
  BY <1>4, AnswerExchangeStep
<1>5. ASSUME NEW e \in Exchange, LoseExchange(e)
      PROVE  IInv' /\ (tab.user # None => tab'.user = tab.user)
  BY <1>5, LoseExchangeStep
<1>6. CASE Deadline
  BY <1>6, DeadlineStep
<1>7. CASE Submit \/ TryTheDemo \/ SignOut \/ \E q \in Reads \cup Writes : Ask(q)
  <2>1. /\ {"form", "door", "exit"} \cup Reads \cup Writes \subseteq Caller \ {"boot"}
        /\ \A pc \in {"login", "logout"} : PathOf(pc) = pc
        /\ PathOf("door") = "demo" /\ PathOf("asked") = "read"
    BY Callers DEF PathOf
  <2>2. PICK c \in Caller \ {"boot"}, pc \in {"login", "door", "logout", "asked"} :
          /\ \E signal : Begin(c, pc, PathOf(pc), signal)
          /\ tab.screen # "blank" /\ (pc = "logout" => c = "exit")
    BY <1>7, <2>1 DEF Submit, TryTheDemo, SignOut, Ask
  <2>3. PICK signal : Begin(c, pc, PathOf(pc), signal)
    BY <2>2
  <2> QED BY <2>2, <2>3, BeginStep
<1>8. ASSUME NEW q \in Reads, Abandon(q)
      PROVE  IInv' /\ tab' = tab
  BY <1>8, AbandonStep
<1>9. ASSUME NEW t \in Token, Expire(t) \/ End(t)
      PROVE  IInv' /\ tab' = tab
  BY <1>9, ElsewhereStep
<1> QED BY <1>1, <1>2, <1>3, <1>4, <1>5, <1>6, <1>7, <1>8, <1>9 DEF Next

LEMMA Invariance == Spec => []IInv
<1>1. Init => IInv
  BY InitInvariant
<1>2. IInv /\ [Next]_vars => IInv'
  BY NextInvariant
<1> QED BY <1>1, <1>2, PTL DEF Spec

(* No exchange honours a credential again that an exchange spent and was   *)
(* heard of: there is one exchange at a door at a time, and none of them,  *)
(* nor the jar, nor the tab holds what is spent (refreshInFlight,          *)
(* renewalInFlight).                                                       *)
THEOREM CredentialsAreSpentOnce == Spec => []SpentOnce
<1>1. IInv => SpentOnce
  BY DEF IInv, Books, SpentOnce
<1> QED BY <1>1, Invariance, PTL

(* The tab renews every token at the door it came from (setAccessToken,    *)
(* setDemoToken, renew).                                                   *)
THEOREM DoorsMatch == Spec => []EachRenewsItsOwn
<1>1. ASSUME IInv PROVE EachRenewsItsOwn
  <2>1. /\ TabOK(tab, service.minted, history.spent)
        /\ SharedOK(shared, service.minted, history.spent)
        /\ tab.screen # "blank" => Matches(Here)
        /\ Here.tab = tab
    BY <1>1, HereFields DEF IInv, Core, Starting, KeptOK, Phase
  <2> QED BY <2>1 DEF EachRenewsItsOwn, TabOK, SharedOK, IsOf, Kind, Matches
<1> QED BY <1>1, Invariance, PTL

(* Nothing but an answer, or Sign out, ends a session on the screen        *)
(* (RefreshOutcome, onSessionLost, onDemoEnded).                           *)
THEOREM SilenceIsHarmless == Spec => SilenceEndsNothing
<1>1. IInv /\ [Next]_vars =>
        [tab.user # None /\ tab'.user = None =>
           \/ \E c \in Caller : AnswerCall(c)
           \/ \E e \in Exchange : AnswerExchange(e)
           \/ LoseCall("exit")]_vars
  BY NextInvariant
<1> QED BY <1>1, Invariance, PTL DEF Spec, SilenceEndsNothing

(* Nobody waits for an exchange that is gone: whoever gives one up, or     *)
(* ends it, tells all who joined it (refreshInFlight, renewalInFlight).    *)
THEOREM WaitersAreTold == Spec => [](\A c \in Caller : Told(c))
<1>1. Init => IInv /\ Waits(Here, {})
  <2>1. SUFFICES ASSUME Init PROVE Waits(Here, {})
    BY InitInvariant
  <2>2. \A c \in Caller : call[c].on \in DOMAIN shared \cup {None}
    <3>1. DOMAIN shared = {Opening}
      BY <2>1 DEF Init
    <3>2. \A c \in Caller : call[c].on \in {None, Opening}
      BY <2>1, IdleFields DEF Init
    <3> QED BY <3>1, <3>2
  <2>3. /\ Shape(Here) /\ Here.call = call /\ Here.shared = shared
        /\ \A c \in Caller : DOMAIN call[c] = DOMAIN Idle
    BY <2>1, InitInvariant, HereFields DEF IInv, Core, CallOK
  <2> QED BY <2>2, <2>3 DEF Waits
<1>2. IInv /\ Waits(Here, {}) /\ [Next]_vars => (IInv /\ Waits(Here, {}))'
  BY NextInvariant, NextWaits
<1>3. IInv /\ Waits(Here, {}) => \A c \in Caller : Told(c)
  BY HereFields DEF IInv, Waits, Told
<1> QED BY <1>1, <1>2, <1>3, PTL DEF Spec
=============================================================================
