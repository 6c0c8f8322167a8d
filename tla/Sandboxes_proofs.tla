------------------------- MODULE Sandboxes_proofs --------------------------
(***************************************************************************)
(* Theorems about Sandboxes, for every number of worlds, requests and      *)
(* slots, every TTL and ceiling, and without regard to the bounds on the   *)
(* clock and on restarts.                                                  *)
(***************************************************************************)
EXTENDS Sandboxes, FiniteSetTheorems, TLAPS

Builds(q) == q.pc \in {"connect", "write"}

Held == standing \cup unpurged

(* A world's expiry: not past its ceiling, and not before its last use     *)
(* allows.                                                                 *)
Timed(w) ==
    /\ world[w].expires_at <= world[w].ceiling_at
    /\ Sooner(world[w].used + SANDBOX_TTL, world[w].ceiling_at) <= world[w].expires_at
    /\ w \in standing => world[w].ceiling_at >= SANDBOX_CEILING

(* A request is younger than a TTL, so the world it builds is alive.       *)
Young(q) ==
    q.pc # "idle" =>
        /\ q.world \in Sandbox /\ q.at <= now /\ now < q.at + SANDBOX_TTL
        /\ world[q.world].ceiling_at >= SANDBOX_CEILING
        /\ q.pc \in {"connect", "write", "load_user", "renew"}
             => q.at < world[q.world].ceiling_at
        /\ Builds(q) => /\ q.world \in standing
                        /\ q.at + SANDBOX_TTL <= world[q.world].expires_at

(* Nobody else builds the world a request builds.                          *)
Alone ==
    \A r, s \in Request :
        Builds(req[r]) /\ Builds(req[s]) /\ req[r].world = req[s].world => r = s

(* What the ticker works on is held; and of the worlds that are not held,  *)
(* an open sweep has listed all and deleted what its statements so far     *)
(* could.                                                                  *)
Sweeps == {"sweep_users", "sweep_journal", "sweep_rest"}

Rounds ==
    /\ loop.pc \in {"tick", "record"} => loop.todo \subseteq Held
    /\ loop.pc = "record" => loop.world \in Held
    /\ loop.pc \in Sweeps => Sandbox \ Held \subseteq loop.todo
    /\ loop.pc \in {"sweep_journal", "sweep_rest"} =>
         \A w \in Sandbox \ Held : rows[w] \cap {"operators", "audit"} \subseteq loop.doomed[w]
    /\ loop.pc = "sweep_rest" =>
         \A w \in Sandbox \ Held : rows[w] \cap {"journal"} \subseteq loop.doomed[w]

Slots == IsFiniteSet(standing) /\ Cardinality(standing) <= MAX_SANDBOXES

IInv ==
    /\ TypeOK /\ Slots /\ Alone /\ Rounds
    /\ \A w \in Sandbox : Timed(w)
    /\ \A r \in Request : Young(req[r])
    /\ NoOrphanRows /\ StandingIsReachable

-----------------------------------------------------------------------------
(* Whole seconds *)

LEMMA Division ==
  ASSUME NEW n \in Nat, NEW d \in Nat \ {0}
  PROVE  /\ n \div d \in Nat
         /\ (n \div d) * d \in Nat
         /\ (n \div d) * d <= n
         /\ n < (n \div d) * d + d
OBVIOUS

(* A pass minted before the ceiling has an expiry.                         *)
LEMMA PassHasExpiry ==
  ASSUME NEW w \in Sandbox, NEW at \in Nat, world[w].ceiling_at \in Nat,
         at < world[w].ceiling_at, SANDBOX_CEILING <= world[w].ceiling_at
  PROVE  PassExpiry(w, at) \in Nat /\ PassExpiry(w, at) # 0
<1> DEFINE x == WholeSecond(at)
           y == x + (world[w].ceiling_at - at)
<1>1. SECOND \in Nat \ {0} /\ SANDBOX_CEILING \in Nat /\ 2 * SECOND <= SANDBOX_CEILING
  BY SandboxAssumption
<1>2. x \in Nat /\ at < x + SECOND
  BY <1>1, Division DEF WholeSecond
<1> HIDE DEF x
<1>3. y \in Nat /\ y >= SECOND
  BY <1>1, <1>2
<1> HIDE DEF y
<1>4. WholeSecond(y) \in Nat /\ y < WholeSecond(y) + SECOND
  BY <1>1, <1>3, Division DEF WholeSecond
<1>5. WholeSecond(y) # 0
  BY <1>1, <1>3, <1>4
<1>6. PassExpiry(w, at) = WholeSecond(y)
  BY DEF PassExpiry, x, y
<1> QED BY <1>4, <1>5, <1>6

-----------------------------------------------------------------------------
(* Records *)

LEMMA IdleType == Idle \in Req /\ Idle.pc = "idle"
BY DEF Idle, Req

LEMMA AsleepType == Asleep \in Loop /\ Asleep.pc = "sleep"
BY DEF Asleep, Loop, Spared

(* One request changes, the others stay.                                   *)
LEMMA OneRequest ==
  ASSUME TypeOK, NEW r \in Request, NEW q \in Req, req' = [req EXCEPT ![r] = q]
  PROVE  /\ req' \in [Request -> Req]
         /\ req'[r] = q
         /\ \A s \in Request \ {r} : req'[s] = req[s]
BY DEF TypeOK

(* Extending a world keeps its times in order and its ceiling in place.    *)
LEMMA ExtendTimes ==
  ASSUME TypeOK, NEW w \in Sandbox, NEW at \in Nat, Extend(w, at),
         UNCHANGED standing, \A v \in Sandbox : Timed(v)
  PROVE  /\ world' \in [Sandbox -> World]
         /\ \A v \in Sandbox : /\ Timed(v)'
                               /\ world'[v].ceiling_at = world[v].ceiling_at
                               /\ world'[v].expires_at >= world[v].expires_at
<1> DEFINE old == world[w]
           new == world'[w]
<1>1. SANDBOX_TTL \in Nat
  BY SandboxAssumption
<1>2. /\ old.expires_at \in Nat /\ old.ceiling_at \in Nat /\ old.used \in Nat
      /\ old.pending \in BOOLEAN
  BY DEF TypeOK, World
<1>3. world' = [world EXCEPT ![w] = [old EXCEPT !.expires_at = Extended(w, at),
                                                !.used = Later(old.used, at)]]
  BY DEF Extend, TypeOK, World
<1>4. /\ new.expires_at = Extended(w, at) /\ new.used = Later(old.used, at)
      /\ new.ceiling_at = old.ceiling_at /\ new.pending = old.pending
  BY <1>3 DEF TypeOK, World
<1>5. Extended(w, at) \in Nat /\ Later(old.used, at) \in Nat
  BY <1>1, <1>2 DEF Extended, Later, Sooner
<1>6. world' \in [Sandbox -> World]
  BY <1>2, <1>3, <1>5 DEF TypeOK, World
<1>7. Timed(w)' /\ new.expires_at >= old.expires_at
  <2>1. Timed(w)
    OBVIOUS
  <2> QED BY <1>1, <1>2, <1>4, <2>1 DEF Timed, Extended, Later, Sooner
<1>8. ASSUME NEW v \in Sandbox, v # w
      PROVE  world'[v] = world[v] /\ Timed(v)' /\ world'[v].expires_at >= world[v].expires_at
  <2>1. world'[v] = world[v]
    BY <1>3, <1>8 DEF TypeOK
  <2>2. Timed(v) /\ world[v].expires_at \in Nat
    BY DEF TypeOK, World
  <2> QED BY <2>1, <2>2 DEF Timed
<1> QED BY <1>4, <1>6, <1>7, <1>8

(* So does taking the events out of its sink, or putting some in.          *)
LEMMA PendingTimes ==
  ASSUME TypeOK, NEW w \in Sandbox, NEW pending \in BOOLEAN,
         world' = [world EXCEPT ![w].pending = pending],
         UNCHANGED standing, \A v \in Sandbox : Timed(v)
  PROVE  /\ world' \in [Sandbox -> World]
         /\ \A v \in Sandbox : /\ Timed(v)'
                               /\ world'[v].ceiling_at = world[v].ceiling_at
                               /\ world'[v].expires_at = world[v].expires_at
                               /\ world'[v].expires_at >= world[v].expires_at
<1>1. world' \in [Sandbox -> World]
  BY DEF TypeOK, World
<1>2. ASSUME NEW v \in Sandbox
      PROVE  /\ world'[v].ceiling_at = world[v].ceiling_at
             /\ world'[v].expires_at = world[v].expires_at
             /\ world'[v].used = world[v].used
             /\ world[v].expires_at \in Nat
  BY DEF TypeOK, World
<1> QED BY <1>1, <1>2 DEF Timed

(* What a step leaves alone keeps its type and its times.                  *)
LEMMA WorldsStay ==
  ASSUME IInv, UNCHANGED <<world, standing>>
  PROVE  /\ world' \in [Sandbox -> World]
         /\ \A w \in Sandbox : /\ Timed(w)'
                               /\ world'[w].ceiling_at = world[w].ceiling_at
                               /\ world'[w].expires_at >= world[w].expires_at
BY DEF IInv, TypeOK, World, Timed

LEMMA RowsStay ==
  ASSUME IInv, UNCHANGED rows
  PROVE  rows' \in [Sandbox -> SUBSET Kind] /\ \A w \in Sandbox : rows'[w] = rows[w]
BY DEF IInv, TypeOK

LEMMA PassesStay ==
  ASSUME IInv, UNCHANGED pass
  PROVE  pass' \in [Sandbox -> Nat] /\ \A w \in Sandbox : pass[w] # 0 => pass'[w] # 0
BY DEF IInv, TypeOK

-----------------------------------------------------------------------------
(* Steps of one request inside a world that stands or is gone *)

LEMMA RequestStep ==
  ASSUME IInv, NEW r \in Request, NEW q \in Req, req' = [req EXCEPT ![r] = q],
         UNCHANGED <<now, seeded, loop, restarts, standing, unpurged>>,
         world' \in [Sandbox -> World],
         \A w \in Sandbox : /\ Timed(w)'
                            /\ world'[w].ceiling_at = world[w].ceiling_at
                            /\ world'[w].expires_at >= world[w].expires_at,
         rows' \in [Sandbox -> SUBSET Kind],
         \A w \in Sandbox : rows'[w] # rows[w] =>
             w \in Held \/ (~seeded /\ loop.pc \notin {"sweep_journal", "sweep_rest"}),
         pass' \in [Sandbox -> Nat],
         \A w \in Sandbox : pass[w] # 0 => pass'[w] # 0,
         Young(q)',
         Builds(q) => Builds(req[r]) /\ q.world = req[r].world,
         Builds(req[r]) /\ ~Builds(q) => pass'[req[r].world] # 0
  PROVE  IInv'
<1>1. /\ req' \in [Request -> Req] /\ req'[r] = q
      /\ \A s \in Request \ {r} : req'[s] = req[s]
  BY OneRequest DEF IInv
<1>2. TypeOK'
  BY <1>1 DEF IInv, TypeOK
<1>3. Slots'
  BY DEF IInv, Slots
<1>4. Alone'
  BY <1>1 DEF IInv, Alone
<1>5. Rounds'
  BY DEF IInv, Rounds, Held, Sweeps
<1>6. ASSUME NEW s \in Request PROVE Young(req[s])'
  <2>1. CASE s = r
    BY <1>1, <2>1 DEF Young, Builds
  <2>2. CASE s # r
    <3>1. Young(req[s]) /\ req'[s] = req[s]
      BY <1>1, <2>2 DEF IInv
    <3>2. req[s].pc # "idle" =>
            /\ req[s].at \in Nat /\ req[s].world \in Sandbox
            /\ world[req[s].world].expires_at \in Nat /\ world'[req[s].world].expires_at \in Nat
      BY <3>1 DEF IInv, TypeOK, Req, World, Young
    <3>3. SANDBOX_TTL \in Nat
      BY SandboxAssumption
    <3> QED BY <3>1, <3>2, <3>3 DEF Young, Builds
  <2> QED BY <2>1, <2>2
<1>7. NoOrphanRows'
  BY DEF IInv, NoOrphanRows, Held
<1>8. StandingIsReachable'
  <2> SUFFICES ASSUME NEW w \in standing, pass'[w] = 0
               PROVE  \E s \in Request : Builds(req'[s]) /\ req'[s].world = w
    BY DEF StandingIsReachable, Building, Builds
  <2>1. w \in Sandbox /\ pass[w] = 0
    BY DEF IInv, TypeOK
  <2>2. PICK s \in Request : Builds(req[s]) /\ req[s].world = w
    BY <2>1 DEF IInv, StandingIsReachable, Building, Builds
  <2>3. CASE s = r
    BY <1>1, <2>2, <2>3
  <2>4. CASE s # r
    BY <1>1, <2>2, <2>4
  <2> QED BY <2>3, <2>4
<1> QED BY <1>2, <1>3, <1>4, <1>5, <1>6, <1>7, <1>8 DEF IInv

LEMMA PressWithPassStep ==
  ASSUME IInv, NEW r \in Request, NEW w \in Sandbox, PressWithPass(r, w)
  PROVE  IInv'
<1>0. PICK q \in Req : q = [Idle EXCEPT !.pc = "load_user", !.world = w, !.at = now]
  BY DEF Idle, Req, IInv, TypeOK
<1>1. /\ q.pc = "load_user" /\ q.world = w /\ q.at = now
      /\ req' = [req EXCEPT ![r] = q] /\ req[r].pc = "idle"
      /\ UNCHANGED <<now, standing, unpurged, world, rows, pass, seeded, loop, restarts>>
  BY <1>0 DEF PressWithPass, Idle
<1>2. /\ w \in standing /\ now < world[w].ceiling_at /\ world[w].ceiling_at >= SANDBOX_CEILING
      /\ now < now + SANDBOX_TTL /\ now <= now
  <2>1. /\ now \in Nat /\ world[w].expires_at \in Nat /\ world[w].ceiling_at \in Nat
        /\ SANDBOX_TTL \in Nat \ {0} /\ Timed(w)
    BY SandboxAssumption DEF IInv, TypeOK, World
  <2> QED BY <2>1 DEF PressWithPass, Alive, Timed
<1>3. Young(q)'
  BY <1>1, <1>2 DEF Young, Builds
<1>4. ~Builds(q) /\ ~Builds(req[r])
  BY <1>1 DEF Builds
<1>5. /\ world' \in [Sandbox -> World]
      /\ \A v \in Sandbox : /\ Timed(v)' /\ world'[v].ceiling_at = world[v].ceiling_at
                            /\ world'[v].expires_at >= world[v].expires_at
  BY <1>1, WorldsStay
<1>6. /\ rows' \in [Sandbox -> SUBSET Kind] /\ (\A v \in Sandbox : rows'[v] = rows[v])
      /\ pass' \in [Sandbox -> Nat] /\ (\A v \in Sandbox : pass[v] # 0 => pass'[v] # 0)
  BY <1>1, RowsStay, PassesStay
<1> QED BY <1>1, <1>3, <1>4, <1>5, <1>6, RequestStep

LEMMA ResolveStep ==
  ASSUME IInv, NEW r \in Request, NEW w \in Sandbox, Resolve(r, w)
  PROVE  IInv'
<1>0. PICK q \in Req : q = [Idle EXCEPT !.pc = "op_load", !.world = w, !.at = now]
  BY DEF Idle, Req, IInv, TypeOK
<1>1. /\ q.pc = "op_load" /\ q.world = w /\ q.at = now
      /\ req' = [req EXCEPT ![r] = q] /\ req[r].pc = "idle" /\ Extend(w, now)
      /\ UNCHANGED <<now, standing, unpurged, rows, pass, seeded, loop, restarts>>
  BY <1>0 DEF Resolve, Idle
<1>2. /\ now \in Nat /\ TypeOK /\ (\A v \in Sandbox : Timed(v))
  BY DEF IInv, TypeOK
<1>3. /\ world' \in [Sandbox -> World]
      /\ \A v \in Sandbox : /\ Timed(v)' /\ world'[v].ceiling_at = world[v].ceiling_at
                            /\ world'[v].expires_at >= world[v].expires_at
  BY <1>1, <1>2, ExtendTimes
<1>4. world'[w].ceiling_at >= SANDBOX_CEILING /\ now < now + SANDBOX_TTL /\ now <= now
  <2>1. w \in standing /\ SANDBOX_TTL \in Nat \ {0}
    BY SandboxAssumption DEF Resolve, Alive
  <2> QED BY <1>2, <1>3, <2>1 DEF Timed
<1>5. Young(q)'
  BY <1>1, <1>4 DEF Young, Builds
<1>6. ~Builds(q) /\ ~Builds(req[r])
  BY <1>1 DEF Builds
<1>7. /\ rows' \in [Sandbox -> SUBSET Kind] /\ (\A v \in Sandbox : rows'[v] = rows[v])
      /\ pass' \in [Sandbox -> Nat] /\ (\A v \in Sandbox : pass[v] # 0 => pass'[v] # 0)
  BY <1>1, RowsStay, PassesStay
<1> QED BY <1>1, <1>3, <1>5, <1>6, <1>7, RequestStep

(* A request that is over owes nothing.                                    *)
LEMMA IdleIsYoung == Young(Idle)' /\ ~Builds(Idle)
BY IdleType DEF Young, Builds

(* What a request under way may count on.                                  *)
LEMMA UnderWay ==
  ASSUME IInv, NEW r \in Request, req[r].pc # "idle"
  PROVE  /\ req[r] \in Req /\ req[r].world \in Sandbox /\ req[r].at \in Nat
         /\ Young(req[r])
         /\ world[req[r].world] \in World
         /\ world[req[r].world].ceiling_at \in Nat
         /\ world[req[r].world].expires_at \in Nat
BY DEF IInv, TypeOK, Req, World, Young

LEMMA RenewStep ==
  ASSUME IInv, NEW r \in Request, Renew(r)
  PROVE  IInv'
<1> DEFINE w == req[r].world
           exp == PassExpiry(w, req[r].at)
<1>1. /\ req[r].pc = "renew" /\ req' = [req EXCEPT ![r] = Idle]
      /\ pass' = [pass EXCEPT ![w] = exp] \/ pass' = pass
      /\ UNCHANGED <<now, standing, unpurged, world, rows, seeded, loop, restarts>>
  BY DEF Renew
<1>2. w \in Sandbox /\ exp \in Nat /\ exp # 0
  <2>1. /\ w \in Sandbox /\ req[r].at \in Nat /\ world[w].ceiling_at \in Nat
        /\ req[r].at < world[w].ceiling_at /\ SANDBOX_CEILING <= world[w].ceiling_at
    BY <1>1, UnderWay, SandboxAssumption DEF Young
  <2> QED BY <2>1, PassHasExpiry
<1> HIDE DEF exp
<1>3. pass' \in [Sandbox -> Nat] /\ \A v \in Sandbox : pass[v] # 0 => pass'[v] # 0
  BY <1>1, <1>2 DEF IInv, TypeOK
<1>4. ~Builds(req[r])
  BY <1>1 DEF Builds
<1>5. /\ world' \in [Sandbox -> World]
      /\ \A v \in Sandbox : /\ Timed(v)' /\ world'[v].ceiling_at = world[v].ceiling_at
                            /\ world'[v].expires_at >= world[v].expires_at
  BY <1>1, WorldsStay
<1>6. rows' \in [Sandbox -> SUBSET Kind] /\ (\A v \in Sandbox : rows'[v] = rows[v])
  BY <1>1, RowsStay
<1> QED BY <1>1, <1>3, <1>4, <1>5, <1>6, IdleType, IdleIsYoung, RequestStep

LEMMA DrainStep ==
  ASSUME IInv, NEW r \in Request, Drain(r)
  PROVE  IInv'
<1> DEFINE w == req[r].world
<1>1. /\ req[r].pc = "connect" /\ world' = [world EXCEPT ![w].pending = FALSE]
      /\ UNCHANGED <<now, standing, unpurged, rows, pass, seeded, loop, restarts>>
  BY DEF Drain
<1>2. /\ req[r] \in Req /\ w \in Sandbox /\ req[r].at \in Nat /\ Young(req[r])
      /\ world[w].pending \in BOOLEAN
  BY <1>1, UnderWay DEF World
<1>0. PICK q \in Req : q = [req[r] EXCEPT !.pc = "write", !.took = world[w].pending]
  BY <1>2 DEF Req
<1>3. /\ q.pc = "write" /\ q.world = w /\ q.at = req[r].at
      /\ req' = [req EXCEPT ![r] = q]
  BY <1>0, <1>2 DEF Drain, Req, IInv, TypeOK
<1>4. /\ world' \in [Sandbox -> World]
      /\ \A v \in Sandbox : /\ Timed(v)' /\ world'[v].ceiling_at = world[v].ceiling_at
                            /\ world'[v].expires_at = world[v].expires_at
                            /\ world'[v].expires_at >= world[v].expires_at
  BY <1>1, <1>2, PendingTimes DEF IInv
<1>5. Builds(q) /\ Builds(req[r])
  BY <1>1, <1>3 DEF Builds
<1>6. Young(q)'
  BY <1>1, <1>2, <1>3, <1>4, <1>5 DEF Young, Builds
<1>7. /\ rows' \in [Sandbox -> SUBSET Kind] /\ (\A v \in Sandbox : rows'[v] = rows[v])
      /\ pass' \in [Sandbox -> Nat] /\ (\A v \in Sandbox : pass[v] # 0 => pass'[v] # 0)
  BY <1>1, RowsStay, PassesStay
<1> QED BY <1>1, <1>3, <1>4, <1>5, <1>6, <1>7, RequestStep

LEMMA FinishBuildStep ==
  ASSUME IInv, NEW r \in Request, FinishBuild(r)
  PROVE  IInv'
<1> DEFINE w == req[r].world
           exp == PassExpiry(w, req[r].at)
<1>1. /\ req[r].pc = "write" /\ req' = [req EXCEPT ![r] = Idle]
      /\ pass' = [pass EXCEPT ![w] = exp]
      /\ rows' = [rows EXCEPT ![w] = @ \cup BuiltRows(r)]
      /\ UNCHANGED <<now, standing, unpurged, world, seeded, loop, restarts>>
  BY DEF FinishBuild
<1>2. /\ w \in Sandbox /\ exp \in Nat /\ exp # 0 /\ w \in Held
  <2>1. /\ w \in Sandbox /\ req[r].at \in Nat /\ world[w].ceiling_at \in Nat
        /\ req[r].at < world[w].ceiling_at /\ SANDBOX_CEILING <= world[w].ceiling_at
        /\ w \in standing
    BY <1>1, UnderWay, SandboxAssumption DEF Young, Builds
  <2> QED BY <2>1, PassHasExpiry DEF Held
<1> HIDE DEF exp
<1>3. /\ pass' \in [Sandbox -> Nat] /\ pass'[w] # 0
      /\ \A v \in Sandbox : pass[v] # 0 => pass'[v] # 0
  BY <1>1, <1>2 DEF IInv, TypeOK
<1>4. rows' \in [Sandbox -> SUBSET Kind] /\ \A v \in Sandbox : rows'[v] # rows[v] => v \in Held
  BY <1>1, <1>2 DEF IInv, TypeOK, BuiltRows, Kind
<1>5. /\ world' \in [Sandbox -> World]
      /\ \A v \in Sandbox : /\ Timed(v)' /\ world'[v].ceiling_at = world[v].ceiling_at
                            /\ world'[v].expires_at >= world[v].expires_at
  BY <1>1, WorldsStay
<1> QED BY <1>1, <1>3, <1>4, <1>5, IdleType, IdleIsYoung, RequestStep

LEMMA PerformStep ==
  ASSUME IInv, NEW r \in Request, Perform(r)
  PROVE  IInv'
<1> DEFINE w == req[r].world
<1>1. /\ req[r].pc = "op_load"
      /\ UNCHANGED <<now, standing, unpurged, rows, pass, seeded, loop, restarts>>
  BY DEF Perform
<1>2. /\ req[r] \in Req /\ w \in Sandbox /\ req[r].at \in Nat /\ Young(req[r])
      /\ world[w].pending \in BOOLEAN /\ ~Builds(req[r])
  BY <1>1, UnderWay DEF World, Builds
<1>3. /\ rows' \in [Sandbox -> SUBSET Kind] /\ (\A v \in Sandbox : rows'[v] = rows[v])
      /\ pass' \in [Sandbox -> Nat] /\ (\A v \in Sandbox : pass[v] # 0 => pass'[v] # 0)
  BY <1>1, RowsStay, PassesStay
<1>4. CASE "operators" \in rows[w]
  <2>1. PICK emits \in BOOLEAN :
          req' = [req EXCEPT ![r].pc = "op_write", ![r].took = emits \/ world[w].pending]
    BY <1>4 DEF Perform
  <2> DEFINE took == emits \/ world[w].pending
  <2>2. took \in BOOLEAN
    BY <1>2
  <2> HIDE DEF took
  <2>3. req' = [req EXCEPT ![r].pc = "op_write", ![r].took = took]
    BY <2>1 DEF took
  <2>0. PICK q \in Req : q = [req[r] EXCEPT !.pc = "op_write", !.took = took]
    BY <1>2, <2>2 DEF Req
  <2>4. /\ q.pc = "op_write" /\ q.world = w /\ q.at = req[r].at
        /\ req' = [req EXCEPT ![r] = q]
    BY <1>2, <2>0, <2>3 DEF Req, IInv, TypeOK
  <2>5. world' = [world EXCEPT ![w].pending = FALSE]
    BY <1>4 DEF Perform
  <2>6. /\ world' \in [Sandbox -> World]
        /\ \A v \in Sandbox : /\ Timed(v)' /\ world'[v].ceiling_at = world[v].ceiling_at
                              /\ world'[v].expires_at >= world[v].expires_at
    BY <1>1, <1>2, <2>5, PendingTimes DEF IInv
  <2>7. Young(q)' /\ ~Builds(q)
    BY <1>1, <1>2, <2>4, <2>6 DEF Young, Builds
  <2> QED BY <1>1, <1>2, <1>3, <2>4, <2>6, <2>7, RequestStep
<1>5. CASE "operators" \notin rows[w]
  <2>1. req' = [req EXCEPT ![r] = Idle] /\ UNCHANGED world
    BY <1>5 DEF Perform
  <2>2. /\ world' \in [Sandbox -> World]
        /\ \A v \in Sandbox : /\ Timed(v)' /\ world'[v].ceiling_at = world[v].ceiling_at
                              /\ world'[v].expires_at >= world[v].expires_at
    BY <1>1, <2>1, WorldsStay
  <2> QED BY <1>1, <1>2, <1>3, <2>1, <2>2, IdleType, IdleIsYoung, RequestStep
<1> QED BY <1>4, <1>5

LEMMA CommitStep ==
  ASSUME IInv, NEW r \in Request, Commit(r)
  PROVE  IInv'
<1> DEFINE w == req[r].world
<1>1. /\ req[r].pc = "op_write" /\ req' = [req EXCEPT ![r] = Idle]
      /\ UNCHANGED <<now, standing, unpurged, world, pass, seeded, loop, restarts>>
      /\ \/ /\ "operators" \in rows[w] \ loop.doomed[w]
            /\ rows' = [rows EXCEPT ![w] = @ \cup PerformedRows(r)]
         \/ UNCHANGED rows
  BY DEF Commit
<1>2. w \in Sandbox /\ ~Builds(req[r])
  BY <1>1, UnderWay DEF Builds
<1>3. rows \in [Sandbox -> SUBSET Kind] /\ rows' \in [Sandbox -> SUBSET Kind]
  BY <1>1, <1>2 DEF IInv, TypeOK, PerformedRows, Kind
<1>4. \A v \in Sandbox : rows'[v] # rows[v] =>
          v \in Held \/ (~seeded /\ loop.pc \notin {"sweep_journal", "sweep_rest"})
  <2>1. \A v \in Sandbox : rows'[v] # rows[v] =>
           v = w /\ "operators" \in rows[w] /\ "operators" \notin loop.doomed[w]
    BY <1>1, <1>2, <1>3
  <2>2. w \notin Held /\ "operators" \in rows[w] => ~seeded
    BY <1>2 DEF IInv, NoOrphanRows, Held
  <2>3. w \notin Held /\ "operators" \in rows[w] /\ "operators" \notin loop.doomed[w]
          => loop.pc \notin {"sweep_journal", "sweep_rest"}
    BY <1>2 DEF IInv, Rounds
  <2> QED BY <2>1, <2>2, <2>3
<1>5. /\ world' \in [Sandbox -> World]
      /\ \A v \in Sandbox : /\ Timed(v)' /\ world'[v].ceiling_at = world[v].ceiling_at
                            /\ world'[v].expires_at >= world[v].expires_at
  BY <1>1, WorldsStay
<1>6. pass' \in [Sandbox -> Nat] /\ (\A v \in Sandbox : pass[v] # 0 => pass'[v] # 0)
  BY <1>1, PassesStay
<1> QED BY <1>1, <1>2, <1>3, <1>4, <1>5, <1>6, IdleType, IdleIsYoung, RequestStep

(* The press goes on into the world it found, or, if its operator is gone, *)
(* builds one: the next lemma.                                             *)
LEMMA ExtendStep ==
  ASSUME IInv, NEW r \in Request, LoadUser(r), "operators" \in rows[req[r].world]
  PROVE  IInv'
<1> DEFINE w == req[r].world
<1>1. /\ req[r].pc = "load_user" /\ Extend(w, req[r].at)
      /\ req' = [req EXCEPT ![r].pc = "renew"]
      /\ UNCHANGED <<now, standing, unpurged, rows, pass, seeded, loop, restarts>>
  BY DEF LoadUser
<1>2. /\ req[r] \in Req /\ w \in Sandbox /\ req[r].at \in Nat /\ Young(req[r])
      /\ ~Builds(req[r])
  BY <1>1, UnderWay DEF Builds
<1>3. PICK q \in Req : q = [req[r] EXCEPT !.pc = "renew"]
  BY <1>2 DEF Req
<1>4. /\ q.pc = "renew" /\ q.world = w /\ q.at = req[r].at
      /\ req' = [req EXCEPT ![r] = q]
  BY <1>1, <1>2, <1>3 DEF Req, IInv, TypeOK
<1>5. /\ world' \in [Sandbox -> World]
      /\ \A v \in Sandbox : /\ Timed(v)' /\ world'[v].ceiling_at = world[v].ceiling_at
                            /\ world'[v].expires_at >= world[v].expires_at
  BY <1>1, <1>2, ExtendTimes DEF IInv
<1>6. Young(q)' /\ ~Builds(q)
  BY <1>1, <1>2, <1>4, <1>5 DEF Young, Builds
<1>7. /\ rows' \in [Sandbox -> SUBSET Kind] /\ (\A v \in Sandbox : rows'[v] = rows[v])
      /\ pass' \in [Sandbox -> Nat] /\ (\A v \in Sandbox : pass[v] # 0 => pass'[v] # 0)
  BY <1>1, RowsStay, PassesStay
<1> QED BY <1>1, <1>2, <1>4, <1>5, <1>6, <1>7, RequestStep

-----------------------------------------------------------------------------
(* Worlds come and go *)

(* What the others may go on counting on.                                  *)
LEMMA OthersStayYoung ==
  ASSUME IInv, NEW s \in Request, req'[s] = req[s], UNCHANGED now,
         req[s].pc # "idle" =>
             /\ world'[req[s].world].ceiling_at = world[req[s].world].ceiling_at
             /\ world'[req[s].world].expires_at = world[req[s].world].expires_at,
         Builds(req[s]) => req[s].world \in standing'
  PROVE  Young(req[s])'
<1>1. Young(req[s])
  BY DEF IInv
<1> QED BY <1>1 DEF Young, Builds

LEMMA CreateStep ==
  ASSUME IInv, NEW r \in Request, NEW at \in Nat, at <= now, now < at + SANDBOX_TTL,
         ~Builds(req[r]), Create(r, at),
         UNCHANGED <<now, rows, pass, seeded, loop, restarts>>
  PROVE  IInv'
<1>1. CASE HasRoom
  <2>1. PICK w \in Sandbox :
          /\ Fresh(w) /\ standing' = standing \cup {w}
          /\ world' = [world EXCEPT ![w] =
                          [expires_at |-> at + SANDBOX_TTL, ceiling_at |-> at + SANDBOX_CEILING,
                           pending |-> TRUE, used |-> at]]
          /\ req' = [req EXCEPT ![r] = [Idle EXCEPT !.pc = "connect", !.world = w, !.at = at]]
          /\ UNCHANGED unpurged
    BY <1>1 DEF Create
  <2>2. PICK q \in Req : q = [Idle EXCEPT !.pc = "connect", !.world = w, !.at = at]
    BY DEF Idle, Req
  <2>3. /\ q.pc = "connect" /\ q.world = w /\ q.at = at /\ Builds(q)
        /\ req' = [req EXCEPT ![r] = q]
    BY <2>1, <2>2 DEF Idle, Builds
  <2>4. /\ req' \in [Request -> Req] /\ req'[r] = q
        /\ \A s \in Request \ {r} : req'[s] = req[s]
    BY <2>3, OneRequest DEF IInv
  <2>5. SANDBOX_TTL \in Nat \ {0} /\ SANDBOX_CEILING \in Nat \ {0} /\ SANDBOX_TTL <= SANDBOX_CEILING
    BY SandboxAssumption
  <2>6. /\ world' \in [Sandbox -> World]
        /\ world'[w].expires_at = at + SANDBOX_TTL /\ world'[w].ceiling_at = at + SANDBOX_CEILING
        /\ world'[w].used = at
        /\ \A v \in Sandbox \ {w} : world'[v] = world[v]
    BY <2>1, <2>5 DEF IInv, TypeOK, World
  <2>7. /\ w \notin standing \cup unpurged /\ \A s \in Request : req[s].world # w
    BY <2>1 DEF Fresh
  <2>8. TypeOK'
    BY <2>1, <2>4, <2>6, <2>7 DEF IInv, TypeOK
  <2>9. Slots'
    <3>1. IsFiniteSet(standing') /\ Cardinality(standing') = Cardinality(standing) + 1
      BY <2>1, <2>7, FS_AddElement DEF IInv, Slots
    <3>2. Cardinality(standing) \in Nat
      BY FS_CardinalityType DEF IInv, Slots
    <3> QED BY <1>1, <3>1, <3>2, SandboxAssumption DEF Slots, HasRoom
  <2>10. Alone'
    BY <2>3, <2>4, <2>7 DEF IInv, Alone
  <2>11. Rounds'
    BY <2>1 DEF IInv, Rounds, Held, Sweeps
  <2>12. ASSUME NEW v \in Sandbox PROVE Timed(v)'
    <3>1. CASE v = w
      BY <2>5, <2>6, <3>1 DEF Timed, Sooner
    <3>2. CASE v # w
      <4>1. Timed(v) /\ world'[v] = world[v] /\ (v \in standing' => v \in standing)
        BY <2>1, <2>6, <3>2 DEF IInv
      <4> QED BY <4>1 DEF Timed
    <3> QED BY <3>1, <3>2
  <2>13. ASSUME NEW s \in Request PROVE Young(req[s])'
    <3>1. CASE s = r
      <4>1. /\ w \in Sandbox /\ w \in standing' /\ at < at + SANDBOX_CEILING
            /\ at + SANDBOX_CEILING >= SANDBOX_CEILING
        BY <2>1, <2>5
      <4>2. world'[w].ceiling_at >= SANDBOX_CEILING /\ at < world'[w].ceiling_at
        BY <2>6, <4>1
      <4>3. at + SANDBOX_TTL <= world'[w].expires_at /\ at <= now' /\ now' < at + SANDBOX_TTL
        BY <2>5, <2>6
      <4>4. Young(q)'
        BY <2>3, <4>1, <4>2, <4>3 DEF Young
      <4> QED BY <2>4, <3>1, <4>4 DEF Young, Builds
    <3>2. CASE s # r
      <4>1. /\ req[s].pc # "idle" => req[s].world \in Sandbox \ {w}
            /\ Builds(req[s]) => req[s].world \in standing'
        BY <2>1, <2>7 DEF IInv, Young, Builds
      <4> QED BY <2>4, <2>6, <3>2, <4>1, OthersStayYoung
    <3> QED BY <3>1, <3>2
  <2>14. NoOrphanRows'
    BY <2>1 DEF IInv, NoOrphanRows
  <2>15. StandingIsReachable'
    <3> SUFFICES ASSUME NEW v \in standing', pass'[v] = 0
                 PROVE  \E s \in Request : Builds(req'[s]) /\ req'[s].world = v
      BY DEF StandingIsReachable, Building, Builds
    <3>1. CASE v = w
      BY <2>3, <2>4, <3>1
    <3>2. CASE v # w
      <4>1. PICK s \in Request : Builds(req[s]) /\ req[s].world = v
        BY <2>1, <3>2 DEF IInv, StandingIsReachable, Building, Builds
      <4> QED BY <2>4, <4>1
    <3> QED BY <3>1, <3>2
  <2> QED BY <2>8, <2>9, <2>10, <2>11, <2>12, <2>13, <2>14, <2>15 DEF IInv
<1>2. CASE ~HasRoom
  <2>1. req' = [req EXCEPT ![r] = Idle] /\ UNCHANGED <<standing, unpurged, world>>
    BY <1>2 DEF Create, registry
  <2>2. /\ world' \in [Sandbox -> World]
        /\ \A v \in Sandbox : /\ Timed(v)' /\ world'[v].ceiling_at = world[v].ceiling_at
                              /\ world'[v].expires_at >= world[v].expires_at
    BY <2>1, WorldsStay
  <2>3. /\ rows' \in [Sandbox -> SUBSET Kind] /\ (\A v \in Sandbox : rows'[v] = rows[v])
        /\ pass' \in [Sandbox -> Nat] /\ (\A v \in Sandbox : pass[v] # 0 => pass'[v] # 0)
    BY RowsStay, PassesStay
  <2> QED BY <2>1, <2>2, <2>3, IdleType, IdleIsYoung, RequestStep
<1> QED BY <1>1, <1>2

LEMMA LoadUserStep ==
  ASSUME IInv, NEW r \in Request, LoadUser(r)
  PROVE  IInv'
<1>1. CASE "operators" \in rows[req[r].world]
  BY <1>1, ExtendStep
<1>2. CASE "operators" \notin rows[req[r].world]
  <2>1. /\ req[r].pc = "load_user" /\ Create(r, req[r].at)
        /\ UNCHANGED <<now, rows, pass, seeded, loop, restarts>>
    BY <1>2 DEF LoadUser
  <2>2. PICK at \in Nat : at = req[r].at
    BY <2>1, UnderWay
  <2>3. at <= now /\ now < at + SANDBOX_TTL /\ ~Builds(req[r]) /\ Create(r, at)
    BY <2>1, <2>2, UnderWay DEF Young, Builds
  <2> QED BY <2>1, <2>3, CreateStep
<1> QED BY <1>1, <1>2

LEMMA PressWithoutPassStep ==
  ASSUME IInv, NEW r \in Request, PressWithoutPass(r)
  PROVE  IInv'
<1>1. PICK at \in Nat : at = now
  BY DEF IInv, TypeOK
<1>2. SANDBOX_TTL \in Nat \ {0}
  BY SandboxAssumption
<1>3. /\ at <= now /\ now < at + SANDBOX_TTL /\ ~Builds(req[r]) /\ Create(r, at)
      /\ UNCHANGED <<now, rows, pass, seeded, loop, restarts>>
  BY <1>1, <1>2 DEF PressWithoutPass, Builds
<1> QED BY <1>3, CreateStep

(* A failed build takes its own world out of the registry, and no other    *)
(* request builds that one.                                                *)
LEMMA FailBuildStep ==
  ASSUME IInv, NEW r \in Request, FailBuild(r)
  PROVE  IInv'
<1> DEFINE w == req[r].world
<1>1. /\ Builds(req[r]) /\ standing' = standing \ {w}
      /\ req' = [req EXCEPT ![r] = Idle]
      /\ UNCHANGED <<now, world, pass, seeded, loop, restarts>>
  BY DEF FailBuild, Builds
<1>2. w \in Sandbox /\ w \in standing
  BY <1>1, UnderWay DEF Young, Builds
<1>3. unpurged' = unpurged \cup {w}
  BY <1>2 DEF FailBuild
<1>4. Held' = Held
  BY <1>1, <1>2, <1>3 DEF Held
<1>5. /\ req' \in [Request -> Req] /\ req'[r] = Idle
      /\ \A s \in Request \ {r} : req'[s] = req[s]
  BY <1>1, IdleType, OneRequest DEF IInv
<1>6. rows' \in [Sandbox -> SUBSET Kind] /\ \A v \in Sandbox : rows'[v] # rows[v] => v \in Held
  <2>1. rows' = rows \/ rows' = [rows EXCEPT ![w] = @ \cup BuiltRows(r)]
    BY DEF FailBuild
  <2>2. w \in Held /\ BuiltRows(r) \subseteq Kind /\ rows \in [Sandbox -> SUBSET Kind]
    BY <1>2 DEF Held, BuiltRows, Kind, IInv, TypeOK
  <2> QED BY <1>2, <2>1, <2>2
<1>7. TypeOK'
  BY <1>1, <1>2, <1>3, <1>5, <1>6 DEF IInv, TypeOK
<1>8. Slots'
  <2>1. IsFiniteSet(standing') /\ Cardinality(standing') <= Cardinality(standing)
    BY <1>1, FS_Subset DEF IInv, Slots
  <2>2. Cardinality(standing) \in Nat /\ Cardinality(standing') \in Nat
    BY <2>1, FS_CardinalityType DEF IInv, Slots
  <2> QED BY <2>1, <2>2, SandboxAssumption DEF IInv, Slots
<1>9. Alone'
  BY <1>5, IdleIsYoung DEF IInv, Alone
<1>10. Rounds'
  BY <1>1, <1>4, <1>6 DEF IInv, Rounds, Sweeps
<1>11. ASSUME NEW v \in Sandbox PROVE Timed(v)'
  <2>1. Timed(v) /\ (v \in standing' => v \in standing)
    BY <1>1 DEF IInv
  <2> QED BY <1>1, <2>1 DEF Timed
<1>12. ASSUME NEW s \in Request PROVE Young(req[s])'
  <2>1. CASE s = r
    BY <1>5, <2>1, IdleType DEF Young
  <2>2. CASE s # r
    <3>1. Builds(req[s]) => req[s].world \in standing'
      BY <1>1, <1>2, <2>2 DEF IInv, Alone, Young, Builds
    <3> QED BY <1>1, <1>5, <2>2, <3>1, OthersStayYoung
  <2> QED BY <2>1, <2>2
<1>13. NoOrphanRows'
  BY <1>1, <1>4, <1>6 DEF IInv, NoOrphanRows, Held
<1>14. StandingIsReachable'
  <2> SUFFICES ASSUME NEW v \in standing', pass'[v] = 0
               PROVE  \E s \in Request : Builds(req'[s]) /\ req'[s].world = v
    BY DEF StandingIsReachable, Building, Builds
  <2>1. PICK s \in Request : Builds(req[s]) /\ req[s].world = v
    BY <1>1 DEF IInv, StandingIsReachable, Building, Builds
  <2>2. s # r
    BY <1>1, <2>1
  <2> QED BY <1>5, <2>1, <2>2
<1> QED BY <1>7, <1>8, <1>9, <1>10, <1>11, <1>12, <1>13, <1>14 DEF IInv

-----------------------------------------------------------------------------
(* The ticker's steps that leave the registry as it is *)

LEMMA LoopStep ==
  ASSUME IInv, loop' \in Loop, seeded' \in BOOLEAN,
         UNCHANGED <<now, standing, unpurged, pass, req, restarts>>,
         world' \in [Sandbox -> World],
         \A w \in Sandbox : /\ Timed(w)'
                            /\ world'[w].ceiling_at = world[w].ceiling_at
                            /\ world'[w].expires_at = world[w].expires_at,
         rows' \in [Sandbox -> SUBSET Kind],
         NoOrphanRows', Rounds'
  PROVE  IInv'
<1>1. TypeOK' /\ Slots' /\ Alone' /\ StandingIsReachable'
  BY DEF IInv, TypeOK, Slots, Alone, StandingIsReachable, Building
<1>2. ASSUME NEW s \in Request PROVE Young(req[s])'
  <2>1. /\ req[s].pc # "idle" => req[s].world \in Sandbox
        /\ Builds(req[s]) => req[s].world \in standing'
    BY DEF IInv, Young, Builds
  <2> QED BY <2>1, OthersStayYoung
<1> QED BY <1>1, <1>2 DEF IInv

(* Only the ticker itself moves.                                           *)
LEMMA LoopAloneStep ==
  ASSUME IInv, loop' \in Loop, Rounds',
         UNCHANGED <<now, standing, unpurged, world, rows, pass, seeded, req, restarts>>
  PROVE  IInv'
<1>1. /\ world' \in [Sandbox -> World]
      /\ \A w \in Sandbox : /\ Timed(w)' /\ world'[w].ceiling_at = world[w].ceiling_at
                            /\ world'[w].expires_at = world[w].expires_at
  BY WorldsStay
<1>2. rows' \in [Sandbox -> SUBSET Kind] /\ NoOrphanRows' /\ seeded' \in BOOLEAN
  BY DEF IInv, TypeOK, NoOrphanRows
<1> QED BY <1>1, <1>2, LoopStep

LEMMA DoomedType ==
  ASSUME IInv, NEW kinds \in SUBSET Kind
  PROVE  /\ Doomed(kinds) \in [Sandbox -> SUBSET Kind]
         /\ \A w \in Sandbox : loop.doomed[w] \subseteq Doomed(kinds)[w]
         /\ \A w \in Sandbox : w \in loop.todo => rows[w] \cap kinds \subseteq Doomed(kinds)[w]
<1>1. loop.doomed \in [Sandbox -> SUBSET Kind] /\ rows \in [Sandbox -> SUBSET Kind]
  BY DEF IInv, TypeOK, Loop
<1> QED BY <1>1 DEF Doomed

LEMMA WakeStep == IInv /\ Wake => IInv'
<1> SUFFICES ASSUME IInv, Wake PROVE IInv'
  OBVIOUS
<1>1. /\ loop' \in Loop /\ loop'.pc \in {"drop", "repair", "tick"}
      /\ loop'.pc = "tick" => loop'.todo = Live
      /\ UNCHANGED <<now, standing, unpurged, world, rows, pass, seeded, req, restarts>>
  <2>1. loop \in Loop /\ Live \in SUBSET Sandbox
    BY DEF IInv, TypeOK, Live
  <2>2. UNCHANGED <<now, standing, unpurged, world, rows, pass, seeded, req, restarts>>
    BY DEF Wake, LoopOnly, registry
  <2>3. CASE loop.due
    <3>1. \E pc \in {"drop", "repair"} : loop' = [loop EXCEPT !.pc = pc, !.due = FALSE]
      BY <2>3 DEF Wake
    <3> QED BY <2>1, <2>2, <3>1 DEF Loop
  <2>4. CASE ~loop.due
    <3>1. loop' = [loop EXCEPT !.pc = "tick", !.due = TRUE, !.todo = Live]
      BY <2>4 DEF Wake
    <3> QED BY <2>1, <2>2, <3>1 DEF Loop
  <2> QED BY <2>3, <2>4
<1>2. Rounds'
  BY <1>1 DEF Rounds, Live, Held, Sweeps
<1> QED BY <1>1, <1>2, LoopAloneStep

LEMMA RepairStep == IInv /\ Repair => IInv'
<1> SUFFICES ASSUME IInv, Repair PROVE IInv'
  OBVIOUS
<1>1. /\ loop' \in Loop /\ loop'.pc = "sweep_users" /\ loop'.todo = Sandbox \ standing
      /\ UNCHANGED <<now, standing, unpurged, world, rows, pass, seeded, req, restarts>>
  BY DEF Repair, LoopOnly, registry, IInv, TypeOK, Loop
<1>2. Rounds'
  BY <1>1 DEF Rounds, Held, Sweeps
<1> QED BY <1>1, <1>2, LoopAloneStep

LEMMA SweepUsersStep == IInv /\ SweepUsers => IInv'
<1> SUFFICES ASSUME IInv, SweepUsers PROVE IInv'
  OBVIOUS
<1> DEFINE doomed == Doomed({"operators", "audit"})
<1>1. /\ doomed \in [Sandbox -> SUBSET Kind]
      /\ \A w \in Sandbox : w \in loop.todo => rows[w] \cap {"operators", "audit"} \subseteq doomed[w]
  BY DoomedType DEF Kind
<1> HIDE DEF doomed
<1>2. /\ loop' = [loop EXCEPT !.pc = "sweep_journal", !.doomed = doomed] /\ loop.pc = "sweep_users"
      /\ UNCHANGED <<now, standing, unpurged, world, rows, pass, seeded, req, restarts>>
  BY DEF SweepUsers, LoopOnly, registry, doomed
<1>3. /\ loop' \in Loop /\ loop'.pc = "sweep_journal" /\ loop'.todo = loop.todo
      /\ loop'.doomed = doomed
  BY <1>1, <1>2 DEF IInv, TypeOK, Loop
<1>4. Sandbox \ Held \subseteq loop.todo
  BY <1>2 DEF IInv, Rounds, Sweeps
<1>5. Rounds'
  BY <1>1, <1>2, <1>3, <1>4 DEF Rounds, Held, Sweeps
<1> QED BY <1>2, <1>3, <1>5, LoopAloneStep

LEMMA SweepJournalStep == IInv /\ SweepJournal => IInv'
<1> SUFFICES ASSUME IInv, SweepJournal PROVE IInv'
  OBVIOUS
<1> DEFINE doomed == Doomed({"journal"})
<1>1. /\ doomed \in [Sandbox -> SUBSET Kind]
      /\ \A w \in Sandbox : loop.doomed[w] \subseteq doomed[w]
      /\ \A w \in Sandbox : w \in loop.todo => rows[w] \cap {"journal"} \subseteq doomed[w]
  BY DoomedType DEF Kind
<1> HIDE DEF doomed
<1>2. /\ loop' = [loop EXCEPT !.pc = "sweep_rest", !.doomed = doomed] /\ loop.pc = "sweep_journal"
      /\ UNCHANGED <<now, standing, unpurged, world, rows, pass, seeded, req, restarts>>
  BY DEF SweepJournal, LoopOnly, registry, doomed
<1>3. /\ loop' \in Loop /\ loop'.pc = "sweep_rest" /\ loop'.todo = loop.todo
      /\ loop'.doomed = doomed
  BY <1>1, <1>2 DEF IInv, TypeOK, Loop
<1>4. /\ Sandbox \ Held \subseteq loop.todo
      /\ \A w \in Sandbox \ Held : rows[w] \cap {"operators", "audit"} \subseteq loop.doomed[w]
  BY <1>2 DEF IInv, Rounds, Sweeps
<1>5. \A w \in Sandbox \ Held : /\ rows[w] \cap {"operators", "audit"} \subseteq doomed[w]
                                /\ rows[w] \cap {"journal"} \subseteq doomed[w]
  BY <1>1, <1>4
<1>6. Held' = Held
  BY <1>2 DEF Held
<1>7. Rounds'
  BY <1>2, <1>3, <1>4, <1>5, <1>6 DEF Rounds, Sweeps
<1> QED BY <1>2, <1>3, <1>7, LoopAloneStep

(* The commit of the sweep: of the worlds that are not held, all rows of   *)
(* all four kinds are doomed by now.                                       *)
LEMMA SweepRestStep == IInv /\ SweepRest => IInv'
<1> SUFFICES ASSUME IInv, SweepRest PROVE IInv'
  OBVIOUS
<1> DEFINE doomed == Doomed({"projection"})
<1>1. /\ doomed \in [Sandbox -> SUBSET Kind]
      /\ \A w \in Sandbox : loop.doomed[w] \subseteq doomed[w]
      /\ \A w \in Sandbox : w \in loop.todo => rows[w] \cap {"projection"} \subseteq doomed[w]
  BY DoomedType DEF Kind
<1> HIDE DEF doomed
<1>2. /\ rows' = [w \in Sandbox |-> rows[w] \ doomed[w]] /\ seeded' = TRUE
      /\ loop' = [loop EXCEPT !.pc = "drop", !.todo = {}, !.doomed = Spared]
      /\ loop.pc = "sweep_rest"
      /\ UNCHANGED <<now, standing, unpurged, world, pass, req, restarts>>
  BY DEF SweepRest, LoopOnly, registry, doomed
<1>3. loop' \in Loop /\ loop'.pc = "drop"
  <2>1. Spared \in [Sandbox -> SUBSET Kind]
    BY DEF Spared
  <2> QED BY <1>2, <2>1 DEF IInv, TypeOK, Loop
<1>4. rows \in [Sandbox -> SUBSET Kind] /\ rows' \in [Sandbox -> SUBSET Kind]
  BY <1>2 DEF IInv, TypeOK
<1>5. NoOrphanRows'
  <2> SUFFICES ASSUME NEW w \in Sandbox, w \notin Held PROVE rows'[w] = {}
    BY <1>2 DEF NoOrphanRows, Held
  <2>1. /\ w \in loop.todo
        /\ rows[w] \cap {"operators", "audit"} \subseteq doomed[w]
        /\ rows[w] \cap {"journal"} \subseteq doomed[w]
    BY <1>1, <1>2 DEF IInv, Rounds, Sweeps
  <2>2. rows[w] \cap {"projection"} \subseteq doomed[w]
    BY <1>1, <2>1
  <2>3. rows[w] \subseteq {"operators", "journal", "projection", "audit"}
    BY <1>4 DEF Kind
  <2> QED BY <1>2, <2>1, <2>2, <2>3
<1>6. Rounds'
  BY <1>3 DEF Rounds, Sweeps
<1>7. /\ world' \in [Sandbox -> World]
      /\ \A w \in Sandbox : /\ Timed(w)' /\ world'[w].ceiling_at = world[w].ceiling_at
                            /\ world'[w].expires_at = world[w].expires_at
  BY <1>2, WorldsStay
<1> QED BY <1>2, <1>3, <1>4, <1>5, <1>6, <1>7, LoopStep

LEMMA SweepFailsStep == IInv /\ SweepFails => IInv'
<1> SUFFICES ASSUME IInv, SweepFails PROVE IInv'
  OBVIOUS
<1>1. Spared \in [Sandbox -> SUBSET Kind]
  BY DEF Spared
<1>2. /\ loop' = [loop EXCEPT !.pc = "drop", !.todo = {}, !.doomed = Spared]
      /\ UNCHANGED <<now, standing, unpurged, world, rows, pass, seeded, req, restarts>>
  BY DEF SweepFails, LoopOnly, registry
<1>3. loop' \in Loop /\ loop'.pc = "drop"
  BY <1>1, <1>2 DEF IInv, TypeOK, Loop
<1>4. Rounds'
  BY <1>3 DEF Rounds, Sweeps
<1> QED BY <1>2, <1>3, <1>4, LoopAloneStep

LEMMA EndPassStep == IInv /\ EndPass => IInv'
<1> SUFFICES ASSUME IInv, EndPass PROVE IInv'
  OBVIOUS
<1>1. /\ loop' = [loop EXCEPT !.pc = "tick", !.todo = Live]
      /\ UNCHANGED <<now, standing, unpurged, world, rows, pass, seeded, req, restarts>>
  BY DEF EndPass, LoopOnly, registry
<1>2. Live \subseteq standing /\ Live \subseteq Sandbox
  BY DEF Live, IInv, TypeOK
<1>3. loop' \in Loop /\ loop'.pc = "tick" /\ loop'.todo = Live
  BY <1>1, <1>2 DEF IInv, TypeOK, Loop
<1>4. Rounds'
  <2>1. Live \subseteq Held'
    BY <1>1, <1>2 DEF Held
  <2> QED BY <1>3, <2>1 DEF Rounds, Sweeps
<1> QED BY <1>1, <1>3, <1>4, LoopAloneStep

LEMMA EndRoundStep == IInv /\ EndRound => IInv'
<1> SUFFICES ASSUME IInv, EndRound PROVE IInv'
  OBVIOUS
<1>1. /\ loop' = [loop EXCEPT !.pc = "sleep"]
      /\ UNCHANGED <<now, standing, unpurged, world, rows, pass, seeded, req, restarts>>
  BY DEF EndRound, LoopOnly, registry
<1>2. loop' \in Loop /\ loop'.pc = "sleep"
  BY <1>1 DEF IInv, TypeOK, Loop
<1>3. Rounds'
  BY <1>2 DEF Rounds, Sweeps
<1> QED BY <1>1, <1>2, <1>3, LoopAloneStep

LEMMA TickWorldStep == IInv /\ TickWorld => IInv'
<1> SUFFICES ASSUME IInv, TickWorld PROVE IInv'
  OBVIOUS
<1>1. /\ loop.pc = "tick" /\ loop \in Loop /\ loop.todo \subseteq Held /\ loop.todo \subseteq Sandbox
      /\ UNCHANGED <<now, standing, unpurged, rows, pass, seeded, req, restarts>>
  BY DEF TickWorld, LoopOnly, IInv, TypeOK, Rounds, Loop
<1>2. PICK w \in loop.todo, emits \in BOOLEAN :
        /\ world' = [world EXCEPT ![w].pending = emits \/ world[w].pending]
        /\ loop' = [loop EXCEPT !.todo = @ \ {w},
                                !.pc = IF emits \/ world[w].pending THEN "record" ELSE "tick",
                                !.world = IF emits \/ world[w].pending THEN w ELSE NoWorld]
  BY DEF TickWorld
<1>3. PICK pending \in BOOLEAN : pending = (emits \/ world[w].pending)
  OBVIOUS
<1>4. /\ world' = [world EXCEPT ![w].pending = pending]
      /\ loop' = [loop EXCEPT !.todo = @ \ {w}, !.pc = IF pending THEN "record" ELSE "tick",
                              !.world = IF pending THEN w ELSE NoWorld]
  BY <1>2, <1>3
<1>5. /\ world' \in [Sandbox -> World]
      /\ \A v \in Sandbox : /\ Timed(v)' /\ world'[v].ceiling_at = world[v].ceiling_at
                            /\ world'[v].expires_at = world[v].expires_at
  BY <1>1, <1>4, PendingTimes DEF IInv
<1>6. /\ loop' \in Loop /\ loop'.pc \in {"tick", "record"} /\ loop'.todo = loop.todo \ {w}
      /\ loop'.pc = "record" => loop'.world = w
  <2>1. CASE pending
    <3>1. loop' = [loop EXCEPT !.todo = @ \ {w}, !.pc = "record", !.world = w]
      BY <1>4, <2>1
    <3> QED BY <1>1, <3>1 DEF Loop
  <2>2. CASE ~pending
    <3>1. loop' = [loop EXCEPT !.todo = @ \ {w}, !.pc = "tick", !.world = NoWorld]
      BY <1>4, <2>2
    <3> QED BY <1>1, <3>1 DEF Loop
  <2> QED BY <2>1, <2>2
<1>7. Rounds'
  BY <1>1, <1>6 DEF Rounds, Held, Sweeps
<1>8. rows' \in [Sandbox -> SUBSET Kind] /\ NoOrphanRows' /\ seeded' \in BOOLEAN
  BY <1>1 DEF IInv, TypeOK, NoOrphanRows
<1> QED BY <1>1, <1>5, <1>6, <1>7, <1>8, LoopStep

LEMMA RecordStep == IInv /\ Record => IInv'
<1> SUFFICES ASSUME IInv, Record PROVE IInv'
  OBVIOUS
<1> DEFINE w == loop.world
<1>1. /\ loop.pc = "record" /\ loop \in Loop /\ w \in Held
      /\ world' = [world EXCEPT ![w].pending = FALSE]
      /\ rows' = rows \/ rows' = [rows EXCEPT ![w] = @ \cup {"journal"}]
      /\ loop' = [loop EXCEPT !.pc = "tick", !.world = NoWorld]
      /\ UNCHANGED <<now, standing, unpurged, pass, seeded, req, restarts>>
  BY DEF Record, LoopOnly, IInv, TypeOK, Rounds
<1>2. w \in Sandbox
  BY <1>1 DEF Held, IInv, TypeOK
<1>3. /\ world' \in [Sandbox -> World]
      /\ \A v \in Sandbox : /\ Timed(v)' /\ world'[v].ceiling_at = world[v].ceiling_at
                            /\ world'[v].expires_at = world[v].expires_at
  BY <1>1, <1>2, PendingTimes DEF IInv
<1>4. loop' \in Loop /\ loop'.pc = "tick" /\ loop'.todo = loop.todo
  BY <1>1 DEF Loop
<1>5. Rounds'
  BY <1>1, <1>4 DEF IInv, Rounds, Held, Sweeps
<1>6. rows' \in [Sandbox -> SUBSET Kind] /\ \A v \in Sandbox : rows'[v] # rows[v] => v \in Held
  <2>1. rows \in [Sandbox -> SUBSET Kind] /\ "journal" \in Kind
    BY DEF IInv, TypeOK, Kind
  <2> QED BY <1>1, <2>1
<1>7. NoOrphanRows' /\ seeded' \in BOOLEAN
  BY <1>1, <1>6 DEF IInv, TypeOK, NoOrphanRows, Held
<1> QED BY <1>1, <1>3, <1>4, <1>5, <1>6, <1>7, LoopStep

-----------------------------------------------------------------------------
(* Collecting, restarting and time *)

(* A world somebody still builds has not lapsed.                           *)
LEMMA BuiltAlive ==
  ASSUME IInv, NEW s \in Request, Builds(req[s])
  PROVE  req[s].world \in standing /\ Alive(req[s].world)
<1>1. /\ req[s].world \in standing /\ req[s].world \in Sandbox
      /\ now < req[s].at + SANDBOX_TTL
      /\ req[s].at + SANDBOX_TTL <= world[req[s].world].expires_at
  BY DEF IInv, Young, Builds
<1>2. now \in Nat /\ req[s].at \in Nat /\ SANDBOX_TTL \in Nat /\ world[req[s].world].expires_at \in Nat
  BY <1>1, SandboxAssumption DEF IInv, TypeOK, Req, World
<1> QED BY <1>1, <1>2 DEF Alive

LEMMA DropStep == IInv /\ Drop => IInv'
<1> SUFFICES ASSUME IInv, Drop PROVE IInv'
  OBVIOUS
<1> DEFINE gone == {w \in standing : ~Alive(w)}
<1>1. /\ standing' = standing \ gone /\ unpurged' = unpurged \cup gone
      /\ loop' = [loop EXCEPT !.pc = "purge", !.todo = unpurged \cup gone]
      /\ UNCHANGED <<now, world, rows, pass, seeded, req, restarts>>
  BY DEF Drop, LoopOnly
<1>2. gone \subseteq standing /\ \A s \in Request : Builds(req[s]) => req[s].world \notin gone
  BY BuiltAlive
<1> HIDE DEF gone
<1>3. Held' = Held
  BY <1>1, <1>2 DEF Held
<1>4. loop' \in Loop /\ loop'.pc = "purge"
  BY <1>1, <1>2 DEF IInv, TypeOK, Loop
<1>5. TypeOK'
  BY <1>1, <1>2, <1>4 DEF IInv, TypeOK
<1>6. Slots'
  <2>1. IsFiniteSet(standing') /\ Cardinality(standing') <= Cardinality(standing)
    BY <1>1, FS_Subset DEF IInv, Slots
  <2>2. Cardinality(standing) \in Nat /\ Cardinality(standing') \in Nat
    BY <2>1, FS_CardinalityType DEF IInv, Slots
  <2> QED BY <2>1, <2>2, SandboxAssumption DEF IInv, Slots
<1>7. Alone' /\ Rounds'
  BY <1>1, <1>4 DEF IInv, Alone, Rounds, Sweeps
<1>8. ASSUME NEW v \in Sandbox PROVE Timed(v)'
  <2>1. Timed(v) /\ (v \in standing' => v \in standing)
    BY <1>1 DEF IInv
  <2> QED BY <1>1, <2>1 DEF Timed
<1>9. ASSUME NEW s \in Request PROVE Young(req[s])'
  <2>1. Builds(req[s]) => req[s].world \in standing'
    BY <1>1, <1>2, BuiltAlive
  <2> QED BY <1>1, <2>1, OthersStayYoung
<1>10. NoOrphanRows'
  BY <1>1, <1>3 DEF IInv, NoOrphanRows, Held
<1>11. StandingIsReachable'
  BY <1>1 DEF IInv, StandingIsReachable, Building
<1> QED BY <1>5, <1>6, <1>7, <1>8, <1>9, <1>10, <1>11 DEF IInv

LEMMA PurgeWorldStep == ASSUME IInv, NEW w \in Sandbox, PurgeWorld(w) PROVE IInv'
<1>1. /\ loop.pc = "purge" /\ rows' = [rows EXCEPT ![w] = {}] /\ unpurged' = unpurged \ {w}
      /\ loop' = [loop EXCEPT !.todo = @ \ {w}]
      /\ UNCHANGED <<now, standing, world, pass, seeded, req, restarts>>
  BY DEF PurgeWorld, LoopOnly
<1>2. loop' \in Loop /\ loop'.pc = "purge"
  BY <1>1 DEF IInv, TypeOK, Loop
<1>3. TypeOK'
  BY <1>1, <1>2 DEF IInv, TypeOK
<1>4. Slots' /\ Alone' /\ Rounds' /\ StandingIsReachable'
  BY <1>1, <1>2 DEF IInv, Slots, Alone, Rounds, Sweeps, StandingIsReachable, Building
<1>5. \A v \in Sandbox : Timed(v)'
  BY <1>1, WorldsStay
<1>6. ASSUME NEW s \in Request PROVE Young(req[s])'
  <2>1. Builds(req[s]) => req[s].world \in standing'
    BY <1>1 DEF IInv, Young, Builds
  <2> QED BY <1>1, <2>1, OthersStayYoung
<1>7. NoOrphanRows'
  BY <1>1 DEF IInv, TypeOK, NoOrphanRows
<1> QED BY <1>3, <1>4, <1>5, <1>6, <1>7 DEF IInv

(* Nothing is in memory after a restart.                                   *)
LEMMA RestartStep == IInv /\ Restart => IInv'
<1> SUFFICES ASSUME IInv, Restart PROVE IInv'
  OBVIOUS
<1>1. /\ standing' = {} /\ unpurged' = {} /\ loop' = Asleep /\ restarts' = restarts + 1
      /\ req' = [r \in Request |-> Idle]
      /\ world' = [w \in Sandbox |-> [world[w] EXCEPT !.pending = FALSE]]
      /\ \/ seeded' = TRUE /\ rows' = [w \in Sandbox |-> {}]
         \/ seeded' = FALSE /\ rows' = rows
      /\ UNCHANGED <<now, pass>>
  BY DEF Restart
<1>2. /\ world' \in [Sandbox -> World]
      /\ \A w \in Sandbox : /\ world'[w].expires_at = world[w].expires_at
                            /\ world'[w].ceiling_at = world[w].ceiling_at
                            /\ world'[w].used = world[w].used
  BY <1>1 DEF IInv, TypeOK, World
<1>3. rows' \in [Sandbox -> SUBSET Kind] /\ seeded' \in BOOLEAN
  BY <1>1 DEF IInv, TypeOK
<1>4. TypeOK'
  BY <1>1, <1>2, <1>3, IdleType, AsleepType DEF IInv, TypeOK
<1>5. Slots'
  BY <1>1, FS_EmptySet, SandboxAssumption DEF Slots
<1>6. Alone' /\ Rounds' /\ NoOrphanRows' /\ StandingIsReachable'
  BY <1>1, IdleIsYoung, AsleepType DEF Alone, Rounds, Sweeps, NoOrphanRows, StandingIsReachable
<1>7. ASSUME NEW w \in Sandbox PROVE Timed(w)'
  <2>1. Timed(w)
    BY DEF IInv
  <2> QED BY <1>1, <1>2, <2>1 DEF Timed
<1>8. \A r \in Request : Young(req[r])'
  BY <1>1, IdleType DEF Young
<1> QED BY <1>4, <1>5, <1>6, <1>7, <1>8 DEF IInv

LEMMA TimeStep == IInv /\ Tick => IInv'
<1> SUFFICES ASSUME IInv, Tick PROVE IInv'
  OBVIOUS
<1>1. /\ now' = now + 1
      /\ \A r \in Request : req[r].pc # "idle" => now + 1 < req[r].at + SANDBOX_TTL
      /\ UNCHANGED <<standing, unpurged, world, rows, pass, seeded, req, loop, restarts>>
  BY DEF Tick, registry
<1>2. now \in Nat /\ now' \in Nat
  BY <1>1 DEF IInv, TypeOK
<1>3. TypeOK'
  BY <1>1, <1>2 DEF IInv, TypeOK
<1>4. Slots' /\ Alone' /\ Rounds' /\ NoOrphanRows' /\ StandingIsReachable'
  BY <1>1 DEF IInv, Slots, Alone, Rounds, Held, NoOrphanRows, StandingIsReachable, Building
<1>5. \A w \in Sandbox : Timed(w)'
  BY <1>1, WorldsStay
<1>6. ASSUME NEW r \in Request PROVE Young(req[r])'
  <2>1. Young(req[r]) /\ (req[r].pc # "idle" => req[r].at \in Nat)
    BY DEF IInv, TypeOK, Req
  <2>2. req[r].pc # "idle" => req[r].at <= now'
    BY <1>1, <1>2, <2>1 DEF Young
  <2> QED BY <1>1, <2>1, <2>2 DEF Young, Builds
<1> QED BY <1>3, <1>4, <1>5, <1>6 DEF IInv

-----------------------------------------------------------------------------
(* The invariant *)

LEMMA InitInv == Init => IInv
<1> SUFFICES ASSUME Init PROVE IInv
  OBVIOUS
<1>1. Nowhere \in World /\ Nowhere.expires_at = 0 /\ Nowhere.ceiling_at = 0 /\ Nowhere.used = 0
  BY DEF Nowhere, World
<1>2. TypeOK
  BY <1>1, IdleType, AsleepType DEF Init, TypeOK
<1>3. Slots
  BY FS_EmptySet, SandboxAssumption DEF Init, Slots
<1>4. Alone /\ Rounds /\ NoOrphanRows /\ StandingIsReachable
  BY IdleIsYoung, AsleepType
  DEF Init, Alone, Rounds, Sweeps, NoOrphanRows, StandingIsReachable
<1>5. ASSUME NEW w \in Sandbox PROVE Timed(w)
  <2>1. SANDBOX_TTL \in Nat
    BY SandboxAssumption
  <2> QED BY <1>1, <2>1 DEF Init, Timed, Sooner
<1>6. \A r \in Request : Young(req[r])
  BY IdleType DEF Init, Young
<1> QED BY <1>2, <1>3, <1>4, <1>5, <1>6 DEF IInv

LEMMA StutterStep == IInv /\ UNCHANGED vars => IInv'
<1> SUFFICES ASSUME IInv, UNCHANGED vars PROVE IInv'
  OBVIOUS
<1>1. /\ loop' \in Loop
      /\ UNCHANGED <<now, standing, unpurged, world, rows, pass, seeded, req, restarts, loop>>
  BY DEF vars, IInv, TypeOK
<1>2. Rounds'
  BY <1>1 DEF IInv, Rounds, Held
<1> QED BY <1>1, <1>2, LoopAloneStep

LEMMA Inductive == IInv /\ [Next]_vars => IInv'
<1> SUFFICES ASSUME IInv, [Next]_vars PROVE IInv'
  OBVIOUS
<1>1. ASSUME NEW r \in Request, PressWithoutPass(r) \/ Serve(r) PROVE IInv'
  BY <1>1, PressWithoutPassStep, LoadUserStep, RenewStep, DrainStep, FinishBuildStep,
     FailBuildStep, PerformStep, CommitStep DEF Serve
<1>2. ASSUME NEW r \in Request, NEW w \in Sandbox, PressWithPass(r, w) \/ Resolve(r, w)
      PROVE  IInv'
  BY <1>2, PressWithPassStep, ResolveStep
<1>3. CASE Ticker
  BY <1>3, WakeStep, DropStep, RepairStep, SweepUsersStep, SweepJournalStep, SweepRestStep,
     SweepFailsStep, EndPassStep, TickWorldStep, RecordStep, EndRoundStep, PurgeWorldStep
  DEF Ticker
<1>4. CASE Restart \/ Tick
  BY <1>4, RestartStep, TimeStep
<1>5. CASE UNCHANGED vars
  BY <1>5, StutterStep
<1> QED BY <1>1, <1>2, <1>3, <1>4, <1>5 DEF Next

LEMMA Invariant == Spec => []IInv
BY InitInv, Inductive, PTL DEF Spec

-----------------------------------------------------------------------------
(* The theorems *)

(* Every variable keeps its type.                                          *)
THEOREM TypeCorrect == Spec => []TypeOK
<1>1. IInv => TypeOK
  BY DEF IInv
<1> QED BY <1>1, Invariant, PTL

(* However many doors are pressed at once, no more than MAX_SANDBOXES      *)
(* worlds stand: nothing comes between the count and the creation          *)
(* (registry.create).                                                      *)
THEOREM SlotsNeverExceeded == Spec => []SlotsBounded
<1>1. IInv => SlotsBounded
  BY DEF IInv, Slots, SlotsBounded
<1> QED BY <1>1, Invariant, PTL

(* Whatever is in the database belongs to a world that stands or is owed a *)
(* purge, once the orphans have been swept: no failed build, late commit,  *)
(* restart or record of the ticker leaves rows that nobody will delete     *)
(* (journal.purge_orphans, ticker._reap_once, the audit's foreign key).    *)
THEOREM NoRowsAreOrphaned == Spec => []NoOrphanRows
<1>1. IInv => NoOrphanRows
  BY DEF IInv
<1> QED BY <1>1, Invariant, PTL

(* No slot is held by a world that nobody has a pass into and nobody is    *)
(* building (open_sandbox's except clause).                                *)
THEOREM SlotsAreReachable == Spec => []StandingIsReachable
<1>1. IInv => StandingIsReachable
  BY DEF IInv
<1> QED BY <1>1, Invariant, PTL

(* No use of a world carries it past the end it was built with             *)
(* (World.extend).                                                         *)
THEOREM CeilingNeverPassed == Spec => []CeilingHolds
<1>1. IInv => CeilingHolds
  BY DEF IInv, TypeOK, Timed, CeilingHolds
<1> QED BY <1>1, Invariant, PTL

(* A world is collected at its ceiling or a TTL after its last use, unless *)
(* its build fails or the process restarts: a request that comes late      *)
(* behind a slower one never brings the end forward (World.extend, reap).  *)
THEOREM CollectedOnTime == Spec => CollectedWhenDue
<1> DEFINE Due == \A w \in standing \ standing' :
                     \/ Building(w) \/ restarts' # restarts
                     \/ now >= Sooner(world[w].used + SANDBOX_TTL, world[w].ceiling_at)
<1>1. ASSUME IInv, [Next]_vars PROVE [Due]_vars
  <2> SUFFICES ASSUME NEW w \in standing, w \notin standing', ~Building(w), restarts' = restarts
               PROVE  now >= Sooner(world[w].used + SANDBOX_TTL, world[w].ceiling_at)
    OBVIOUS
  <2>1. Drop
    <3>1. ASSUME NEW r \in Request, FailBuild(r) PROVE FALSE
      BY <3>1 DEF FailBuild, Building
    <3>2. ASSUME NEW r \in Request, PressWithoutPass(r) \/ LoadUser(r) PROVE FALSE
      BY <3>2 DEF PressWithoutPass, LoadUser, Create, registry
    <3>3. ~Restart
      <4>1. restarts \in Nat
        BY <1>1 DEF IInv, TypeOK
      <4> QED BY <4>1 DEF Restart
    <3> QED BY <1>1, <3>1, <3>2, <3>3
            DEF Next, vars, registry, LoopOnly, Serve, Ticker, Renew, Drain, FinishBuild, Perform,
                Commit, PressWithPass, Resolve, Wake, Repair, SweepUsers, SweepJournal, SweepRest,
                SweepFails, EndPass, TickWorld, Record, EndRound, PurgeWorld, Tick
  <2>2. ~Alive(w)
    BY <2>1 DEF Drop
  <2>3. /\ Timed(w) /\ world[w].expires_at \in Nat /\ now \in Nat /\ world[w].ceiling_at \in Nat
        /\ world[w].used \in Nat /\ SANDBOX_TTL \in Nat
    BY <1>1, SandboxAssumption DEF IInv, TypeOK, World
  <2> QED BY <2>2, <2>3 DEF Alive, Timed, Sooner
<1> QED BY <1>1, Invariant, PTL DEF Spec, CollectedWhenDue
=============================================================================
