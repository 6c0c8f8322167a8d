----------------------------- MODULE Sandboxes -----------------------------
(***************************************************************************)
(* The demonstration worlds of one process and the rows they own           *)
(* (src/backend/app/worlds/registry.py, ticker.py, journal.py, main.py,    *)
(* demo/sandboxes.py, routers/demo.py, deps.py).                           *)
(*                                                                         *)
(* The process is one event loop: a step of this module is what runs       *)
(* between two awaits that really wait (a connection, a statement, the     *)
(* sleep).  Seeding a world and running the engine touch memory only and   *)
(* never wait.  A request's transaction is one commit step; the writes     *)
(* before it are invisible until then.                                     *)
(*                                                                         *)
(* rows[w] says what the database holds of world w: its "operators" (users *)
(* and roles), its "journal", its "projection" (and the demo_sandboxes     *)
(* row) and its "audit".                                                   *)
(***************************************************************************)
EXTENDS Integers, FiniteSets

CONSTANTS
    Sandbox,          \* world ids; uuid4 never repeats
    Request,          \* request slots: how many requests overlap
    NoWorld,
    MAX_SANDBOXES, SANDBOX_TTL, SANDBOX_CEILING,
    SECOND,           \* ticks of the clock in a second
    MaxTime,          \* bound on the clock
    MaxRestarts       \* bound on restarts of the process

ASSUME SandboxAssumption ==
    /\ NoWorld \notin Sandbox
    /\ MAX_SANDBOXES \in Nat \ {0} /\ SECOND \in Nat \ {0}
    /\ SANDBOX_TTL \in Nat \ {0} /\ SANDBOX_CEILING \in Nat \ {0}
    /\ SANDBOX_TTL <= SANDBOX_CEILING /\ 2 * SECOND <= SANDBOX_CEILING
    /\ MaxTime \in Nat /\ MaxRestarts \in Nat

VARIABLES
    now,        \* the wall clock
    standing,   \* the sandboxes in the registry (_worlds without the base world)
    unpurged,   \* dropped from it, their rows not deleted yet (_unpurged)
    world,      \* world[w]: expiry, ceiling, whether its sink holds events
    rows,       \* rows[w]: what is committed of w
    pass,       \* pass[w]: exp of the newest pass minted into w, 0 if none
    seeded,     \* base_world_status().seeded
    req,        \* req[r]: the request in slot r
    loop,       \* the ticker task
    restarts

vars == <<now, standing, unpurged, world, rows, pass, seeded, req, loop, restarts>>
registry == <<standing, unpurged, world>>

World == [expires_at: Nat, ceiling_at: Nat, pending: BOOLEAN,
          used: Nat]      \* History: the latest moment a visitor used it

Nowhere == [expires_at |-> 0, ceiling_at |-> 0, pending |-> FALSE, used |-> 0]

Req == [pc: {"idle", "connect", "write", "load_user", "renew", "op_load", "op_write"},
        world: Sandbox \cup {NoWorld},
        at: Nat,                  \* now(), read once at the start
        took: BOOLEAN]            \* it drained events it has not committed

Idle == [pc |-> "idle", world |-> NoWorld, at |-> 0, took |-> FALSE]

Kind == {"operators", "journal", "projection", "audit"}

(* due: whether the next round collects; todo: the worlds of the pass that *)
(* is running; doomed: what the open sweep has deleted.                    *)
Loop == [pc: {"sleep", "repair", "sweep_users", "sweep_journal", "sweep_rest",
              "drop", "purge", "tick", "record"},
         due: BOOLEAN, todo: SUBSET Sandbox, world: Sandbox \cup {NoWorld},
         doomed: [Sandbox -> SUBSET Kind]]

Spared == [w \in Sandbox |-> {}]

Asleep == [pc |-> "sleep", due |-> FALSE, todo |-> {}, world |-> NoWorld, doomed |-> Spared]

TypeOK ==
    /\ now \in Nat /\ restarts \in Nat /\ seeded \in BOOLEAN
    /\ standing \subseteq Sandbox /\ unpurged \subseteq Sandbox \ standing
    /\ world \in [Sandbox -> World]
    /\ rows \in [Sandbox -> SUBSET Kind]
    /\ pass \in [Sandbox -> Nat]
    /\ req \in [Request -> Req]
    /\ loop \in Loop

-----------------------------------------------------------------------------
(* The registry *)

Alive(w) == w \in standing /\ world[w].expires_at > now

Sooner(a, b) == IF a <= b THEN a ELSE b
Later(a, b) == IF a >= b THEN a ELSE b

(* Fault: a late request pulls the expiry back.                            *)
ExtendedBackwards(w, at) == Sooner(at + SANDBOX_TTL, world[w].ceiling_at)

(* Fault: no ceiling.                                                      *)
ExtendedForEver(w, at) == Later(world[w].expires_at, at + SANDBOX_TTL)

(* World.extend: never past the ceiling and never backwards.               *)
Extended(w, at) ==
    Later(world[w].expires_at, Sooner(at + SANDBOX_TTL, world[w].ceiling_at))

Extend(w, at) ==
    world' = [world EXCEPT ![w].expires_at = Extended(w, at),
                           ![w].used = Later(@, at)]

(* encode_access_token with ttl = ceiling - moment: iat is cut to whole    *)
(* seconds before the ttl is added, and exp to whole seconds after it.     *)
WholeSecond(t) == (t \div SECOND) * SECOND
PassExpiry(w, at) == WholeSecond(WholeSecond(at) + (world[w].ceiling_at - at))

(* The ids never used: by a world, or by rows of one.                      *)
Fresh(w) == /\ world[w] = Nowhere /\ w \notin standing \cup unpurged
            /\ \A r \in Request : req[r].world # w

(* Fault: one world too many.                                              *)
HasRoomForOneMore == Cardinality(standing) <= MAX_SANDBOXES

HasRoom == Cardinality(standing) < MAX_SANDBOXES

(* open_sandbox up to its first wait: the ceiling on worlds, create and    *)
(* the whole history, which leaves its events in the sink.                 *)
Create(r, at) ==
    \/ /\ HasRoom
       /\ \E w \in Sandbox :
            /\ Fresh(w)
            /\ standing' = standing \cup {w}
            /\ world' = [world EXCEPT ![w] =
                            [expires_at |-> at + SANDBOX_TTL,
                             ceiling_at |-> at + SANDBOX_CEILING,
                             pending |-> TRUE, used |-> at]]
            /\ req' = [req EXCEPT ![r] = [Idle EXCEPT !.pc = "connect", !.world = w,
                                                      !.at = at]]
       /\ UNCHANGED unpurged
    \/ /\ ~HasRoom
       /\ req' = [req EXCEPT ![r] = Idle]
       /\ UNCHANGED registry

-----------------------------------------------------------------------------
(* POST /demo/session *)

(* Pressed with no pass, or with one that has run out.                     *)
PressWithoutPass(r) ==
    /\ req[r].pc = "idle"
    /\ Create(r, now)
    /\ UNCHANGED <<now, rows, pass, seeded, loop, restarts>>

(* Pressed with a live pass into a world that stands; a live pass into one *)
(* that is gone is answered 410 and changes nothing.                       *)
PressWithPass(r, w) ==
    /\ req[r].pc = "idle"
    /\ pass[w] > now /\ Alive(w)
    /\ req' = [req EXCEPT ![r] = [Idle EXCEPT !.pc = "load_user", !.world = w, !.at = now]]
    /\ UNCHANGED <<now, standing, unpurged, world, rows, pass, seeded, loop, restarts>>

(* _standing's last question, then the extension.  A pass whose operator   *)
(* is gone counts as no pass, and the press builds a world after all.      *)
LoadUser(r) ==
    /\ req[r].pc = "load_user"
    /\ LET w == req[r].world
       IN  IF "operators" \in rows[w]
           THEN /\ Extend(w, req[r].at)
                /\ req' = [req EXCEPT ![r].pc = "renew"]
                /\ UNCHANGED <<standing, unpurged>>
           ELSE Create(r, req[r].at)
    /\ UNCHANGED <<now, rows, pass, seeded, loop, restarts>>

(* The commit, and a fresh pass; or a failed commit and a 500.             *)
Renew(r) ==
    /\ req[r].pc = "renew"
    /\ \/ pass' = [pass EXCEPT ![req[r].world] = PassExpiry(req[r].world, req[r].at)]
       \/ UNCHANGED pass
    /\ req' = [req EXCEPT ![r] = Idle]
    /\ UNCHANGED <<now, standing, unpurged, world, rows, seeded, loop, restarts>>

(* The build has its connection: drain the sink into the COPY.             *)
Drain(r) ==
    /\ req[r].pc = "connect"
    /\ req' = [req EXCEPT ![r].pc = "write", ![r].took = world[req[r].world].pending]
    /\ world' = [world EXCEPT ![req[r].world].pending = FALSE]
    /\ UNCHANGED <<now, standing, unpurged, rows, pass, seeded, loop, restarts>>

BuiltRows(r) == {"operators", "projection"} \cup (IF req[r].took THEN {"journal"} ELSE {})

FinishBuild(r) ==
    /\ req[r].pc = "write"
    /\ rows' = [rows EXCEPT ![req[r].world] = @ \cup BuiltRows(r)]
    /\ pass' = [pass EXCEPT ![req[r].world] = PassExpiry(req[r].world, req[r].at)]
    /\ req' = [req EXCEPT ![r] = Idle]
    /\ UNCHANGED <<now, standing, unpurged, world, seeded, loop, restarts>>

(* Fault: the registry is not told of a failed build.                      *)
FailBuildKeeping(r) ==
    /\ req[r].pc \in {"connect", "write"}
    /\ req' = [req EXCEPT ![r] = Idle]
    /\ UNCHANGED <<now, standing, unpurged, world, rows, pass, seeded, loop, restarts>>

(* Fault: a failed build leaves no debt to purge.                          *)
FailBuildForgetting(r) ==
    /\ req[r].pc \in {"connect", "write"}
    /\ standing' = standing \ {req[r].world}
    /\ req' = [req EXCEPT ![r] = Idle]
    /\ UNCHANGED <<now, unpurged, world, rows, pass, seeded, loop, restarts>>

(* A statement or the commit raises.  The world is dropped; a commit whose *)
(* answer was lost may have written everything.                            *)
FailBuild(r) ==
    /\ req[r].pc \in {"connect", "write"}
    /\ standing' = standing \ {req[r].world}
    /\ unpurged' = IF req[r].world \in standing THEN unpurged \cup {req[r].world}
                                                ELSE unpurged
    /\ \/ UNCHANGED rows
       \/ /\ req[r].pc = "write"
          /\ rows' = [rows EXCEPT ![req[r].world] = @ \cup BuiltRows(r)]
    /\ req' = [req EXCEPT ![r] = Idle]
    /\ UNCHANGED <<now, world, pass, seeded, loop, restarts>>

-----------------------------------------------------------------------------
(* A guarded request inside a sandbox *)

(* _world_for: a live pass into a living world, which the use extends.     *)
Resolve(r, w) ==
    /\ req[r].pc = "idle"
    /\ pass[w] > now /\ Alive(w)
    /\ Extend(w, now)
    /\ req' = [req EXCEPT ![r] = [Idle EXCEPT !.pc = "op_load", !.world = w, !.at = now]]
    /\ UNCHANGED <<now, standing, unpurged, rows, pass, seeded, loop, restarts>>

(* The subject has to be an operator of that world.  Then the operation:   *)
(* the engine, and everything pending drained into the transaction.        *)
Perform(r) ==
    /\ req[r].pc = "op_load"
    /\ LET w == req[r].world
       IN  IF "operators" \in rows[w]
           THEN /\ \E emits \in BOOLEAN :
                     req' = [req EXCEPT ![r].pc = "op_write",
                                        ![r].took = emits \/ world[w].pending]
                /\ world' = [world EXCEPT ![w].pending = FALSE]
           ELSE /\ req' = [req EXCEPT ![r] = Idle]
                /\ UNCHANGED world
    /\ UNCHANGED <<now, standing, unpurged, rows, pass, seeded, loop, restarts>>

PerformedRows(r) == {"audit"} \cup (IF req[r].took THEN {"journal"} ELSE {})

(* Fault: no foreign key holds the audit row to its actor.                 *)
CommitUnchecked(r) ==
    /\ req[r].pc = "op_write"
    /\ rows' = [rows EXCEPT ![req[r].world] = @ \cup PerformedRows(r)]
    /\ req' = [req EXCEPT ![r] = Idle]
    /\ UNCHANGED <<now, standing, unpurged, world, pass, seeded, loop, restarts>>

(* The audit row references its actor: with the operators deleted, or held *)
(* by a sweep, the foreign key refuses it and the journal rows go with it. *)
Commit(r) ==
    /\ req[r].pc = "op_write"
    /\ \/ /\ "operators" \in rows[req[r].world] \ loop.doomed[req[r].world]
          /\ rows' = [rows EXCEPT ![req[r].world] = @ \cup PerformedRows(r)]
       \/ UNCHANGED rows
    /\ req' = [req EXCEPT ![r] = Idle]
    /\ UNCHANGED <<now, standing, unpurged, world, pass, seeded, loop, restarts>>

-----------------------------------------------------------------------------
(* run_ticker: one task that collects, then ticks *)

LoopOnly == UNCHANGED <<now, pass, req, restarts>>

Live == {w \in standing : Alive(w)}

(* Awake: every second round comes due for collecting.                     *)
Wake ==
    /\ loop.pc = "sleep"
    /\ loop' = IF loop.due
               THEN [loop EXCEPT !.pc = IF seeded THEN "drop" ELSE "repair", !.due = FALSE]
               ELSE [loop EXCEPT !.pc = "tick", !.due = TRUE, !.todo = Live]
    /\ UNCHANGED <<registry, rows, seeded>> /\ LoopOnly

(* repair_base_world: seed, and list the worlds whose rows to keep.        *)
Repair ==
    /\ loop.pc = "repair"
    /\ loop' = [loop EXCEPT !.pc = "sweep_users", !.todo = Sandbox \ standing]
    /\ UNCHANGED <<registry, rows, seeded>> /\ LoopOnly

(* A DELETE of purge_orphans takes every row of its table that is          *)
(* committed by now and belongs to a world not on the list.                *)
Doomed(kinds) ==
    [w \in Sandbox |-> loop.doomed[w] \cup (IF w \in loop.todo THEN rows[w] \cap kinds ELSE {})]

SweepUsers ==
    /\ loop.pc = "sweep_users"
    /\ loop' = [loop EXCEPT !.pc = "sweep_journal", !.doomed = Doomed({"operators", "audit"})]
    /\ UNCHANGED <<registry, rows, seeded>> /\ LoopOnly

SweepJournal ==
    /\ loop.pc = "sweep_journal"
    /\ loop' = [loop EXCEPT !.pc = "sweep_rest", !.doomed = Doomed({"journal"})]
    /\ UNCHANGED <<registry, rows, seeded>> /\ LoopOnly

(* The last DELETEs and the commit, which the seeding shares.              *)
SweepRest ==
    /\ loop.pc = "sweep_rest"
    /\ seeded' = TRUE
    /\ rows' = [w \in Sandbox |-> rows[w] \ Doomed({"projection"})[w]]
    /\ loop' = [loop EXCEPT !.pc = "drop", !.todo = {}, !.doomed = Spared]
    /\ UNCHANGED registry /\ LoopOnly

(* Or nothing: a failure is a status, not an exception.                    *)
SweepFails ==
    /\ loop.pc = "sweep_rest"
    /\ loop' = [loop EXCEPT !.pc = "drop", !.todo = {}, !.doomed = Spared]
    /\ UNCHANGED <<registry, rows, seeded>> /\ LoopOnly

(* Fault: what an earlier pass could not purge is not tried again.         *)
DropForgetting ==
    /\ loop.pc = "drop"
    /\ LET gone == {w \in standing : ~Alive(w)}
       IN  /\ standing' = standing \ gone
           /\ unpurged' = unpurged \cup gone
           /\ loop' = [loop EXCEPT !.pc = "purge", !.todo = gone]
    /\ UNCHANGED <<world, rows, seeded>> /\ LoopOnly

(* reap, first half: everything that has lapsed leaves the registry.       *)
Drop ==
    /\ loop.pc = "drop"
    /\ LET gone == {w \in standing : ~Alive(w)}
       IN  /\ standing' = standing \ gone
           /\ unpurged' = unpurged \cup gone
           /\ loop' = [loop EXCEPT !.pc = "purge", !.todo = unpurged \cup gone]
    /\ UNCHANGED <<world, rows, seeded>> /\ LoopOnly

(* purge_sandbox, one transaction per world.  The code takes the worlds in *)
(* the order of their random ids, the model in any order.                  *)
PurgeWorld(w) ==
    /\ loop.pc = "purge" /\ w \in loop.todo
    /\ rows' = [rows EXCEPT ![w] = {}]
    /\ unpurged' = unpurged \ {w}
    /\ loop' = [loop EXCEPT !.todo = @ \ {w}]
    /\ UNCHANGED <<standing, world, seeded>> /\ LoopOnly

(* All done, or a purge that raised: the pass is over, the debts are kept. *)
EndPass ==
    /\ loop.pc = "purge"
    /\ loop' = [loop EXCEPT !.pc = "tick", !.todo = Live]
    /\ UNCHANGED <<registry, rows, seeded>> /\ LoopOnly

(* tick_once over its snapshot of the live worlds.                         *)
TickWorld ==
    /\ loop.pc = "tick" /\ loop.todo # {}
    /\ \E w \in loop.todo, emits \in BOOLEAN :
         LET pending == emits \/ world[w].pending
         IN  /\ world' = [world EXCEPT ![w].pending = pending]
             /\ loop' = [loop EXCEPT !.todo = @ \ {w},
                                     !.pc = IF pending THEN "record" ELSE "tick",
                                     !.world = IF pending THEN w ELSE NoWorld]
    /\ UNCHANGED <<standing, unpurged, rows, seeded>> /\ LoopOnly

(* The recorder has its connection: drain, write and commit; or lose them. *)
Record ==
    /\ loop.pc = "record"
    /\ LET w == loop.world
       IN  /\ \/ world[w].pending /\ rows' = [rows EXCEPT ![w] = @ \cup {"journal"}]
              \/ UNCHANGED rows
           /\ world' = [world EXCEPT ![w].pending = FALSE]
    /\ loop' = [loop EXCEPT !.pc = "tick", !.world = NoWorld]
    /\ UNCHANGED <<standing, unpurged, seeded>> /\ LoopOnly

EndRound ==
    /\ loop.pc = "tick" /\ loop.todo = {}
    /\ loop' = [loop EXCEPT !.pc = "sleep"]
    /\ UNCHANGED <<registry, rows, seeded>> /\ LoopOnly

-----------------------------------------------------------------------------
(* The process and the clock *)

(* Every world was in memory.  The start seeds the base world and sweeps   *)
(* the orphans in one transaction, or fails to and serves without.         *)
Restart ==
    /\ restarts < MaxRestarts
    /\ restarts' = restarts + 1
    /\ standing' = {} /\ unpurged' = {}
    /\ req' = [r \in Request |-> Idle]
    /\ loop' = Asleep
    /\ world' = [w \in Sandbox |-> [world[w] EXCEPT !.pending = FALSE]]
    /\ \/ seeded' = TRUE /\ rows' = [w \in Sandbox |-> {}]
       \/ seeded' = FALSE /\ UNCHANGED rows
    /\ UNCHANGED <<now, pass>>

(* No request takes a sandbox's whole hour.                                *)
Tick ==
    /\ now < MaxTime
    /\ \A r \in Request : req[r].pc # "idle" => now + 1 < req[r].at + SANDBOX_TTL
    /\ now' = now + 1
    /\ UNCHANGED <<registry, rows, pass, seeded, req, loop, restarts>>

Init ==
    /\ now = 0 /\ restarts = 0 /\ seeded \in BOOLEAN
    /\ standing = {} /\ unpurged = {}
    /\ world = [w \in Sandbox |-> Nowhere]
    /\ rows = [w \in Sandbox |-> {}]
    /\ pass = [w \in Sandbox |-> 0]
    /\ req = [r \in Request |-> Idle]
    /\ loop = Asleep

Serve(r) ==
    \/ LoadUser(r) \/ Renew(r) \/ Drain(r) \/ FinishBuild(r) \/ FailBuild(r)
    \/ Perform(r) \/ Commit(r)

Ticker ==
    \/ Wake \/ Drop
    \/ Repair \/ SweepUsers \/ SweepJournal \/ SweepRest \/ SweepFails
    \/ EndPass \/ TickWorld \/ Record \/ EndRound
    \/ \E w \in Sandbox : PurgeWorld(w)

Next ==
    \/ \E r \in Request : PressWithoutPass(r) \/ Serve(r)
    \/ \E r \in Request, w \in Sandbox : PressWithPass(r, w) \/ Resolve(r, w)
    \/ Ticker
    \/ Restart
    \/ Tick

(* The loop keeps running and every statement is answered, with success or *)
(* an error (the driver's timeouts); a world's purge, retried every        *)
(* minute, does not fail for ever.                                         *)
Fairness ==
    /\ \A r \in Request : WF_vars(Serve(r))
    /\ WF_vars(Ticker)
    /\ SF_vars(SweepRest)
    /\ \A w \in Sandbox : SF_vars(PurgeWorld(w))

Spec == Init /\ [][Next]_vars /\ Fairness

-----------------------------------------------------------------------------
(* Properties *)

Building(w) == \E r \in Request : req[r].pc \in {"connect", "write"} /\ req[r].world = w

(* Thirty-two worlds at once and no more, however many doors are pressed   *)
(* while others are being built, fail or are renewed.                      *)
SlotsBounded == Cardinality(standing) <= MAX_SANDBOXES

(* No rows that nothing will ever delete: what the database holds belongs  *)
(* to a world that stands or is owed a purge, or a sweep is still owed.    *)
(* Endangered by failed builds, by operations that commit behind the       *)
(* reaper and by events the ticker writes for a world being dropped.       *)
NoOrphanRows ==
    seeded => \A w \in Sandbox : rows[w] # {} => w \in standing \cup unpurged

(* A slot is never held by a world nobody can reach: it is being built, or *)
(* a pass into it has been minted.  A build can fail at every step.        *)
StandingIsReachable == \A w \in standing : Building(w) \/ pass[w] # 0

(* Nothing a visitor does keeps a world past the end it was built with.    *)
CeilingHolds ==
    \A w \in standing : world[w].expires_at <= world[w].ceiling_at

(* Outside a failed build and a restart, a world is only collected when    *)
(* its hour since the last use has passed, or at its ceiling: a request    *)
(* that arrives late behind a slower one never brings the end forward.     *)
CollectedWhenDue ==
    [][\A w \in standing \ standing' :
          \/ Building(w) \/ restarts' # restarts
          \/ now >= Sooner(world[w].used + SANDBOX_TTL, world[w].ceiling_at)]_vars

(* A world at its ceiling is collected, whatever its visitor presses.      *)
CeilingComes ==
    \A w \in Sandbox : (w \in standing /\ now >= world[w].ceiling_at) ~> (w \notin standing)

(* The rows of a world that is gone go, through failed purges, failed      *)
(* repairs, late commits and restarts.                                     *)
GoneLeavesNothing ==
    \A w \in Sandbox : (w \notin standing) ~> (rows[w] = {} \/ w \in standing)

=============================================================================
