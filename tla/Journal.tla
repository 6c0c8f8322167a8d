------------------------------ MODULE Journal ------------------------------
(***************************************************************************)
(* One seeded world: what its engine emits on the way to the journal, and  *)
(* the winding of its clock (src/backend/app/worlds/registry.py, clock.py, *)
(* ticker.py, journal.py, audit.py, main.py, routers/clock.py).            *)
(*                                                                         *)
(* The engine is memory and cannot be rolled back; the journal, the audit  *)
(* and the projection are a transaction's.  The engine and its storage     *)
(* never suspend, and a request that has loaded its operator already holds *)
(* a connection, so an operation runs, emits and drains in one step.  The  *)
(* recorder waits for a connection before it drains.                       *)
(***************************************************************************)
EXTENDS Integers, FiniteSets, Sequences

CONSTANTS
    Request,      \* request slots: how many requests overlap
    MAX_WIND,     \* days the clock may be wound in total
    MaxEvents     \* bound on what the engine emits

ASSUME JournalAssumption == MAX_WIND \in Nat \ {0} /\ MaxEvents \in Nat

VARIABLES
    emitted,      \* events 1..emitted have been emitted
    asked_for,    \* those an operator's request produced
    pending,      \* EventSink.pending
    journal,      \* committed journal rows
    audited,      \* the events whose request has a committed audit row
    lost,         \* History: drained by a transaction that rolled back
    offset,       \* the clock's offset, in days
    queue,        \* world.lock: its holder and those waiting, in order
    projection,   \* committed rewrites of the projection
    req, loop

vars == <<emitted, asked_for, pending, journal, audited, lost, offset, queue,
          projection, req, loop>>

Event == 1 .. MaxEvents

Req == [pc: {"idle", "write", "refuse", "queue", "rewrite", "copy"},
        took: SUBSET Event,     \* what its open transaction drained
        own: SUBSET Event,      \* what it emitted itself
        days: 0 .. MAX_WIND,
        saw: Nat]               \* the projection its DELETE saw

At(pc, took, own, days) ==
    [pc |-> pc, took |-> took, own |-> own, days |-> days, saw |-> 0]

Idle == At("idle", {}, {}, 0)

Asleep == [pc |-> "sleep", took |-> {}]

TypeOK ==
    /\ emitted \in 0 .. MaxEvents
    /\ asked_for \subseteq 1 .. emitted
    /\ pending \subseteq 1 .. emitted
    /\ journal \subseteq 1 .. emitted /\ lost \subseteq 1 .. emitted
    /\ audited \subseteq asked_for
    /\ offset \in Nat /\ projection \in Nat
    /\ queue \in Seq(Request)
    /\ req \in [Request -> Req]
    /\ loop \in [pc: {"sleep", "connect", "write"}, took: SUBSET Event]

-----------------------------------------------------------------------------
(* The sink *)

(* The engine may emit; the events are new.                                *)
Emits(own) ==
    /\ own = {} \/ (emitted < MaxEvents /\ own = {emitted + 1})
    /\ emitted' = emitted + Cardinality(own)

Emittable == {{}} \cup {{e} : e \in Event}

(* Fault: the sink keeps what was taken.                                   *)
DrainKeeping == UNCHANGED pending

(* EventSink.drain: everything, and the sink is left empty.                *)
Drain == pending' = {}

-----------------------------------------------------------------------------
(* audit.perform: an operator's operation, refused or not *)

Perform(r) ==
    /\ req[r].pc = "idle"
    /\ \E own \in Emittable :
        /\ Emits(own)
        /\ asked_for' = asked_for \cup own
        /\ req' = [req EXCEPT ![r] = At("write", pending \cup own, own, 0)]
    /\ Drain
    /\ UNCHANGED <<journal, audited, lost, offset, queue, projection, loop>>

(* The journal rows and the audit row, in one commit.                      *)
CommitPerform(r) ==
    /\ req[r].pc = "write"
    /\ journal' = journal \cup req[r].took
    /\ audited' = audited \cup req[r].own
    /\ req' = [req EXCEPT ![r] = Idle]
    /\ UNCHANGED <<emitted, asked_for, pending, lost, offset, queue, projection, loop>>

-----------------------------------------------------------------------------
(* POST /clock/advance *)

(* The world runs: carry_on, then flush_world's drain.                     *)
Wind(r, days) ==
    /\ offset' = offset + days
    /\ \E own \in Emittable :
        /\ Emits(own)
        /\ asked_for' = asked_for \cup own
        /\ req' = [req EXCEPT ![r] = At("rewrite", pending \cup own, own, days)]
    /\ Drain

(* Fault: nothing keeps two presses apart.                                 *)
AdvanceUnlocked(r, days) ==
    /\ req[r].pc = "idle"
    /\ days <= MAX_WIND - offset
    /\ queue' = Append(queue, r)
    /\ Wind(r, days)
    /\ UNCHANGED <<journal, audited, lost, projection, loop>>

(* The allowance is read before the lock is asked for.                     *)
Advance(r, days) ==
    /\ req[r].pc = "idle"
    /\ \/ /\ days > MAX_WIND - offset
          /\ req' = [req EXCEPT ![r].pc = "refuse"]
          /\ UNCHANGED <<emitted, asked_for, pending, offset, queue>>
       \/ /\ days <= MAX_WIND - offset
          /\ queue' = Append(queue, r)
          /\ IF queue = <<>>
             THEN Wind(r, days)
             ELSE /\ req' = [req EXCEPT ![r] = At("queue", {}, {}, days)]
                  /\ UNCHANGED <<emitted, asked_for, pending, offset>>
    /\ UNCHANGED <<journal, audited, lost, projection, loop>>

(* The refusal is audited, or fails to be.                                 *)
Refuse(r) ==
    /\ req[r].pc = "refuse"
    /\ req' = [req EXCEPT ![r] = Idle]
    /\ UNCHANGED <<emitted, asked_for, pending, journal, audited, lost, offset, queue,
                   projection, loop>>

(* asyncio.Lock is handed on in the order it was asked for.                *)
Acquire(r) ==
    /\ req[r].pc = "queue" /\ Head(queue) = r
    /\ Wind(r, req[r].days)
    /\ UNCHANGED <<journal, audited, lost, queue, projection, loop>>

(* rewrite_projection's DELETE, on the snapshot of its own moment.         *)
DeleteProjection(r) ==
    /\ req[r].pc = "rewrite"
    /\ req' = [req EXCEPT ![r].pc = "copy", ![r].saw = projection]
    /\ UNCHANGED <<emitted, asked_for, pending, journal, audited, lost, offset, queue,
                   projection, loop>>

(* A projection committed since is a duplicate key for the COPY.           *)
DuplicateKey(r) == req[r].pc = "copy" /\ req[r].saw # projection

CommitAdvance(r) ==
    /\ req[r].pc = "copy" /\ ~DuplicateKey(r)
    /\ journal' = journal \cup req[r].took
    /\ audited' = audited \cup req[r].own
    /\ projection' = projection + 1
    /\ queue' = Tail(queue)
    /\ req' = [req EXCEPT ![r] = Idle]
    /\ UNCHANGED <<emitted, asked_for, pending, lost, offset, loop>>

(* Fault: the lock is not released on the way out of an exception.         *)
FailLocked(r) ==
    /\ req[r].pc \in {"write", "rewrite", "copy"}
    /\ lost' = lost \cup req[r].took
    /\ req' = [req EXCEPT ![r] = Idle]
    /\ UNCHANGED <<emitted, asked_for, pending, journal, audited, offset, queue,
                   projection, loop>>

(* Fault: a rollback puts what it drained back into the sink.              *)
FailRequeuing(r) ==
    /\ req[r].pc \in {"write", "rewrite", "copy"}
    /\ pending' = pending \cup req[r].took
    /\ queue' = IF req[r].pc = "write" THEN queue ELSE Tail(queue)
    /\ req' = [req EXCEPT ![r] = Idle]
    /\ UNCHANGED <<emitted, asked_for, journal, audited, lost, offset, projection, loop>>

(* A statement or the commit raises: the transaction rolls back, what it   *)
(* drained is gone, and the engine stays where it is.                      *)
Fail(r) ==
    /\ req[r].pc \in {"write", "rewrite", "copy"}
    /\ lost' = lost \cup req[r].took
    /\ queue' = IF req[r].pc = "write" THEN queue ELSE Tail(queue)
    /\ req' = [req EXCEPT ![r] = Idle]
    /\ UNCHANGED <<emitted, asked_for, pending, journal, audited, offset, projection, loop>>

-----------------------------------------------------------------------------
(* The ticker and its recorder *)

TickerOnly == UNCHANGED <<asked_for, audited, offset, queue, projection, req>>

(* Fault: only the tick's own events are a reason to record.               *)
TickOwnOnly ==
    /\ loop.pc = "sleep"
    /\ \E own \in Emittable :
        /\ Emits(own)
        /\ pending' = pending \cup own
        /\ loop' = IF own = {} THEN loop ELSE [loop EXCEPT !.pc = "connect"]
    /\ UNCHANGED <<journal, lost>> /\ TickerOnly

(* tick_once: tick the engine; with anything pending, record.              *)
TickWorld ==
    /\ loop.pc = "sleep"
    /\ \E own \in Emittable :
        /\ Emits(own)
        /\ pending' = pending \cup own
        /\ loop' = IF pending' = {} THEN loop ELSE [loop EXCEPT !.pc = "connect"]
    /\ UNCHANGED <<journal, lost>> /\ TickerOnly

(* The recorder has a connection; a request may have been quicker.         *)
Connect ==
    /\ loop.pc = "connect"
    /\ loop' = IF pending = {} THEN Asleep ELSE [pc |-> "write", took |-> pending]
    /\ Drain
    /\ UNCHANGED <<emitted, journal, lost>> /\ TickerOnly

NoConnection ==
    /\ loop.pc = "connect"
    /\ loop' = Asleep
    /\ UNCHANGED <<emitted, pending, journal, lost>> /\ TickerOnly

Record ==
    /\ loop.pc = "write"
    /\ \/ journal' = journal \cup loop.took /\ UNCHANGED lost
       \/ lost' = lost \cup loop.took /\ UNCHANGED journal
    /\ loop' = Asleep
    /\ UNCHANGED <<emitted, pending>> /\ TickerOnly

-----------------------------------------------------------------------------
Init ==
    /\ emitted = 0 /\ asked_for = {} /\ pending = {}
    /\ journal = {} /\ audited = {} /\ lost = {}
    /\ offset = 0 /\ queue = <<>> /\ projection = 0
    /\ req = [r \in Request |-> Idle]
    /\ loop = Asleep

Serve(r) ==
    \/ CommitPerform(r) \/ Refuse(r) \/ Acquire(r) \/ DeleteProjection(r)
    \/ CommitAdvance(r) \/ Fail(r)

Ticker == TickWorld \/ Connect \/ NoConnection \/ Record

Next ==
    \/ \E r \in Request : Perform(r) \/ Serve(r)
    \/ \E r \in Request, days \in 1 .. MAX_WIND : Advance(r, days)
    \/ Ticker

(* Every statement is answered, the loop runs, and a connection is to be   *)
(* had again and again.                                                    *)
Fairness ==
    /\ \A r \in Request : WF_vars(Serve(r))
    /\ WF_vars(Ticker)
    /\ SF_vars(Connect)

Spec == Init /\ [][Next]_vars /\ Fairness

-----------------------------------------------------------------------------
(* Properties *)

(* Where an event can be.                                                  *)
Places == {pending, journal, lost, loop.took} \cup {req[r].took : r \in Request}

(* Every event is in exactly one place, whoever drained the sink between   *)
(* whose awaits: nothing is journalled twice, and nothing disappears but   *)
(* with a transaction that rolled back.                                    *)
EveryEventOnce ==
    /\ UNION Places = 1 .. emitted
    /\ \A r, s \in Request : r # s => req[r].took \cap req[s].took = {}
    /\ \A r \in Request : req[r].took \cap (pending \cup journal \cup lost \cup loop.took) = {}
    /\ pending \cap (journal \cup lost \cup loop.took) = {}
    /\ journal \cap lost = {} /\ loop.took \cap (journal \cup lost) = {}

(* The journal never shows what an operator did without the audit row that *)
(* explains it, although the sink is shared and anyone may drain it.       *)
AuditedTogether == journal \cap asked_for \subseteq audited

(* No advance's COPY runs into rows another advance has committed since    *)
(* its DELETE: two presses of one world's clock do not interleave.         *)
NoDuplicateKey == \A r \in Request : ~DuplicateKey(r)

(* What waits in the sink is written or rolled back, even when recording   *)
(* failed and the world has nothing more to say.                           *)
EventuallyRecorded == \A e \in Event : (e \in pending) ~> (e \in journal \cup lost)

(* Every press is answered: a press that fails lets the next one wind.     *)
PressesAnswered == \A r \in Request : (req[r].pc # "idle") ~> (req[r].pc = "idle")

-----------------------------------------------------------------------------
(* The sink and the transactions implement the log *)

(* What is drained and neither committed nor rolled back.                  *)
Batches == ({req[r].took : r \in Request} \cup {loop.took}) \ {{}}

Log == INSTANCE EventLog WITH waiting <- pending, batches <- Batches

(* However operations, windings and the recorder overlap over one sink, a  *)
(* transaction takes all that nobody has taken and leaves it in the        *)
(* journal, audited, or loses it, whole and for good; nothing goes back to *)
(* the sink, and what an operator asked for is never left in it.           *)
ImplementsLog == Log!Spec

-----------------------------------------------------------------------------
(* What the sources say and the code does not keep *)

(* routers/clock.py:41-42, MAX_WIND: "How far a world may be wound in      *)
(* total, over every press".                                               *)
WindBound == offset <= MAX_WIND

=============================================================================
