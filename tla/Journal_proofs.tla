--------------------------- MODULE Journal_proofs ---------------------------
(***************************************************************************)
(* Theorems about Journal, for every number of requests and every bound on *)
(* the winding and on the events.                                          *)
(*                                                                         *)
(* The inductive invariant has three parts besides the types: where every  *)
(* event is (Events), whose it is (Audit), and who has the lock (Lock).    *)
(* That the sink and its transactions implement EventLog needs one more:   *)
(* what a request produced is in what it drained (OwnTaken).               *)
(***************************************************************************)
EXTENDS Journal, FiniteSetTheorems, TLAPS

(* Where an event can be found.                                            *)
Somewhere(e) ==
    e \in pending \/ e \in journal \/ e \in lost \/ e \in loop.took
        \/ \E r \in Request : e \in req[r].took

(* Every event is in exactly one place; who has drained nothing holds none.*)
Events ==
    /\ pending \subseteq 1 .. emitted /\ journal \subseteq 1 .. emitted
    /\ lost \subseteq 1 .. emitted /\ loop.took \subseteq 1 .. emitted
    /\ \A r \in Request : req[r].took \subseteq 1 .. emitted
    /\ \A e \in 1 .. emitted : Somewhere(e)
    /\ \A r, s \in Request : r # s => req[r].took \cap req[s].took = {}
    /\ \A r \in Request : req[r].took \cap (pending \cup journal \cup lost \cup loop.took) = {}
    /\ pending \cap (journal \cup lost \cup loop.took) = {}
    /\ journal \cap lost = {} /\ loop.took \cap (journal \cup lost) = {}
    /\ \A r \in Request : req[r].pc \in {"idle", "refuse", "queue"} => req[r].took = {}
    /\ loop.pc # "write" => loop.took = {}

(* What an operator asked for is drained by the request that emitted it,   *)
(* and by nobody else.                                                     *)
Audit ==
    /\ asked_for \cap (pending \cup loop.took) = {}
    /\ \A r \in Request : /\ req[r].took \cap asked_for \subseteq req[r].own
                          /\ req[r].own \subseteq asked_for
    /\ journal \cap asked_for \subseteq audited

(* The queue holds each request once, those in it wait, those that wait    *)
(* are in it, and whoever is under way stands first; a COPY still sees     *)
(* what its DELETE saw.                                                    *)
Lock ==
    /\ \A i, j \in 1 .. Len(queue) : queue[i] = queue[j] => i = j
    /\ \A i \in 1 .. Len(queue) : req[queue[i]].pc \in {"queue", "rewrite", "copy"}
    /\ \A r \in Request : req[r].pc = "queue" => \E i \in 1 .. Len(queue) : queue[i] = r
    /\ \A r \in Request : req[r].pc \in {"rewrite", "copy"} => queue # <<>> /\ Head(queue) = r
    /\ \A r \in Request : req[r].pc = "copy" => req[r].saw = projection

IInv == TypeOK /\ Events /\ Audit /\ Lock

-----------------------------------------------------------------------------
(* What the engine may have emitted *)

LEMMA EmitsNew ==
  ASSUME NEW own \in Emittable, Emits(own), emitted \in 0 .. MaxEvents
  PROVE  /\ own \subseteq Event
         /\ \/ own = {} /\ emitted' = emitted
            \/ own = {emitted + 1} /\ emitted' = emitted + 1 /\ emitted < MaxEvents
         /\ emitted' \in 0 .. MaxEvents
<1>1. MaxEvents \in Nat
  BY JournalAssumption
<1>2. Cardinality({}) = 0 /\ Cardinality({emitted + 1}) = 1
  BY FS_EmptySet, FS_Singleton
<1>3. own \subseteq Event
  BY DEF Emittable
<1>4. CASE own = {}
  BY <1>1, <1>2, <1>3, <1>4 DEF Emits
<1>5. CASE own # {}
  <2>1. emitted < MaxEvents /\ own = {emitted + 1}
    BY <1>5 DEF Emits
  <2>2. emitted' = emitted + 1
    BY <1>2, <2>1 DEF Emits
  <2> QED BY <1>1, <1>3, <2>1, <2>2
<1> QED BY <1>4, <1>5

LEMMA EmitsRange ==
  ASSUME TypeOK, NEW own \in Emittable, Emits(own)
  PROVE  /\ own \subseteq 1 .. emitted'
         /\ 1 .. emitted \subseteq 1 .. emitted'
         /\ emitted' \in 0 .. MaxEvents
         /\ own \subseteq Event /\ pending \cup own \subseteq Event
<1>1. emitted \in 0 .. MaxEvents /\ MaxEvents \in Nat /\ pending \subseteq 1 .. emitted
  BY JournalAssumption DEF TypeOK
<1>2. /\ own \subseteq Event /\ emitted' \in 0 .. MaxEvents
      /\ \/ own = {} /\ emitted' = emitted
         \/ own = {emitted + 1} /\ emitted' = emitted + 1 /\ emitted < MaxEvents
  BY <1>1, EmitsNew
<1>3. own \subseteq 1 .. emitted' /\ 1 .. emitted \subseteq 1 .. emitted'
  BY <1>1, <1>2
<1>4. pending \subseteq Event
  BY <1>1 DEF Event
<1> QED BY <1>2, <1>3, <1>4

LEMMA AtType ==
  ASSUME NEW pc \in {"idle", "write", "queue", "rewrite"},
         NEW took \in SUBSET Event, NEW own \in SUBSET Event, NEW days \in 0 .. MAX_WIND
  PROVE  LET q == At(pc, took, own, days)
         IN  q \in Req /\ q.pc = pc /\ q.took = took /\ q.own = own
  BY DEF At, Req

LEMMA IdleType == Idle \in Req /\ Idle.pc = "idle" /\ Idle.took = {} /\ Idle.own = {}
  BY AtType, JournalAssumption DEF Idle

(* One request changes, the others stay.                                   *)
LEMMA OneRequest ==
  ASSUME TypeOK, NEW r \in Request, NEW q \in Req, req' = [req EXCEPT ![r] = q]
  PROVE  /\ req' \in [Request -> Req]
         /\ req'[r] = q
         /\ \A s \in Request \ {r} : req'[s] = req[s]
  BY DEF TypeOK

-----------------------------------------------------------------------------
(* The queue of the lock *)

LEMMA JoinQueue ==
  ASSUME queue \in Seq(Request), Lock, NEW r \in Request, req[r].pc = "idle",
         queue' = Append(queue, r),
         req'[r].pc \in {"queue", "rewrite", "copy"},
         \A s \in Request \ {r} : req'[s] = req[s],
         req'[r].pc = "queue" \/ (queue = <<>> /\ req'[r].pc = "rewrite"),
         UNCHANGED projection
  PROVE  queue' \in Seq(Request) /\ Lock'
<1>1. queue' \in Seq(Request) /\ Len(queue') = Len(queue) + 1 /\ Len(queue) \in Nat
  BY DEF Lock
<1>2. /\ \A i \in 1 .. Len(queue) : queue'[i] = queue[i] /\ queue[i] \in Request
      /\ queue'[Len(queue) + 1] = r
  BY <1>1
<1>3. \A i \in 1 .. Len(queue) : queue[i] # r
  BY DEF Lock
<1>4. \A i, j \in 1 .. Len(queue') : queue'[i] = queue'[j] => i = j
  BY <1>1, <1>2, <1>3 DEF Lock
<1>5. \A i \in 1 .. Len(queue') : req'[queue'[i]].pc \in {"queue", "rewrite", "copy"}
  <2> TAKE i \in 1 .. Len(queue')
  <2>1. CASE i = Len(queue) + 1
    BY <1>2, <2>1
  <2>2. CASE i # Len(queue) + 1
    <3>1. i \in 1 .. Len(queue)
      BY <1>1, <2>2
    <3> QED BY <1>2, <1>3, <3>1 DEF Lock
  <2> QED BY <2>1, <2>2
<1>6. queue' # <<>>
  BY <1>1
<1>7. ASSUME NEW s \in Request, req'[s].pc \in {"rewrite", "copy"}
      PROVE  Head(queue') = s
  <2>1. CASE s = r
    BY <1>7, <2>1, <1>1, <1>2
  <2>2. CASE s # r
    <3>1. queue # <<>> /\ Head(queue) = s
      BY <1>7, <2>2 DEF Lock
    <3>2. Len(queue) > 0
      BY <3>1, <1>1
    <3> QED BY <1>1, <1>2, <3>1, <3>2
  <2> QED BY <2>1, <2>2
<1>8. \A s \in Request : req'[s].pc = "copy" => req'[s].saw = projection'
  BY DEF Lock
<1>9. ASSUME NEW s \in Request, req'[s].pc = "queue"
      PROVE  \E i \in 1 .. Len(queue') : queue'[i] = s
  <2>1. CASE s = r
    <3>1. Len(queue) + 1 \in 1 .. Len(queue')
      BY <1>1
    <3> QED BY <1>2, <2>1, <3>1
  <2>2. CASE s # r
    <3>1. PICK i \in 1 .. Len(queue) : queue[i] = s
      BY <1>9, <2>2 DEF Lock
    <3>2. i \in 1 .. Len(queue') /\ queue'[i] = s
      BY <1>1, <1>2, <3>1
    <3> QED BY <3>2
  <2> QED BY <2>1, <2>2
<1> QED BY <1>1, <1>4, <1>5, <1>6, <1>7, <1>8, <1>9 DEF Lock

(* The holder leaves: what is behind it moves up.                          *)
LEMMA LeaveQueue ==
  ASSUME queue \in Seq(Request), Lock, NEW r \in Request,
         req[r].pc \in {"rewrite", "copy"},
         queue' = Tail(queue),
         req'[r].pc = "idle",
         \A s \in Request \ {r} : req'[s] = req[s]
  PROVE  queue' \in Seq(Request) /\ Lock'
<1>1. queue # <<>> /\ Head(queue) = r /\ Len(queue) \in Nat /\ Len(queue) > 0
  BY DEF Lock
<1>2. /\ queue' \in Seq(Request) /\ Len(queue') = Len(queue) - 1
      /\ \A i \in 1 .. Len(queue') : queue'[i] = queue[i + 1]
  BY <1>1
<1>3. queue[1] = r
  BY <1>1
<1>4. \A i \in 1 .. Len(queue') : /\ i + 1 \in 1 .. Len(queue) /\ queue[i + 1] \in Request
                                  /\ queue[i + 1] # r
  BY <1>1, <1>2, <1>3 DEF Lock
<1>5. \A i, j \in 1 .. Len(queue') : queue'[i] = queue'[j] => i = j
  BY <1>2, <1>4 DEF Lock
<1>6. \A i \in 1 .. Len(queue') : req'[queue'[i]].pc \in {"queue", "rewrite", "copy"}
  BY <1>2, <1>4 DEF Lock
<1>7. \A s \in Request : req'[s].pc \notin {"rewrite", "copy"}
  BY <1>1 DEF Lock
<1>8. ASSUME NEW s \in Request, req'[s].pc = "queue"
      PROVE  \E i \in 1 .. Len(queue') : queue'[i] = s
  <2>1. PICK i \in 1 .. Len(queue) : queue[i] = s
    BY <1>8 DEF Lock
  <2>2. s # r
    BY <1>8
  <2>3. i - 1 \in 1 .. Len(queue') /\ queue'[i - 1] = queue[(i - 1) + 1] /\ (i - 1) + 1 = i
    BY <1>1, <1>2, <1>3, <2>1, <2>2
  <2> QED BY <2>1, <2>3
<1> QED BY <1>2, <1>5, <1>6, <1>7, <1>8 DEF Lock

(* A request moves on without joining or leaving.                          *)
LEMMA KeepQueue ==
  ASSUME queue \in Seq(Request), Lock, NEW r \in Request,
         UNCHANGED <<queue, projection>>,
         \A s \in Request \ {r} : req'[s] = req[s],
         req[r].pc \in {"queue", "rewrite", "copy"}
             => req'[r].pc \in {"queue", "rewrite", "copy"},
         req'[r].pc = "queue" => req[r].pc = "queue",
         req'[r].pc \in {"rewrite", "copy"} => queue # <<>> /\ Head(queue) = r,
         req'[r].pc = "copy" => req'[r].saw = projection
  PROVE  Lock'
  BY DEF Lock

-----------------------------------------------------------------------------
(* Each action preserves the invariant *)

(* An operation or a winding: the engine emits, everything is drained.     *)
LEMMA DrainStep ==
  ASSUME IInv, NEW r \in Request, NEW own \in Emittable, NEW q \in Req, Emits(own), Drain,
         req[r].pc \in {"idle", "queue"},
         req' = [req EXCEPT ![r] = q],
         q.took = pending \cup own, q.own = own, q.pc \in {"write", "rewrite"},
         asked_for' = asked_for \cup own,
         UNCHANGED <<journal, audited, lost, loop>>
  PROVE  Events' /\ Audit'
<1>1. /\ \/ own = {} /\ emitted' = emitted
         \/ own = {emitted + 1} /\ emitted' = emitted + 1
      /\ emitted \in 0 .. MaxEvents
  BY EmitsNew DEF IInv, TypeOK
<1>2. /\ req'[r] = q
      /\ \A s \in Request \ {r} : req'[s] = req[s]
  BY OneRequest DEF IInv
<1>3. /\ own \subseteq 1 .. emitted'
      /\ \A e \in 1 .. emitted : e \in 1 .. emitted' /\ e \notin own
      /\ \A e \in 1 .. emitted' : e \in 1 .. emitted \/ e \in own
      /\ MaxEvents \in Nat
  BY <1>1, JournalAssumption
<1>4. req[r].took = {}
  BY DEF IInv, Events
<1>5. pending' = {}
  BY DEF Drain
<1>6. Events'
  <2>1. /\ pending' \subseteq 1 .. emitted' /\ journal' \subseteq 1 .. emitted'
        /\ lost' \subseteq 1 .. emitted' /\ loop'.took \subseteq 1 .. emitted'
    BY <1>3, <1>5 DEF IInv, Events
  <2>2. \A s \in Request : req'[s].took \subseteq 1 .. emitted'
    BY <1>2, <1>3 DEF IInv, Events
  <2>3. \A e \in 1 .. emitted' : Somewhere(e)'
    <3> TAKE e \in 1 .. emitted'
    <3>1. CASE e \in own \/ e \in pending
      BY <1>2, <3>1 DEF Somewhere
    <3>2. CASE e \notin own /\ e \notin pending
      <4>1. Somewhere(e)
        BY <1>3, <3>2 DEF IInv, Events
      <4> QED BY <1>2, <1>4, <3>2, <4>1 DEF Somewhere
    <3> QED BY <3>1, <3>2
  <2>4. \A t, s \in Request : t # s => req'[t].took \cap req'[s].took = {}
    BY <1>2, <1>3 DEF IInv, Events
  <2>5. \A s \in Request : req'[s].took \cap (journal' \cup lost' \cup loop'.took) = {}
    BY <1>2, <1>3 DEF IInv, Events
  <2>6. \A s \in Request : req'[s].pc \in {"idle", "refuse", "queue"} => req'[s].took = {}
    BY <1>2 DEF IInv, Events
  <2> QED BY <1>5, <2>1, <2>2, <2>3, <2>4, <2>5, <2>6 DEF IInv, Events
<1>7. Audit'
  <2>1. asked_for' \cap loop'.took = {} /\ journal' \cap asked_for' \subseteq audited'
    BY <1>3 DEF IInv, Events, Audit
  <2>2. \A s \in Request : /\ req'[s].took \cap asked_for' \subseteq req'[s].own
                           /\ req'[s].own \subseteq asked_for'
    BY <1>2, <1>3 DEF IInv, Events, Audit
  <2> QED BY <1>5, <2>1, <2>2 DEF Audit
<1> QED BY <1>6, <1>7

(* A request's transaction ends: what it drained is in the journal, with   *)
(* its audit row, or lost.                                                 *)
LEMMA EndStep ==
  ASSUME IInv, NEW r \in Request, req' = [req EXCEPT ![r] = Idle],
         \/ /\ journal' = journal \cup req[r].took /\ audited' = audited \cup req[r].own
            /\ lost' = lost
         \/ lost' = lost \cup req[r].took /\ journal' = journal /\ audited' = audited,
         UNCHANGED <<emitted, asked_for, pending, loop>>
  PROVE  Events' /\ Audit'
<1>1. /\ req'[r] = Idle /\ Idle.took = {} /\ Idle.own = {} /\ Idle.pc = "idle"
      /\ \A s \in Request \ {r} : req'[s] = req[s]
  BY OneRequest, IdleType DEF IInv
<1>2. Events'
  <2>1. \A e \in 1 .. emitted' : Somewhere(e)'
    <3> TAKE e \in 1 .. emitted'
    <3>1. Somewhere(e)
      BY DEF IInv, Events
    <3>2. CASE e \in req[r].took
      BY <3>2 DEF Somewhere
    <3>3. CASE e \notin req[r].took
      BY <1>1, <3>1, <3>3 DEF Somewhere
    <3> QED BY <3>2, <3>3
  <2>2. /\ pending' \subseteq 1 .. emitted' /\ journal' \subseteq 1 .. emitted'
        /\ lost' \subseteq 1 .. emitted' /\ loop'.took \subseteq 1 .. emitted'
        /\ \A s \in Request : req'[s].took \subseteq 1 .. emitted'
    BY <1>1 DEF IInv, Events
  <2>3. \A t, s \in Request : t # s => req'[t].took \cap req'[s].took = {}
    BY <1>1 DEF IInv, Events
  <2>4. \A s \in Request :
           req'[s].took \cap (pending' \cup journal' \cup lost' \cup loop'.took) = {}
    BY <1>1 DEF IInv, Events
  <2>5. /\ pending' \cap (journal' \cup lost' \cup loop'.took) = {}
        /\ journal' \cap lost' = {} /\ loop'.took \cap (journal' \cup lost') = {}
    BY DEF IInv, Events
  <2>6. \A s \in Request : req'[s].pc \in {"idle", "refuse", "queue"} => req'[s].took = {}
    BY <1>1 DEF IInv, Events
  <2> QED BY <2>1, <2>2, <2>3, <2>4, <2>5, <2>6 DEF IInv, Events
<1>3. Audit'
  BY <1>1 DEF IInv, Audit
<1> QED BY <1>2, <1>3

(* A request moves on with what it has, or without anything.               *)
LEMMA MoveStep ==
  ASSUME IInv, NEW r \in Request, NEW q \in Req, req' = [req EXCEPT ![r] = q],
         q.took = req[r].took, q.own \subseteq asked_for,
         req[r].took \cap asked_for \subseteq q.own,
         q.pc \in {"idle", "refuse", "queue"} => q.took = {},
         UNCHANGED <<emitted, asked_for, pending, journal, audited, lost, loop>>
  PROVE  Events' /\ Audit'
<1>1. /\ req'[r] = q
      /\ \A s \in Request \ {r} : req'[s] = req[s]
  BY OneRequest DEF IInv
<1>2. \A s \in Request : req'[s].took = req[s].took
  BY <1>1
<1>3. \A s \in Request : req'[s].pc \in {"idle", "refuse", "queue"} => req'[s].took = {}
  BY <1>1 DEF IInv, Events
<1>4. \A e : Somewhere(e)' <=> Somewhere(e)
  BY <1>2 DEF Somewhere
<1>5. Events'
  BY <1>2, <1>3, <1>4 DEF IInv, Events
<1>6. \A s \in Request : /\ req[s].took \cap asked_for \subseteq req'[s].own
                         /\ req'[s].own \subseteq asked_for
  BY <1>1 DEF IInv, Audit
<1>7. Audit'
  BY <1>2, <1>6 DEF IInv, Audit
<1> QED BY <1>5, <1>7

LEMMA PerformStep ==
  ASSUME IInv, NEW r \in Request, Perform(r)
  PROVE  IInv'
<1>1. PICK own \in Emittable :
        /\ Emits(own)
        /\ asked_for' = asked_for \cup own
        /\ req' = [req EXCEPT ![r] = At("write", pending \cup own, own, 0)]
  BY DEF Perform
<1> DEFINE q == At("write", pending \cup own, own, 0)
<1>2. /\ own \subseteq 1 .. emitted'
      /\ 1 .. emitted \subseteq 1 .. emitted'
      /\ emitted' \in 0 .. MaxEvents
      /\ own \subseteq Event /\ pending \cup own \subseteq Event
  BY <1>1, EmitsRange DEF IInv
<1>3. q \in Req /\ q.pc = "write" /\ q.took = pending \cup own /\ q.own = own
  <2>1. 0 \in 0 .. MAX_WIND
    BY JournalAssumption
  <2> QED BY <1>2, <2>1, AtType
<1>4. /\ req[r].pc = "idle" /\ Drain
      /\ UNCHANGED <<journal, audited, lost, offset, queue, projection, loop>>
  BY DEF Perform
<1> HIDE DEF q
<1>5. req' = [req EXCEPT ![r] = q]
  BY <1>1 DEF q
<1>6. Events' /\ Audit'
  BY <1>1, <1>3, <1>4, <1>5, DrainStep
<1>7. /\ req' \in [Request -> Req] /\ req'[r] = q
      /\ \A s \in Request \ {r} : req'[s] = req[s]
  BY <1>3, <1>5, OneRequest DEF IInv
<1>8. TypeOK'
  BY <1>1, <1>2, <1>4, <1>7 DEF IInv, TypeOK, Drain
<1>9. Lock'
  BY <1>3, <1>4, <1>7, KeepQueue DEF IInv, TypeOK
<1> QED BY <1>6, <1>8, <1>9 DEF IInv

LEMMA CommitPerformStep ==
  ASSUME IInv, NEW r \in Request, CommitPerform(r)
  PROVE  IInv'
<1>1. Events' /\ Audit'
  BY EndStep DEF CommitPerform
<1>2. /\ req' \in [Request -> Req] /\ req'[r] = Idle /\ Idle.pc = "idle"
      /\ \A s \in Request \ {r} : req'[s] = req[s]
  BY OneRequest, IdleType DEF IInv, CommitPerform
<1>3. TypeOK'
  BY <1>1, <1>2 DEF IInv, TypeOK, CommitPerform, Events, Audit
<1>4. Lock'
  BY <1>2, KeepQueue DEF IInv, TypeOK, CommitPerform
<1> QED BY <1>1, <1>3, <1>4 DEF IInv

(* A winding that starts, at once or from the queue.                       *)
LEMMA WindStep ==
  ASSUME IInv, NEW r \in Request, NEW days \in 0 .. MAX_WIND, Wind(r, days),
         req[r].pc \in {"idle", "queue"},
         UNCHANGED <<journal, audited, lost, projection, loop>>,
         queue' \in Seq(Request)
  PROVE  /\ TypeOK' /\ Events' /\ Audit'
         /\ req'[r].pc = "rewrite" /\ \A s \in Request \ {r} : req'[s] = req[s]
<1>1. PICK own \in Emittable :
        /\ Emits(own)
        /\ asked_for' = asked_for \cup own
        /\ req' = [req EXCEPT ![r] = At("rewrite", pending \cup own, own, days)]
  BY DEF Wind
<1> DEFINE q == At("rewrite", pending \cup own, own, days)
<1>2. /\ own \subseteq 1 .. emitted'
      /\ 1 .. emitted \subseteq 1 .. emitted'
      /\ emitted' \in 0 .. MaxEvents
      /\ own \subseteq Event /\ pending \cup own \subseteq Event
  BY <1>1, EmitsRange DEF IInv
<1>3. offset' \in Nat
  BY JournalAssumption DEF Wind, IInv, TypeOK
<1>4. q \in Req /\ q.pc = "rewrite" /\ q.took = pending \cup own /\ q.own = own
  BY <1>2, AtType
<1>5. Drain
  BY DEF Wind
<1> HIDE DEF q
<1>6. req' = [req EXCEPT ![r] = q]
  BY <1>1 DEF q
<1>7. Events' /\ Audit'
  BY <1>1, <1>4, <1>5, <1>6, DrainStep
<1>8. /\ req' \in [Request -> Req] /\ req'[r] = q
      /\ \A s \in Request \ {r} : req'[s] = req[s]
  BY <1>4, <1>6, OneRequest DEF IInv
<1>9. TypeOK'
  BY <1>1, <1>2, <1>3, <1>5, <1>8 DEF IInv, TypeOK, Drain
<1> QED BY <1>4, <1>7, <1>8, <1>9

(* A request that moves on takes no event and writes nothing.              *)
LEMMA PlainStep ==
  ASSUME IInv, NEW r \in Request, NEW q \in Req, req' = [req EXCEPT ![r] = q],
         q.took = req[r].took, q.own \subseteq asked_for,
         req[r].took \cap asked_for \subseteq q.own,
         q.pc \in {"idle", "refuse", "queue"} => q.took = {},
         queue' \in Seq(Request),
         UNCHANGED <<emitted, asked_for, pending, journal, audited, lost, offset, projection,
                     loop>>
  PROVE  TypeOK' /\ Events' /\ Audit'
<1>1. Events' /\ Audit'
  BY MoveStep
<1>2. req' \in [Request -> Req]
  BY OneRequest DEF IInv
<1>3. TypeOK'
  BY <1>2 DEF IInv, TypeOK
<1> QED BY <1>1, <1>3

LEMMA AdvanceStep ==
  ASSUME IInv, NEW r \in Request, NEW days \in 1 .. MAX_WIND, Advance(r, days)
  PROVE  IInv'
<1>1. /\ req[r].pc = "idle" /\ req[r].took = {} /\ req[r] \in Req
      /\ queue \in Seq(Request)
      /\ UNCHANGED <<journal, audited, lost, projection, loop>>
  BY DEF Advance, IInv, TypeOK, Events
<1>2. CASE days > MAX_WIND - offset
  <2> DEFINE q == [req[r] EXCEPT !.pc = "refuse"]
  <2>1. /\ req' = [req EXCEPT ![r] = q]
        /\ UNCHANGED <<emitted, asked_for, pending, offset, queue>>
    BY <1>2, <1>1, JournalAssumption DEF Advance, IInv, TypeOK
  <2>2. q \in Req /\ q.pc = "refuse" /\ q.took = {} /\ q.own = req[r].own
    BY <1>1 DEF Req
  <2> HIDE DEF q
  <2>3. q.own \subseteq asked_for
    BY <2>2 DEF IInv, Audit
  <2>4. TypeOK' /\ Events' /\ Audit'
    BY <1>1, <2>1, <2>2, <2>3, PlainStep
  <2>5. Lock'
    BY <1>1, <2>1, <2>2, OneRequest, KeepQueue DEF IInv
  <2> QED BY <2>4, <2>5 DEF IInv
<1>3. CASE days <= MAX_WIND - offset
  <2>1. queue' = Append(queue, r) /\ queue' \in Seq(Request)
    <3>1. ~(days > MAX_WIND - offset)
      BY <1>3, JournalAssumption DEF IInv, TypeOK
    <3>2. queue' = Append(queue, r)
      BY <3>1 DEF Advance
    <3> QED BY <1>1, <3>2
  <2>2. CASE queue = <<>>
    <3>1. Wind(r, days)
      BY <1>1, <1>3, <2>2, JournalAssumption DEF Advance, IInv, TypeOK
    <3>2. /\ TypeOK' /\ Events' /\ Audit'
          /\ req'[r].pc = "rewrite" /\ \A s \in Request \ {r} : req'[s] = req[s]
      <4>1. days \in 0 .. MAX_WIND
        BY JournalAssumption
      <4> QED BY <1>1, <2>1, <3>1, <4>1, WindStep
    <3>3. Lock'
      BY <1>1, <2>1, <2>2, <3>2, JoinQueue DEF IInv
    <3> QED BY <3>2, <3>3 DEF IInv
  <2>3. CASE queue # <<>>
    <3> DEFINE q == At("queue", {}, {}, days)
    <3>1. /\ req' = [req EXCEPT ![r] = q]
          /\ UNCHANGED <<emitted, asked_for, pending, offset>>
      BY <1>1, <1>3, <2>3, JournalAssumption DEF Advance, IInv, TypeOK
    <3>2. days \in 0 .. MAX_WIND
      BY JournalAssumption
    <3>3. q \in Req /\ q.pc = "queue" /\ q.took = {} /\ q.own = {}
      BY <3>2, AtType
    <3> HIDE DEF q
    <3>4. TypeOK' /\ Events' /\ Audit'
      BY <1>1, <2>1, <3>1, <3>3, PlainStep
    <3>5. req'[r] = q /\ \A s \in Request \ {r} : req'[s] = req[s]
      BY <3>1, <3>3, OneRequest DEF IInv
    <3>6. Lock'
      BY <1>1, <2>1, <3>3, <3>5, JoinQueue DEF IInv
    <3> QED BY <3>4, <3>6 DEF IInv
  <2> QED BY <2>2, <2>3
<1> QED BY <1>2, <1>3, JournalAssumption DEF IInv, TypeOK

LEMMA RefuseStep ==
  ASSUME IInv, NEW r \in Request, Refuse(r)
  PROVE  IInv'
<1>1. /\ req[r].took = {} /\ queue \in Seq(Request)
      /\ req' = [req EXCEPT ![r] = Idle] /\ req[r].pc = "refuse"
      /\ UNCHANGED <<emitted, asked_for, pending, journal, audited, lost, offset, queue,
                     projection, loop>>
  BY DEF Refuse, IInv, TypeOK, Events
<1>2. TypeOK' /\ Events' /\ Audit'
  BY <1>1, IdleType, PlainStep
<1>3. req'[r] = Idle /\ \A s \in Request \ {r} : req'[s] = req[s]
  BY <1>1, IdleType, OneRequest DEF IInv
<1>4. Lock'
  BY <1>1, <1>3, IdleType, KeepQueue DEF IInv
<1> QED BY <1>2, <1>4 DEF IInv

LEMMA AcquireStep ==
  ASSUME IInv, NEW r \in Request, Acquire(r)
  PROVE  IInv'
<1>1. /\ req[r].pc = "queue" /\ Head(queue) = r /\ req[r].days \in 0 .. MAX_WIND
      /\ UNCHANGED <<journal, audited, lost, queue, projection, loop>>
      /\ Wind(r, req[r].days)
      /\ queue \in Seq(Request)
  BY DEF Acquire, IInv, TypeOK, Req
<1>2. /\ TypeOK' /\ Events' /\ Audit'
      /\ req'[r].pc = "rewrite" /\ \A s \in Request \ {r} : req'[s] = req[s]
  BY <1>1, WindStep
<1>3. queue # <<>>
  <2>1. PICK i \in 1 .. Len(queue) : queue[i] = r
    BY <1>1 DEF IInv, Lock
  <2>2. Len(queue) \in Nat /\ Len(queue) > 0
    BY <1>1, <2>1
  <2> QED BY <2>2
<1>4. Lock'
  BY <1>1, <1>2, <1>3, KeepQueue DEF IInv
<1> QED BY <1>2, <1>4 DEF IInv

LEMMA DeleteProjectionStep ==
  ASSUME IInv, NEW r \in Request, DeleteProjection(r)
  PROVE  IInv'
<1> DEFINE q == [req[r] EXCEPT !.pc = "copy", !.saw = projection]
<1>1. /\ req[r].pc = "rewrite" /\ req[r] \in Req /\ queue \in Seq(Request)
      /\ projection \in Nat
      /\ UNCHANGED <<emitted, asked_for, pending, journal, audited, lost, offset, queue,
                     projection, loop>>
  BY DEF DeleteProjection, IInv, TypeOK
<1>2. q \in Req /\ q.pc = "copy" /\ q.saw = projection /\ q.took = req[r].took
      /\ q.own = req[r].own
  BY <1>1 DEF Req
<1>3. req' = [req EXCEPT ![r] = q]
  BY DEF DeleteProjection
<1> HIDE DEF q
<1>4. q.own \subseteq asked_for /\ req[r].took \cap asked_for \subseteq q.own
  BY <1>2 DEF IInv, Audit
<1>5. TypeOK' /\ Events' /\ Audit'
  BY <1>1, <1>2, <1>3, <1>4, PlainStep
<1>6. req'[r] = q /\ \A s \in Request \ {r} : req'[s] = req[s]
  BY <1>2, <1>3, OneRequest DEF IInv
<1>7. queue # <<>> /\ Head(queue) = r
  BY <1>1 DEF IInv, Lock
<1>8. Lock'
  BY <1>1, <1>2, <1>6, <1>7, KeepQueue DEF IInv
<1> QED BY <1>5, <1>8 DEF IInv

LEMMA CommitAdvanceStep ==
  ASSUME IInv, NEW r \in Request, CommitAdvance(r)
  PROVE  IInv'
<1>1. Events' /\ Audit'
  BY EndStep DEF CommitAdvance
<1>2. /\ req' \in [Request -> Req] /\ req'[r] = Idle
      /\ \A s \in Request \ {r} : req'[s] = req[s]
  BY OneRequest, IdleType DEF IInv, CommitAdvance
<1>3. queue' \in Seq(Request) /\ Lock'
  BY <1>2, IdleType, LeaveQueue DEF IInv, TypeOK, CommitAdvance
<1>4. projection' \in Nat
  BY DEF CommitAdvance, IInv, TypeOK
<1>5. audited' \subseteq asked_for'
  BY DEF CommitAdvance, IInv, TypeOK, Audit
<1>6. TypeOK'
  BY <1>1, <1>2, <1>3, <1>4, <1>5 DEF IInv, TypeOK, CommitAdvance, Events
<1> QED BY <1>1, <1>3, <1>6 DEF IInv

LEMMA FailStep ==
  ASSUME IInv, NEW r \in Request, Fail(r)
  PROVE  IInv'
<1>1. Events' /\ Audit'
  BY EndStep DEF Fail
<1>2. /\ req' \in [Request -> Req] /\ req'[r] = Idle
      /\ \A s \in Request \ {r} : req'[s] = req[s]
      /\ queue \in Seq(Request)
  BY OneRequest, IdleType DEF IInv, TypeOK, Fail
<1>3. queue' \in Seq(Request) /\ Lock'
  <2>1. CASE req[r].pc = "write"
    <3>1. UNCHANGED <<queue, projection>>
      BY <2>1 DEF Fail
    <3> QED BY <1>2, <2>1, <3>1, IdleType, KeepQueue DEF IInv
  <2>2. CASE req[r].pc \in {"rewrite", "copy"}
    <3>1. queue' = Tail(queue)
      BY <2>2 DEF Fail
    <3> QED BY <1>2, <2>2, <3>1, IdleType, LeaveQueue DEF IInv
  <2> QED BY <2>1, <2>2 DEF Fail
<1>4. TypeOK'
  BY <1>1, <1>2, <1>3 DEF IInv, TypeOK, Fail, Events
<1> QED BY <1>1, <1>3, <1>4 DEF IInv

LEMMA TickWorldStep ==
  ASSUME IInv, TickWorld
  PROVE  IInv'
<1>1. PICK own \in Emittable :
        /\ Emits(own) /\ pending' = pending \cup own
        /\ loop' = IF pending' = {} THEN loop ELSE [loop EXCEPT !.pc = "connect"]
  BY DEF TickWorld
<1>2. /\ loop.pc = "sleep" /\ loop.took = {}
      /\ UNCHANGED <<journal, lost, asked_for, audited, offset, queue, projection, req>>
  BY DEF TickWorld, TickerOnly, IInv, Events
<1>3. /\ own \subseteq 1 .. emitted' /\ 1 .. emitted \subseteq 1 .. emitted'
      /\ emitted' \in 0 .. MaxEvents
  BY <1>1, EmitsRange DEF IInv
<1>4. /\ \A e \in own : e \notin 1 .. emitted
      /\ \A e \in 1 .. emitted' : e \in 1 .. emitted \/ e \in own
  <2>1. \/ own = {} /\ emitted' = emitted
        \/ own = {emitted + 1} /\ emitted' = emitted + 1
    BY <1>1, EmitsNew DEF IInv, TypeOK
  <2>2. emitted \in Nat
    BY JournalAssumption DEF IInv, TypeOK
  <2> QED BY <2>1, <2>2
<1>5. /\ loop' \in [pc: {"sleep", "connect", "write"}, took: SUBSET Event]
      /\ loop'.took = {} /\ loop'.pc # "write"
  BY <1>1, <1>2 DEF IInv, TypeOK
<1>6. TypeOK'
  BY <1>1, <1>2, <1>3, <1>5 DEF IInv, TypeOK
<1>7. Events'
  <2>1. \A e \in 1 .. emitted' : Somewhere(e)'
    BY <1>1, <1>2, <1>4, <1>5 DEF IInv, Events, Somewhere
  <2> QED BY <1>1, <1>2, <1>3, <1>4, <1>5, <2>1 DEF IInv, Events
<1>8. Audit'
  <2>1. asked_for \subseteq 1 .. emitted
    BY DEF IInv, TypeOK
  <2> QED BY <1>1, <1>2, <1>4, <1>5, <2>1 DEF IInv, Audit
<1>9. Lock'
  BY <1>2 DEF IInv, Lock
<1> QED BY <1>6, <1>7, <1>8, <1>9 DEF IInv

LEMMA ConnectStep ==
  ASSUME IInv, Connect
  PROVE  IInv'
<1>1. /\ loop.pc = "connect" /\ loop.took = {} /\ pending' = {}
      /\ loop'.took = pending /\ (loop'.pc = "write" \/ pending = {})
      /\ UNCHANGED <<emitted, journal, lost, asked_for, audited, offset, queue, projection, req>>
  BY DEF Connect, Drain, TickerOnly, IInv, Events, Asleep
<1>2. pending \subseteq Event
  BY JournalAssumption DEF IInv, TypeOK, Event
<1>3. loop' \in [pc: {"sleep", "connect", "write"}, took: SUBSET Event]
  BY <1>2 DEF Connect, Asleep
<1>4. TypeOK'
  BY <1>1, <1>3 DEF IInv, TypeOK
<1>5. \A e : Somewhere(e) => Somewhere(e)'
  BY <1>1 DEF Somewhere
<1>6. Events'
  BY <1>1, <1>5 DEF IInv, Events
<1>7. Audit'
  BY <1>1 DEF IInv, Audit
<1>8. Lock'
  BY <1>1 DEF IInv, Lock
<1> QED BY <1>4, <1>6, <1>7, <1>8 DEF IInv

LEMMA NoConnectionStep ==
  ASSUME IInv, NoConnection
  PROVE  IInv'
<1>1. /\ loop.took = {} /\ loop' = Asleep /\ Asleep.took = {} /\ Asleep.pc = "sleep"
      /\ UNCHANGED <<emitted, pending, journal, lost, asked_for, audited, offset, queue,
                     projection, req>>
  BY DEF NoConnection, TickerOnly, IInv, Events, Asleep
<1>2. TypeOK'
  BY <1>1 DEF IInv, TypeOK, Asleep
<1>3. \A e : Somewhere(e) => Somewhere(e)'
  BY <1>1 DEF Somewhere
<1>4. Events' /\ Audit' /\ Lock'
  BY <1>1, <1>3 DEF IInv, Events, Audit, Lock
<1> QED BY <1>2, <1>4 DEF IInv

LEMMA RecordStep ==
  ASSUME IInv, Record
  PROVE  IInv'
<1>1. /\ loop' = Asleep /\ Asleep.took = {} /\ Asleep.pc = "sleep"
      /\ UNCHANGED <<emitted, pending, asked_for, audited, offset, queue, projection, req>>
      /\ \/ journal' = journal \cup loop.took /\ lost' = lost
         \/ lost' = lost \cup loop.took /\ journal' = journal
  BY DEF Record, TickerOnly, Asleep
<1>2. \A e : Somewhere(e) => Somewhere(e)'
  BY <1>1 DEF Somewhere
<1>3. Events'
  BY <1>1, <1>2 DEF IInv, Events
<1>4. Audit'
  BY <1>1 DEF IInv, Audit
<1>5. TypeOK'
  BY <1>1, <1>3 DEF IInv, TypeOK, Asleep, Events
<1>6. Lock'
  BY <1>1 DEF IInv, Lock
<1> QED BY <1>3, <1>4, <1>5, <1>6 DEF IInv

-----------------------------------------------------------------------------
(* The theorems *)

LEMMA Initially == Init => IInv
<1> SUFFICES ASSUME Init PROVE IInv
  OBVIOUS
<1>1. \A r \in Request : /\ req[r] \in Req /\ req[r].pc = "idle" /\ req[r].took = {}
                         /\ req[r].own = {}
  BY IdleType DEF Init
<1>2. 0 \in 0 .. MaxEvents /\ 1 .. 0 = {} /\ Len(<<>>) = 0 /\ <<>> \in Seq(Request)
  BY JournalAssumption
<1>3. /\ loop.took = {} /\ loop.pc = "sleep"
      /\ loop \in [pc: {"sleep", "connect", "write"}, took: SUBSET Event]
  BY DEF Init, Asleep
<1>4. TypeOK
  BY <1>1, <1>2, <1>3 DEF Init, TypeOK
<1>5. Events
  BY <1>1, <1>2, <1>3 DEF Init, Events
<1>6. Audit
  BY <1>1, <1>3 DEF Init, Audit
<1>7. Lock
  BY <1>1, <1>2 DEF Init, Lock
<1> QED BY <1>4, <1>5, <1>6, <1>7 DEF IInv

(* The invariant of every proof below: it holds at first and every step of *)
(* a request or of the ticker keeps it.                                    *)
THEOREM Inductive == Spec => []IInv
<1>1. IInv /\ [Next]_vars => IInv'
  <2> SUFFICES ASSUME IInv, [Next]_vars PROVE IInv'
    OBVIOUS
  <2>1. CASE UNCHANGED vars
    BY <2>1 DEF vars, IInv, TypeOK, Events, Somewhere, Audit, Lock
  <2>2. ASSUME NEW r \in Request, Perform(r) PROVE IInv'
    BY <2>2, PerformStep
  <2>3. ASSUME NEW r \in Request, Serve(r) PROVE IInv'
    BY <2>3, CommitPerformStep, RefuseStep, AcquireStep, DeleteProjectionStep,
       CommitAdvanceStep, FailStep DEF Serve
  <2>4. ASSUME NEW r \in Request, NEW days \in 1 .. MAX_WIND, Advance(r, days) PROVE IInv'
    BY <2>4, AdvanceStep
  <2>5. CASE Ticker
    BY <2>5, TickWorldStep, ConnectStep, NoConnectionStep, RecordStep DEF Ticker
  <2> QED BY <2>1, <2>2, <2>3, <2>4, <2>5 DEF Next
<1> QED BY <1>1, Initially, PTL DEF Spec

(* The variables of the journal keep their types in every state.           *)
THEOREM TypeCorrect == Spec => []TypeOK
<1>1. IInv => TypeOK
  BY DEF IInv
<1> QED BY <1>1, Inductive, PTL

(* Whoever drains the sink between whose awaits, no event is journalled    *)
(* twice and none disappears but with a transaction that rolled back.      *)
THEOREM NothingLostTwice == Spec => []EveryEventOnce
<1>1. IInv => EveryEventOnce
  <2> SUFFICES ASSUME IInv PROVE EveryEventOnce
    OBVIOUS
  <2>1. UNION Places \subseteq 1 .. emitted
    BY DEF Places, IInv, Events
  <2>2. ASSUME NEW e \in 1 .. emitted PROVE e \in UNION Places
    <3>1. Somewhere(e)
      BY DEF IInv, Events
    <3> QED BY <3>1 DEF Somewhere, Places
  <2> QED BY <2>1, <2>2 DEF EveryEventOnce, IInv, Events
<1> QED BY <1>1, Inductive, PTL

(* The journal shows what an operator did only beside the audit row of it. *)
THEOREM JournalIsExplained == Spec => []AuditedTogether
<1>1. IInv => AuditedTogether
  BY DEF IInv, Audit, AuditedTogether
<1> QED BY <1>1, Inductive, PTL

(* However many presses wait, fail or commit, no COPY of the projection    *)
(* meets rows committed since its DELETE.                                  *)
THEOREM OneWindingAtATime == Spec => []NoDuplicateKey
<1>1. IInv => NoDuplicateKey
  BY DEF IInv, Lock, NoDuplicateKey, DuplicateKey
<1> QED BY <1>1, Inductive, PTL

-----------------------------------------------------------------------------
(* The log *)

(* What a request has itself produced is in what it drained: the engine    *)
(* runs before the sink is emptied.                                        *)
OwnTaken == \A r \in Request : req[r].own \subseteq req[r].took

LEMMA OwnTakenInvariant == Spec => []OwnTaken
<1>1. Init => OwnTaken
  BY IdleType DEF Init, OwnTaken
<1>2. ASSUME IInv, OwnTaken, [Next]_vars PROVE OwnTaken'
  <2>1. CASE UNCHANGED req
    BY <1>2, <2>1 DEF OwnTaken
  <2>2. ASSUME NEW r \in Request, NEW q \in Req, req' = [req EXCEPT ![r] = q],
               q.own \subseteq q.took
        PROVE  OwnTaken'
    BY <1>2, <2>2, OneRequest DEF IInv, OwnTaken
  <2>3. ASSUME NEW r \in Request, Perform(r) PROVE OwnTaken'
    <3>1. PICK own \in Emittable : /\ Emits(own)
                                   /\ req' = [req EXCEPT ![r] = At("write", pending \cup own, own, 0)]
      BY <2>3 DEF Perform
    <3>2. own \subseteq Event /\ pending \cup own \subseteq Event
      BY <1>2, <3>1, EmitsRange DEF IInv
    <3>3. LET q == At("write", pending \cup own, own, 0)
          IN  q \in Req /\ q.took = pending \cup own /\ q.own = own
      BY <3>2, AtType, JournalAssumption
    <3> QED BY <2>2, <3>1, <3>3
  <2>4. ASSUME NEW r \in Request, NEW days \in 0 .. MAX_WIND, Wind(r, days) PROVE OwnTaken'
    <3>1. PICK own \in Emittable :
             /\ Emits(own)
             /\ req' = [req EXCEPT ![r] = At("rewrite", pending \cup own, own, days)]
      BY <2>4 DEF Wind
    <3>2. own \subseteq Event /\ pending \cup own \subseteq Event
      BY <1>2, <3>1, EmitsRange DEF IInv
    <3>3. LET q == At("rewrite", pending \cup own, own, days)
          IN  q \in Req /\ q.took = pending \cup own /\ q.own = own
      BY <3>2, AtType
    <3> QED BY <2>2, <3>1, <3>3
  <2>5. ASSUME NEW r \in Request, NEW days \in 1 .. MAX_WIND, Advance(r, days) PROVE OwnTaken'
    <3>1. CASE req' = [req EXCEPT ![r].pc = "refuse"]
      BY <1>2, <3>1 DEF IInv, TypeOK, Req, OwnTaken
    <3>2. CASE req' = [req EXCEPT ![r] = At("queue", {}, {}, days)]
      <4>1. LET q == At("queue", {}, {}, days)
            IN  q \in Req /\ q.took = {} /\ q.own = {}
        BY AtType
      <4> QED BY <2>2, <3>2, <4>1
    <3>3. CASE Wind(r, days)
      BY <2>4, <3>3
    <3> QED BY <2>5, <3>1, <3>2, <3>3 DEF Advance
  <2>6. ASSUME NEW r \in Request, Serve(r) PROVE OwnTaken'
    <3>1. CASE req' = [req EXCEPT ![r] = Idle]
      BY <2>2, <3>1, IdleType
    <3>2. CASE Acquire(r)
      BY <1>2, <2>4, <3>2 DEF Acquire, IInv, TypeOK, Req
    <3>3. CASE DeleteProjection(r)
      BY <1>2, <3>3 DEF DeleteProjection, IInv, TypeOK, Req, OwnTaken
    <3> QED BY <2>6, <3>1, <3>2, <3>3 DEF Serve, CommitPerform, Refuse, CommitAdvance, Fail
  <2>7. CASE Ticker
    BY <2>1, <2>7 DEF Ticker, TickWorld, Connect, NoConnection, Record, TickerOnly
  <2> QED BY <1>2, <2>1, <2>3, <2>5, <2>6, <2>7 DEF Next, vars
<1> QED BY <1>1, <1>2, Inductive, PTL DEF Spec

(* A transaction that opens is one more batch, unless it drained nothing.  *)
LEMMA BatchOpens ==
  ASSUME TypeOK, NEW r \in Request, NEW q \in Req, req' = [req EXCEPT ![r] = q],
         req[r].took = {}, UNCHANGED loop
  PROVE  Batches' = IF q.took = {} THEN Batches ELSE Batches \cup {q.took}
<1>1. req'[r] = q /\ \A s \in Request \ {r} : req'[s] = req[s]
  BY OneRequest
<1>2. ASSUME NEW b, b # {}
      PROVE  b \in Batches' <=> b = q.took \/ b \in Batches
  BY <1>1, <1>2 DEF Batches
<1>3. {} \notin Batches /\ {} \notin Batches'
  BY DEF Batches
<1>4. CASE q.took = {}
  <2>1. \A b : b \in Batches' <=> b \in Batches
    BY <1>2, <1>3, <1>4
  <2> QED BY <1>4, <2>1
<1>5. CASE q.took # {}
  <2>1. \A b : b \in Batches' <=> b \in Batches \cup {q.took}
    BY <1>2, <1>3, <1>5
  <2> QED BY <1>5, <2>1
<1> QED BY <1>4, <1>5

(* A transaction that ends was one of the batches, unless it had drained   *)
(* nothing; nobody else had what it had.                                   *)
LEMMA BatchEnds ==
  ASSUME IInv, NEW r \in Request, req' = [req EXCEPT ![r] = Idle], UNCHANGED loop
  PROVE  IF req[r].took = {} THEN Batches' = Batches
         ELSE req[r].took \in Batches /\ Batches' = Batches \ {req[r].took}
<1>1. /\ req'[r].took = {}
      /\ \A s \in Request \ {r} : req'[s] = req[s]
  BY OneRequest, IdleType DEF IInv
<1>2. \A s \in Request \ {r} : req[s].took \cap req[r].took = {}
  BY DEF IInv, Events
<1>3. loop.took \cap req[r].took = {}
  BY DEF IInv, Events
<1> QED BY <1>1, <1>2, <1>3 DEF Batches

(* A request that moves on holds what it held.                             *)
LEMMA BatchesStay ==
  ASSUME NEW r \in Request, req'[r].took = req[r].took,
         \A s \in Request \ {r} : req'[s] = req[s], UNCHANGED loop
  PROVE  Batches' = Batches
<1>1. \A s \in Request : req'[s].took = req[s].took
  OBVIOUS
<1> QED BY <1>1 DEF Batches

(* The log's words.                                                        *)
LEMMA LogTerms ==
  /\ Log!New = (emitted + 1) .. emitted'
  /\ Log!Emits <=> emitted' \in Nat /\ emitted' >= emitted
  /\ Log!Ask <=> /\ emitted' \in Nat /\ emitted' >= emitted
                 /\ asked_for' = asked_for \cup ((emitted + 1) .. emitted')
                 /\ pending \cup ((emitted + 1) .. emitted') # {}
                 /\ Batches' = Batches \cup {pending \cup ((emitted + 1) .. emitted')}
                 /\ pending' = {}
                 /\ UNCHANGED <<journal, audited, lost>>
  /\ Log!Happen <=> /\ emitted' \in Nat /\ emitted' >= emitted
                    /\ pending' = pending \cup ((emitted + 1) .. emitted')
                    /\ UNCHANGED <<asked_for, Batches, journal, audited, lost>>
  /\ Log!Collect <=> /\ pending # {} /\ Batches' = Batches \cup {pending} /\ pending' = {}
                     /\ UNCHANGED <<emitted, asked_for, journal, audited, lost>>
  BY DEF Log!New, Log!Emits, Log!Ask, Log!Happen, Log!Collect, Log!Taken

(* What is emitted in a step is what comes after what was.                 *)
LEMMA EmitsNext ==
  ASSUME TypeOK, NEW own \in Emittable, Emits(own)
  PROVE  /\ own = (emitted + 1) .. emitted'
         /\ emitted' \in Nat /\ emitted' >= emitted
<1>1. /\ emitted \in Nat
      /\ \/ own = {} /\ emitted' = emitted
         \/ own = {emitted + 1} /\ emitted' = emitted + 1
  BY EmitsNew, JournalAssumption DEF TypeOK
<1>2. CASE own = {} /\ emitted' = emitted
  BY <1>1, <1>2
<1>3. CASE own = {emitted + 1} /\ emitted' = emitted + 1
  BY <1>1, <1>3
<1> QED BY <1>1, <1>2, <1>3

(* An operation or a winding takes its batch.                              *)
LEMMA LogAsks ==
  ASSUME IInv, NEW r \in Request, NEW own \in Emittable, NEW q \in Req, Emits(own), Drain,
         req[r].pc \in {"idle", "queue"},
         req' = [req EXCEPT ![r] = q], q.took = pending \cup own,
         asked_for' = asked_for \cup own,
         UNCHANGED <<journal, audited, lost, loop>>
  PROVE  [Log!Next]_Log!vars
<1>1. own = (emitted + 1) .. emitted' /\ emitted' \in Nat /\ emitted' >= emitted
  BY EmitsNext DEF IInv
<1>2. req[r].took = {} /\ TypeOK
  BY DEF IInv, Events
<1>3. Batches' = IF q.took = {} THEN Batches ELSE Batches \cup {q.took}
  BY <1>2, BatchOpens
<1>4. CASE q.took = {}
  <2>1. own = {} /\ pending = {} /\ emitted' = emitted
    BY <1>2, <1>4, EmitsNew DEF TypeOK
  <2> QED BY <1>3, <1>4, <2>1 DEF Log!vars, Drain
<1>5. CASE q.took # {}
  <2>1. Log!Ask
    BY <1>1, <1>3, <1>5, LogTerms DEF Drain
  <2> QED BY <2>1 DEF Log!Next
<1> QED BY <1>4, <1>5

(* Its transaction ends, and the batch is in the journal or lost.          *)
LEMMA LogEnds ==
  ASSUME IInv, OwnTaken, NEW r \in Request, req' = [req EXCEPT ![r] = Idle],
         \/ /\ journal' = journal \cup req[r].took /\ audited' = audited \cup req[r].own
            /\ lost' = lost
         \/ lost' = lost \cup req[r].took /\ journal' = journal /\ audited' = audited,
         UNCHANGED <<emitted, asked_for, pending, loop>>
  PROVE  [Log!Next]_Log!vars
<1>1. req[r].own = req[r].took \cap asked_for
  BY DEF IInv, Audit, OwnTaken
<1>2. CASE req[r].took = {}
  BY <1>1, <1>2, BatchEnds DEF Log!vars
<1>3. CASE req[r].took # {}
  <2>1. req[r].took \in Batches /\ Batches' = Batches \ {req[r].took}
    BY <1>3, BatchEnds
  <2>2. Log!Write(req[r].took) \/ Log!Lose(req[r].took)
    BY <1>1, <2>1 DEF Log!Write, Log!Lose
  <2> QED BY <2>1, <2>2 DEF Log!Next
<1> QED BY <1>2, <1>3

LEMMA LogTicks ==
  ASSUME IInv, Ticker
  PROVE  [Log!Next]_Log!vars
<1>1. UNCHANGED <<asked_for, audited, req>>
  BY DEF Ticker, TickWorld, Connect, NoConnection, Record, TickerOnly
<1>2. CASE TickWorld
  <2>1. PICK own \in Emittable : Emits(own) /\ pending' = pending \cup own
    BY <1>2 DEF TickWorld
  <2>2. own = (emitted + 1) .. emitted' /\ emitted' \in Nat /\ emitted' >= emitted
    BY <2>1, EmitsNext DEF IInv
  <2>3. loop'.took = loop.took /\ UNCHANGED <<journal, lost>>
    BY <1>2 DEF TickWorld, IInv, TypeOK
  <2>4. Batches' = Batches
    BY <1>1, <2>3 DEF Batches
  <2>5. Log!Happen
    BY <1>1, <2>1, <2>2, <2>3, <2>4, LogTerms
  <2> QED BY <2>5 DEF Log!Next
<1>3. CASE Connect
  <2>1. loop.took = {} /\ loop'.took = pending /\ pending' = {}
    BY <1>3 DEF Connect, Drain, Asleep, IInv, Events
  <2>2. Batches' = IF pending = {} THEN Batches ELSE Batches \cup {pending}
    BY <1>1, <2>1 DEF Batches
  <2>3. UNCHANGED <<emitted, journal, lost>>
    BY <1>3 DEF Connect
  <2>4. CASE pending = {}
    BY <1>1, <2>1, <2>2, <2>3, <2>4 DEF Log!vars
  <2>5. CASE pending # {}
    <3>1. Log!Collect
      BY <1>1, <2>1, <2>2, <2>3, <2>5, LogTerms
    <3> QED BY <3>1 DEF Log!Next
  <2> QED BY <2>4, <2>5
<1>4. CASE NoConnection
  <2>1. loop.took = {} /\ loop'.took = {} /\ UNCHANGED <<emitted, pending, journal, lost>>
    BY <1>4 DEF NoConnection, Asleep, IInv, Events
  <2>2. Batches' = Batches
    BY <1>1, <2>1 DEF Batches
  <2> QED BY <1>1, <2>1, <2>2 DEF Log!vars
<1>5. CASE Record
  <2>1. /\ loop'.took = {} /\ UNCHANGED <<emitted, pending>>
        /\ \/ journal' = journal \cup loop.took /\ UNCHANGED lost
           \/ lost' = lost \cup loop.took /\ UNCHANGED journal
    BY <1>5 DEF Record, Asleep
  <2>2. \A s \in Request : req[s].took \cap loop.took = {}
    BY DEF IInv, Events
  <2>3. loop.took \cap asked_for = {}
    BY DEF IInv, Audit
  <2>4. CASE loop.took = {}
    <3>1. Batches' = Batches /\ journal' = journal /\ lost' = lost
      BY <1>1, <2>1, <2>4 DEF Batches
    <3> QED BY <1>1, <2>1, <3>1 DEF Log!vars
  <2>5. CASE loop.took # {}
    <3>1. loop.took \in Batches /\ Batches' = Batches \ {loop.took}
      BY <1>1, <2>1, <2>2, <2>5 DEF Batches
    <3>2. Log!Write(loop.took) \/ Log!Lose(loop.took)
      BY <1>1, <2>1, <2>3, <3>1 DEF Log!Write, Log!Lose
    <3> QED BY <3>1, <3>2 DEF Log!Next
  <2> QED BY <2>4, <2>5
<1> QED BY <1>2, <1>3, <1>4, <1>5 DEF Ticker

LEMMA LogPerforms ==
  ASSUME IInv, NEW r \in Request, Perform(r)
  PROVE  [Log!Next]_Log!vars
<1>1. PICK own \in Emittable :
         /\ Emits(own)
         /\ asked_for' = asked_for \cup own
         /\ req' = [req EXCEPT ![r] = At("write", pending \cup own, own, 0)]
  BY DEF Perform
<1>2. own \subseteq Event /\ pending \cup own \subseteq Event
  BY <1>1, EmitsRange DEF IInv
<1>3. LET q == At("write", pending \cup own, own, 0)
      IN  q \in Req /\ q.took = pending \cup own
  BY <1>2, AtType, JournalAssumption
<1> QED BY <1>1, <1>3, LogAsks DEF Perform

LEMMA LogWinds ==
  ASSUME IInv, NEW r \in Request, NEW days \in 0 .. MAX_WIND, Wind(r, days),
         req[r].pc \in {"idle", "queue"},
         UNCHANGED <<journal, audited, lost, loop>>
  PROVE  [Log!Next]_Log!vars
<1>1. PICK own \in Emittable :
         /\ Emits(own)
         /\ asked_for' = asked_for \cup own
         /\ req' = [req EXCEPT ![r] = At("rewrite", pending \cup own, own, days)]
  BY DEF Wind
<1>2. own \subseteq Event /\ pending \cup own \subseteq Event
  BY <1>1, EmitsRange DEF IInv
<1>3. LET q == At("rewrite", pending \cup own, own, days)
      IN  q \in Req /\ q.took = pending \cup own
  BY <1>2, AtType
<1> QED BY <1>1, <1>3, LogAsks DEF Wind

LEMMA LogAdvances ==
  ASSUME IInv, NEW r \in Request, NEW days \in 1 .. MAX_WIND, Advance(r, days)
  PROVE  [Log!Next]_Log!vars
<1>1. req[r].pc = "idle" /\ req[r].took = {} /\ UNCHANGED <<journal, audited, lost, loop>>
  BY DEF Advance, IInv, Events
<1>2. CASE Wind(r, days)
  BY <1>1, <1>2, LogWinds
<1>3. CASE /\ req' = [req EXCEPT ![r].pc = "refuse"]
           /\ UNCHANGED <<emitted, asked_for, pending>>
  <2>1. req'[r].took = req[r].took /\ \A s \in Request \ {r} : req'[s] = req[s]
    BY <1>3 DEF IInv, TypeOK, Req
  <2> QED BY <1>1, <1>3, <2>1, BatchesStay DEF Log!vars
<1>4. CASE /\ req' = [req EXCEPT ![r] = At("queue", {}, {}, days)]
           /\ UNCHANGED <<emitted, asked_for, pending>>
  <2>1. At("queue", {}, {}, days) \in Req /\ At("queue", {}, {}, days).took = {}
    BY AtType
  <2>2. Batches' = Batches
    BY <1>1, <1>4, <2>1, BatchOpens DEF IInv
  <2> QED BY <1>1, <1>4, <2>2 DEF Log!vars
<1> QED BY <1>2, <1>3, <1>4 DEF Advance

LEMMA LogServes ==
  ASSUME IInv, OwnTaken, NEW r \in Request, Serve(r)
  PROVE  [Log!Next]_Log!vars
<1>1. CASE CommitPerform(r)
  BY <1>1, LogEnds DEF CommitPerform
<1>2. CASE CommitAdvance(r)
  BY <1>2, LogEnds DEF CommitAdvance
<1>3. CASE Fail(r)
  BY <1>3, LogEnds DEF Fail
<1>4. CASE Refuse(r)
  <2>1. req[r].took = {}
    BY <1>4 DEF Refuse, IInv, Events
  <2>2. Batches' = Batches
    BY <1>4, <2>1, BatchEnds DEF Refuse
  <2> QED BY <1>4, <2>2 DEF Refuse, Log!vars
<1>5. CASE Acquire(r)
  BY <1>5, LogWinds DEF Acquire, IInv, TypeOK, Req
<1>6. CASE DeleteProjection(r)
  <2>1. req'[r].took = req[r].took /\ \A s \in Request \ {r} : req'[s] = req[s]
    BY <1>6 DEF DeleteProjection, IInv, TypeOK, Req
  <2>2. Batches' = Batches
    BY <1>6, <2>1, BatchesStay DEF DeleteProjection
  <2> QED BY <1>6, <2>2 DEF DeleteProjection, Log!vars
<1> QED BY <1>1, <1>2, <1>3, <1>4, <1>5, <1>6 DEF Serve

(* One sink shared by requests, windings and the ticker keeps the promise  *)
(* of a log of whole batches: each is all that nobody had taken, ends in   *)
(* the journal with its audit or is lost, and nothing returns to the sink. *)
THEOREM JournalImplementsLog == Spec => ImplementsLog
<1>1. Init => Log!Init
  <2>1. ASSUME Init PROVE Batches = {}
    BY <2>1, IdleType DEF Init, Batches, Asleep
  <2> QED BY <2>1 DEF Init, Log!Init
<1>2. ASSUME IInv, OwnTaken, [Next]_vars PROVE [Log!Next]_Log!vars
  <2>1. CASE UNCHANGED vars
    BY <2>1 DEF vars, Log!vars, Batches
  <2>2. CASE Next
    BY <1>2, <2>2, LogPerforms, LogServes, LogAdvances, LogTicks DEF Next
  <2> QED BY <1>2, <2>1, <2>2
<1> QED BY <1>1, <1>2, Inductive, OwnTakenInvariant, PTL DEF Spec, ImplementsLog, Log!Spec
=============================================================================
