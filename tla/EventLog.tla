----------------------------- MODULE EventLog -----------------------------
(***************************************************************************)
(* What one world's journal promises, without requests, a ticker, a lock   *)
(* or a sink (src/backend/app/audit.py, the docstring and comments of      *)
(* perform; worlds/registry.py, EventSink).  Events leave in batches; a    *)
(* batch is all that the world had emitted and nobody had taken, and it is *)
(* written whole, with the audit of what operators asked for in it, or     *)
(* lost whole.  What an operator asked for never waits.                    *)
(***************************************************************************)
EXTENDS Integers

VARIABLES
    emitted,      \* events 1..emitted have been emitted
    asked_for,    \* those an operator asked for
    waiting,      \* emitted and in no batch yet
    batches,      \* the batches under way
    journal, audited, lost

vars == <<emitted, asked_for, waiting, batches, journal, audited, lost>>

Emits == emitted' \in Nat /\ emitted' >= emitted
New == (emitted + 1) .. emitted'

(* Whoever takes from what waits takes all of it.                          *)
Taken(batch) ==
    /\ batch # {}
    /\ batches' = batches \cup {batch}
    /\ waiting' = {}

-----------------------------------------------------------------------------
(* Time goes by in the world.                                              *)
Happen ==
    /\ Emits
    /\ waiting' = waiting \cup New
    /\ UNCHANGED <<asked_for, batches, journal, audited, lost>>

(* An operator does something: what comes of it, and what was waiting.     *)
Ask ==
    /\ Emits
    /\ asked_for' = asked_for \cup New
    /\ Taken(waiting \cup New)
    /\ UNCHANGED <<journal, audited, lost>>

Collect ==
    /\ Taken(waiting)
    /\ UNCHANGED <<emitted, asked_for, journal, audited, lost>>

Write(batch) ==
    /\ journal' = journal \cup batch
    /\ audited' = audited \cup (batch \cap asked_for)
    /\ batches' = batches \ {batch}
    /\ UNCHANGED <<emitted, asked_for, waiting, lost>>

Lose(batch) ==
    /\ lost' = lost \cup batch
    /\ batches' = batches \ {batch}
    /\ UNCHANGED <<emitted, asked_for, waiting, journal, audited>>

-----------------------------------------------------------------------------
Init ==
    /\ emitted = 0 /\ asked_for = {} /\ waiting = {} /\ batches = {}
    /\ journal = {} /\ audited = {} /\ lost = {}

Next ==
    \/ Happen \/ Ask \/ Collect
    \/ \E batch \in batches : Write(batch) \/ Lose(batch)

Spec == Init /\ [][Next]_vars
=============================================================================
