---------------------------- MODULE Permissions ----------------------------
(***************************************************************************)
(* What a role grants: the rows, edited by PUT, POST and DELETE on         *)
(* /api/roles and by a deploy's sync-permissions, and the snapshot of them *)
(* every guarded request is answered from (src/backend/app/deps.py,        *)
(* routers/roles.py).                                                      *)
(*                                                                         *)
(* version counts the commits that changed the rows; what a statement read *)
(* is the version it saw.                                                  *)
(***************************************************************************)
EXTENDS Integers, Sequences, FiniteSets

CONSTANTS
    Request, Role, Perm,
    NoRole,
    PERMISSION_CACHE_TTL,
    MaxTime, MaxVersion       \* bounds on the clock and on the edits

ASSUME PermissionAssumption ==
    /\ NoRole \notin Role
    /\ PERMISSION_CACHE_TTL \in Nat \ {0}
    /\ MaxTime \in Nat /\ MaxVersion \in Nat

VARIABLES
    now,
    status,         \* status[k]: "unborn", "live" or "deleted"; ids are never reused
    grants,         \* role_permissions, as committed
    known,          \* the codes in permissions
    version,
    committed_at,   \* History: when each version was committed
    answered,       \* History: the newest version whose edit has been answered
    cache,          \* _cache: the version it holds and its expires_at
    generation,     \* _generation
    req

vars == <<now, status, grants, known, version, committed_at, answered, cache, generation, req>>
rows == <<status, grants, known, version, committed_at>>
snapshot == <<cache, generation>>

NoCache == [held |-> FALSE, version |-> 0, expires_at |-> 0]

Req == [pc: {"idle", "read", "install", "edit", "commit", "invalidate"},
        at: Nat, generation: Nat,
        got: Nat,                  \* the version it read, or was answered from
        role: Role \cup {NoRole},
        op: {"none", "create", "replace", "rename", "delete"},
        wanted: SUBSET Perm,
        doomed: SUBSET Perm,       \* the rows its DELETE saw, as far as they stand
        floor: Nat, recent: Nat]   \* History: what its answer has to reflect

Idle == [pc |-> "idle", at |-> 0, generation |-> 0, got |-> 0, role |-> NoRole,
         op |-> "none", wanted |-> {}, doomed |-> {}, floor |-> 0, recent |-> 0]

TypeOK ==
    /\ now \in Nat /\ version \in Nat /\ answered \in Nat /\ generation \in Nat
    /\ status \in [Role -> {"unborn", "live", "deleted"}]
    /\ grants \in [Role -> SUBSET Perm]
    /\ known \in SUBSET Perm
    /\ \A k \in Role : grants[k] \subseteq IF status[k] = "live" THEN known ELSE {}
    /\ committed_at \in Seq(Nat) /\ Len(committed_at) = version
    /\ cache \in [held: BOOLEAN, version: Nat, expires_at: Nat]
    /\ req \in [Request -> Req]

-----------------------------------------------------------------------------
(* load_role_permissions *)

(* The versions committed a whole TTL ago.                                 *)
Settled == Cardinality({v \in 1 .. version : committed_at[v] + PERMISSION_CACHE_TTL <= now})

Asking == [Idle EXCEPT !.at = now, !.floor = answered, !.recent = Settled]

(* Answered from the version got; what it had to reflect is kept.          *)
Answer(asked, got) == [Idle EXCEPT !.got = got, !.floor = asked.floor, !.recent = asked.recent]

Hit == cache.held /\ now < cache.expires_at

(* Answered from the snapshot, or on the way to the table: with no         *)
(* snapshot, or one older than the role that is asked about.               *)
Load(r) ==
    /\ req[r].pc = "idle"
    /\ \/ /\ Hit
          /\ req' = [req EXCEPT ![r] = Answer(Asking, cache.version)]
       \/ /\ Hit => cache.version < version
          /\ req' = [req EXCEPT ![r] =
                        [Asking EXCEPT !.pc = "read", !.generation = generation]]
    /\ UNCHANGED <<now, rows, answered, snapshot>>

(* _read_role_permissions: one statement, every role.                      *)
Read(r) ==
    /\ req[r].pc = "read"
    /\ req' = [req EXCEPT ![r].pc = "install", ![r].got = version]
    /\ UNCHANGED <<now, rows, answered, snapshot>>

(* Fault: whatever was read is installed.                                  *)
InstallAlways(r) ==
    /\ req[r].pc = "install"
    /\ cache' = [held |-> TRUE, version |-> req[r].got,
                 expires_at |-> req[r].at + PERMISSION_CACHE_TTL]
    /\ req' = [req EXCEPT ![r] = Answer(@, @.got)]
    /\ UNCHANGED <<now, rows, answered, generation>>

(* Fault: the snapshot's life starts when the statement is answered.       *)
InstallLate(r) ==
    /\ req[r].pc = "install"
    /\ cache' = IF req[r].generation = generation
                THEN [held |-> TRUE, version |-> req[r].got,
                      expires_at |-> now + PERMISSION_CACHE_TTL]
                ELSE cache
    /\ req' = [req EXCEPT ![r] = Answer(@, @.got)]
    /\ UNCHANGED <<now, rows, answered, generation>>

(* The rows answer this request; they are kept for others only when nobody *)
(* invalidated meanwhile.                                                  *)
Install(r) ==
    /\ req[r].pc = "install"
    /\ cache' = IF req[r].generation = generation
                THEN [held |-> TRUE, version |-> req[r].got,
                      expires_at |-> req[r].at + PERMISSION_CACHE_TTL]
                ELSE cache
    /\ req' = [req EXCEPT ![r] = Answer(@, @.got)]
    /\ UNCHANGED <<now, rows, answered, generation>>

-----------------------------------------------------------------------------
(* POST, PUT and DELETE on /api/roles *)

(* _load and _refuse_if_system.  A new name is an UPDATE of the role's     *)
(* row, an unchanged one is no statement at all.                           *)
Edit(r, k, op, wanted) ==
    /\ req[r].pc = "idle" /\ version < MaxVersion
    /\ status[k] = IF op = "create" THEN "unborn" ELSE "live"
    /\ op = "delete" => wanted = {}
    /\ req' = [req EXCEPT ![r] = [Idle EXCEPT !.pc = "edit", !.role = k, !.op = op,
                                              !.wanted = wanted]]
    /\ UNCHANGED <<now, rows, answered, snapshot>>

(* Another transaction has written the role's own row.                     *)
RowLocked(r) ==
    \E s \in Request \ {r} : /\ req[s].pc = "commit" /\ req[s].role = req[r].role
                             /\ req[s].op # "replace"

(* The UPDATE or DELETE of the row, which waits for its lock, and the      *)
(* DELETE of the grants on the snapshot of its own moment.                 *)
DeleteGrants(r) ==
    /\ req[r].pc = "edit"
    /\ req[r].op # "replace" => ~RowLocked(r)
    /\ req' = [req EXCEPT ![r].pc = "commit", ![r].doomed = grants[req[r].role]]
    /\ UNCHANGED <<now, rows, answered, snapshot>>

(* Rows once deleted are not the ones a later INSERT puts in their place.  *)
Gone(k, perms) ==
    [s \in Request |-> IF req[s].role = k THEN [req[s] EXCEPT !.doomed = @ \ perms] ELSE req[s]]

(* Committed while this one was waiting.                                   *)
Left(r) == grants[req[r].role] \ req[r].doomed

(* Fault: grants of a role that is gone are accepted.                      *)
PermittedBlind(r) == Left(r) \cap req[r].wanted = {}

(* The foreign keys of a grant, and its primary key.                       *)
Permitted(r) ==
    /\ status[req[r].role] = IF req[r].op = "create" THEN "unborn" ELSE "live"
    /\ req[r].wanted \subseteq known
    /\ Left(r) \cap req[r].wanted = {}

Written(r) ==
    /\ Permitted(r)
    /\ version' = version + 1
    /\ committed_at' = Append(committed_at, now)
    /\ status' = [status EXCEPT ![req[r].role] =
                     CASE req[r].op = "create" -> "live"
                       [] req[r].op = "delete" -> "deleted"
                       [] OTHER -> @]
    /\ grants' = [grants EXCEPT ![req[r].role] =
                     IF req[r].op = "delete" THEN {} ELSE Left(r) \cup req[r].wanted]
    /\ UNCHANGED known

Commit(r) ==
    /\ req[r].pc = "commit"
    /\ Written(r)
    /\ req' = [Gone(req[r].role, req[r].doomed) EXCEPT ![r].pc = "invalidate", ![r].got = version']
    /\ UNCHANGED <<now, answered, snapshot>>

(* A statement raises, or the commit does, having committed or not: a 500  *)
(* and no invalidation.                                                    *)
Fail(r) ==
    /\ req[r].pc \in {"edit", "commit"}
    /\ \/ /\ req[r].pc = "commit" /\ Written(r)
          /\ req' = [Gone(req[r].role, req[r].doomed) EXCEPT ![r] = Idle]
       \/ /\ UNCHANGED rows
          /\ req' = [req EXCEPT ![r] = Idle]
    /\ UNCHANGED <<now, answered, snapshot>>

(* invalidate_permission_cache, and the answer.                            *)
Invalidate(r) ==
    /\ req[r].pc = "invalidate"
    /\ cache' = NoCache
    /\ generation' = generation + 1
    /\ answered' = IF req[r].got > answered THEN req[r].got ELSE answered
    /\ req' = [req EXCEPT ![r] = Idle]
    /\ UNCHANGED <<now, rows>>

(* sync-permissions, in a process of its own, can tell nobody.  It rewrites *)
(* what the system roles grant, which no edit touches; a code the new      *)
(* catalogue drops is taken from every role by the foreign key's cascade.  *)
Deploy ==
    /\ version < MaxVersion
    /\ version' = version + 1
    /\ committed_at' = Append(committed_at, now)
    /\ \E catalogue \in SUBSET Perm :
          /\ known' = catalogue
          /\ grants' = [k \in Role |-> grants[k] \cap catalogue]
          /\ req' = [s \in Request |-> [req[s] EXCEPT !.doomed = @ \cap catalogue]]
    /\ UNCHANGED <<now, status, answered, snapshot>>

Tick ==
    /\ now < MaxTime
    /\ now' = now + 1
    /\ UNCHANGED <<rows, answered, snapshot, req>>

-----------------------------------------------------------------------------
Init ==
    /\ now = 0 /\ version = 0 /\ committed_at = <<>> /\ answered = 0
    /\ status \in [Role -> {"unborn", "live"}]
    /\ known = Perm
    /\ grants \in [Role -> SUBSET Perm]
    /\ \A k \in Role : status[k] # "live" => grants[k] = {}
    /\ cache = NoCache /\ generation = 0
    /\ req = [r \in Request |-> Idle]

Next ==
    \/ \E r \in Request :
          \/ Load(r) \/ Read(r) \/ Install(r)
          \/ DeleteGrants(r) \/ Commit(r) \/ Fail(r) \/ Invalidate(r)
    \/ \E r \in Request, k \in Role, op \in {"create", "replace", "rename", "delete"},
          wanted \in SUBSET Perm : Edit(r, k, op, wanted)
    \/ Deploy
    \/ Tick

Spec == Init /\ [][Next]_vars

-----------------------------------------------------------------------------
(* Properties *)

(* Once an edit has been answered, every request that asks afterwards is   *)
(* answered from rows that include it, whatever reads of the table were in *)
(* flight when it was made.                                                *)
AnsweredEditsHold ==
    \A r \in Request : req[r].pc = "idle" => req[r].got >= req[r].floor

(* Whoever changed the rows and whether or not anybody told this process:  *)
(* after the snapshot's life a change is in force.                         *)
StaleAtMostTTL ==
    \A r \in Request : req[r].pc = "idle" => req[r].got >= req[r].recent

=============================================================================
