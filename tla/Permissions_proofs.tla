------------------------- MODULE Permissions_proofs -------------------------
(***************************************************************************)
(* Theorems about Permissions, for every number of requests, roles and     *)
(* codes, every TTL, and without regard to the bounds on clock and edits.  *)
(*                                                                         *)
(* Neither property is inductive: what a request is answered from is       *)
(* decided when the table is read, by whom and how long ago.  Kept says    *)
(* what the snapshot owes to answered edits and to the clock, Owed what a  *)
(* request does, in particular a read that may still become the snapshot.  *)
(***************************************************************************)
EXTENDS Permissions, FiniteSetTheorems, TLAPS

(* The snapshot includes every answered edit, and what it misses was       *)
(* committed less than a TTL before it expires.                            *)
Includes ==
    /\ cache.version >= answered
    /\ cache.expires_at <= now + PERMISSION_CACHE_TTL
    /\ \A v \in 1 .. version :
          v > cache.version => committed_at[v] + PERMISSION_CACHE_TTL >= cache.expires_at

Kept ==
    /\ answered <= version /\ cache.version <= version
    /\ \A v \in 1 .. version : committed_at[v] \in Nat
    /\ cache.held => Includes

(* An edit has a role.  A read that would be installed includes every      *)
(* answered edit, and what it missed was committed after it was asked for. *)
Owed(q) ==
    /\ q.pc \in {"edit", "commit"} => q.role \in Role
    /\ q.generation <= generation /\ q.got <= version /\ q.floor <= answered
    /\ q.at <= now /\ q.recent <= version
    /\ q.pc \in {"idle", "install"} => q.got >= q.floor /\ q.got >= q.recent
    /\ q.pc = "install" => \A v \in 1 .. version : v > q.got => committed_at[v] >= q.at
    /\ q.pc = "install" /\ q.generation = generation => q.got >= answered

IInv == TypeOK /\ Kept /\ \A r \in Request : Owed(req[r])

-----------------------------------------------------------------------------
(* What is settled *)

LEMMA SettledBounded ==
  ASSUME version \in Nat, NEW n \in 0 .. version,
         \A v \in 1 .. version : v > n => ~(committed_at[v] + PERMISSION_CACHE_TTL <= now)
  PROVE  Settled \in Nat /\ Settled <= n
<1> DEFINE S == {v \in 1 .. version : committed_at[v] + PERMISSION_CACHE_TTL <= now}
<1>1. S \subseteq 1 .. n
  OBVIOUS
<1>2. IsFiniteSet(1 .. n) /\ Cardinality(1 .. n) = n
  <2>1. IsFiniteSet(1 .. n) /\ Cardinality(1 .. n) = IF 1 > n THEN 0 ELSE n - 1 + 1
    BY FS_Interval
  <2> QED BY <2>1
<1>3. IsFiniteSet(S) /\ Cardinality(S) <= n /\ Cardinality(S) \in Nat
  BY <1>1, <1>2, FS_Subset, FS_CardinalityType
<1> QED BY <1>3 DEF Settled

LEMMA SettledType == TypeOK => Settled \in Nat /\ Settled <= version
<1> SUFFICES ASSUME TypeOK PROVE Settled \in Nat /\ Settled <= version
  OBVIOUS
<1>1. version \in Nat /\ version \in 0 .. version
  BY DEF TypeOK
<1>2. \A v \in 1 .. version : ~(v > version)
  BY <1>1
<1> QED BY <1>1, <1>2, SettledBounded

-----------------------------------------------------------------------------
(* The records of a request *)

LEMMA IdleType ==
  /\ Idle \in Req /\ Idle.pc = "idle" /\ Idle.at = 0 /\ Idle.generation = 0
  /\ Idle.got = 0 /\ Idle.floor = 0 /\ Idle.recent = 0
BY DEF Idle, Req

LEMMA AskingType ==
  ASSUME TypeOK
  PROVE  /\ Asking \in Req /\ Asking.pc = "idle" /\ Asking.at = now
         /\ Asking.generation = 0 /\ Asking.got = 0
         /\ Asking.floor = answered /\ Asking.recent = Settled
<1>1. now \in Nat /\ answered \in Nat /\ Settled \in Nat
  BY SettledType DEF TypeOK
<1> QED BY <1>1, IdleType DEF Asking, Req

LEMMA AnswerType ==
  ASSUME NEW asked \in Req, NEW got \in Nat
  PROVE  /\ Answer(asked, got) \in Req /\ Answer(asked, got).pc = "idle"
         /\ Answer(asked, got).at = 0 /\ Answer(asked, got).generation = 0
         /\ Answer(asked, got).got = got /\ Answer(asked, got).floor = asked.floor
         /\ Answer(asked, got).recent = asked.recent
BY IdleType DEF Answer, Req

(* One request changes, the others stay.                                   *)
LEMMA OneRequest ==
  ASSUME TypeOK, NEW r \in Request, NEW q \in Req, req' = [req EXCEPT ![r] = q]
  PROVE  /\ req' \in [Request -> Req]
         /\ req'[r] = q
         /\ \A s \in Request \ {r} : req'[s] = req[s]
BY DEF TypeOK

-----------------------------------------------------------------------------
(* Each action preserves the invariant *)

(* A request that only moves on.                                           *)
LEMMA MoveStep ==
  ASSUME IInv, NEW r \in Request, NEW q \in Req, req' = [req EXCEPT ![r] = q],
         UNCHANGED <<now, status, grants, known, version, committed_at, answered, cache,
                     generation>>,
         Owed(q)
  PROVE  IInv'
<1>1. /\ req' \in [Request -> Req] /\ req'[r] = q
      /\ \A s \in Request \ {r} : req'[s] = req[s]
  BY OneRequest DEF IInv
<1>2. TypeOK'
  BY <1>1 DEF IInv, TypeOK
<1>3. Kept'
  <2>1. Includes => Includes'
    BY DEF Includes
  <2> QED BY <2>1 DEF IInv, Kept
<1>4. ASSUME NEW s \in Request PROVE Owed(req[s])'
  <2>1. Owed(req[s])
    BY DEF IInv
  <2>2. CASE s = r
    BY <1>1, <2>2 DEF Owed
  <2>3. CASE s # r
    BY <1>1, <2>1, <2>3 DEF Owed
  <2> QED BY <2>2, <2>3
<1> QED BY <1>2, <1>3, <1>4 DEF IInv

(* A commit raises the version; what the request owes is as it was.        *)
LEMMA OwedLater ==
  ASSUME TypeOK, NEW q \in Req, Owed(q), version' = version + 1,
         committed_at' = Append(committed_at, now),
         UNCHANGED <<now, answered, generation>>
  PROVE  Owed(q)'
<1>1. /\ version \in Nat /\ now \in Nat /\ q.got \in Nat /\ q.at \in Nat /\ q.recent \in Nat
  BY DEF TypeOK, Req
<1>2. /\ \A v \in 1 .. version : committed_at'[v] = committed_at[v]
      /\ committed_at'[version + 1] = now
  BY DEF TypeOK
<1>3. \A v \in 1 .. version' : v \in 1 .. version \/ v = version + 1
  BY <1>1
<1>4. ASSUME q.pc = "install", NEW v \in 1 .. version', v > q.got
      PROVE  committed_at'[v] >= q.at
  BY <1>1, <1>2, <1>3, <1>4 DEF Owed
<1>5. q.got <= version' /\ q.recent <= version'
  BY <1>1 DEF Owed
<1> QED BY <1>4, <1>5 DEF Owed

(* The same of the snapshot.                                               *)
LEMMA KeptLater ==
  ASSUME IInv, version' = version + 1, committed_at' = Append(committed_at, now),
         UNCHANGED <<now, answered, cache>>
  PROVE  Kept'
<1>1. /\ version \in Nat /\ now \in Nat /\ answered \in Nat
      /\ cache \in [held: BOOLEAN, version: Nat, expires_at: Nat]
  BY DEF IInv, TypeOK
<1>2. /\ \A v \in 1 .. version : committed_at'[v] = committed_at[v]
      /\ committed_at'[version + 1] = now
  BY DEF IInv, TypeOK
<1>3. \A v \in 1 .. version' : v \in 1 .. version \/ v = version + 1
  BY <1>1
<1>4. PERMISSION_CACHE_TTL \in Nat
  BY PermissionAssumption
<1>5. answered' <= version' /\ cache'.version <= version'
  BY <1>1 DEF IInv, Kept
<1>6. \A v \in 1 .. version' : committed_at'[v] \in Nat
  BY <1>1, <1>2, <1>3 DEF IInv, Kept
<1>7. ASSUME Includes PROVE Includes'
  <2>1. ASSUME NEW v \in 1 .. version', v > cache'.version
        PROVE  committed_at'[v] + PERMISSION_CACHE_TTL >= cache'.expires_at
    BY <1>1, <1>2, <1>3, <1>4, <1>7, <2>1 DEF Includes
  <2> QED BY <1>7, <2>1 DEF Includes
<1> QED BY <1>5, <1>6, <1>7 DEF IInv, Kept

LEMMA LoadStep ==
  ASSUME IInv, NEW r \in Request, Load(r)
  PROVE  IInv'
<1>1. /\ now \in Nat /\ version \in Nat /\ answered \in Nat /\ generation \in Nat
      /\ cache \in [held: BOOLEAN, version: Nat, expires_at: Nat]
      /\ UNCHANGED <<now, status, grants, known, version, committed_at, answered, cache,
                     generation>>
      /\ Settled \in Nat /\ Settled <= version
      /\ answered <= version
  BY SettledType DEF Load, IInv, TypeOK, Kept, rows, snapshot
<1>2. CASE Hit /\ req' = [req EXCEPT ![r] = Answer(Asking, cache.version)]
  <2> DEFINE q == Answer(Asking, cache.version)
  <2>1. /\ q \in Req /\ q.pc = "idle" /\ q.at = 0 /\ q.generation = 0
        /\ q.got = cache.version /\ q.floor = answered /\ q.recent = Settled
    <3>1. cache.version \in Nat /\ Asking \in Req /\ TypeOK
      BY <1>1, AskingType DEF IInv
    <3>2. Asking.floor = answered /\ Asking.recent = Settled
      BY <3>1, AskingType
    <3> QED BY <3>1, <3>2, AnswerType
  <2> HIDE DEF q
  <2>2. Includes
    BY <1>2 DEF Hit, IInv, Kept
  <2>3. cache.version <= version
    BY DEF IInv, Kept
  <2>4. Settled <= cache.version
    <3>1. \A v \in 1 .. version :
             v > cache.version => ~(committed_at[v] + PERMISSION_CACHE_TTL <= now)
      <4>1. now < cache.expires_at
        BY <1>2 DEF Hit
      <4>2. \A v \in 1 .. version : committed_at[v] \in Nat
        BY DEF IInv, Kept
      <4> QED BY <1>1, <2>2, <4>1, <4>2, PermissionAssumption DEF Includes
    <3> QED BY <1>1, <2>3, <3>1, SettledBounded
  <2>5. req' = [req EXCEPT ![r] = q]
    BY <1>2 DEF q
  <2>6. Owed(q)
    BY <1>1, <2>1, <2>2, <2>3, <2>4 DEF Owed, Includes
  <2> QED BY <1>1, <2>1, <2>5, <2>6, MoveStep
<1>3. CASE req' = [req EXCEPT ![r] = [Asking EXCEPT !.pc = "read", !.generation = generation]]
  <2> DEFINE q == [Asking EXCEPT !.pc = "read", !.generation = generation]
  <2>1. /\ q \in Req /\ q.pc = "read" /\ q.at = now /\ q.generation = generation
        /\ q.got = 0 /\ q.floor = answered /\ q.recent = Settled
    BY <1>1, AskingType DEF IInv, Req
  <2> HIDE DEF q
  <2>2. req' = [req EXCEPT ![r] = q]
    BY <1>3 DEF q
  <2>3. Owed(q)
    BY <1>1, <2>1 DEF Owed
  <2> QED BY <1>1, <2>1, <2>2, <2>3, MoveStep
<1> QED BY <1>2, <1>3 DEF Load

LEMMA ReadStep ==
  ASSUME IInv, NEW r \in Request, Read(r)
  PROVE  IInv'
<1> DEFINE q == [req[r] EXCEPT !.pc = "install", !.got = version]
<1>1. /\ req[r] \in Req /\ version \in Nat
      /\ req' = [req EXCEPT ![r] = q]
      /\ UNCHANGED <<now, status, grants, known, version, committed_at, answered, cache,
                     generation>>
  BY DEF Read, IInv, TypeOK, rows, snapshot
<1>2. /\ q \in Req /\ q.pc = "install" /\ q.got = version /\ q.at = req[r].at
      /\ q.generation = req[r].generation /\ q.floor = req[r].floor
      /\ q.recent = req[r].recent
  BY <1>1 DEF Req
<1> HIDE DEF q
<1>3. answered <= version /\ Owed(req[r])
  BY DEF IInv, Kept
<1>4. answered \in Nat /\ req[r].floor \in Nat /\ req[r].recent \in Nat
  BY <1>1 DEF IInv, TypeOK, Req
<1>5. Owed(q)
  BY <1>1, <1>2, <1>3, <1>4 DEF Owed
<1> QED BY <1>1, <1>2, <1>5, MoveStep

LEMMA InstallStep ==
  ASSUME IInv, NEW r \in Request, Install(r)
  PROVE  IInv'
<1> DEFINE q == Answer(req[r], req[r].got)
<1>1. /\ req[r] \in Req /\ req[r].pc = "install" /\ Owed(req[r]) /\ req[r].got \in Nat
      /\ req[r].at \in Nat /\ generation \in Nat /\ now \in Nat
      /\ PERMISSION_CACHE_TTL \in Nat
      /\ req' = [req EXCEPT ![r] = q]
      /\ UNCHANGED <<now, status, grants, known, version, committed_at, answered, generation>>
  BY PermissionAssumption DEF Install, IInv, TypeOK, Req, rows
<1>2. /\ q \in Req /\ q.pc = "idle" /\ q.got = req[r].got /\ q.at = 0 /\ q.generation = 0
      /\ q.floor = req[r].floor /\ q.recent = req[r].recent
  BY <1>1, AnswerType
<1> HIDE DEF q
<1>3. /\ req' \in [Request -> Req] /\ req'[r] = q
      /\ \A s \in Request \ {r} : req'[s] = req[s]
  BY <1>1, <1>2, OneRequest DEF IInv
<1>4. cache' \in [held: BOOLEAN, version: Nat, expires_at: Nat] /\ Kept'
  <2>1. CASE req[r].generation = generation
    <3>1. cache' = [held |-> TRUE, version |-> req[r].got,
                    expires_at |-> req[r].at + PERMISSION_CACHE_TTL]
      BY <2>1 DEF Install
    <3>2. cache' \in [held: BOOLEAN, version: Nat, expires_at: Nat]
      BY <1>1, <3>1
    <3>3. req[r].got >= answered /\ req[r].got <= version /\ req[r].at <= now
      BY <1>1, <2>1 DEF Owed
    <3>4. ASSUME NEW v \in 1 .. version, v > req[r].got
          PROVE  committed_at[v] + PERMISSION_CACHE_TTL >= req[r].at + PERMISSION_CACHE_TTL
      <4>1. committed_at[v] \in Nat
        BY DEF IInv, Kept
      <4>2. committed_at[v] >= req[r].at
        BY <1>1, <3>4 DEF Owed
      <4> QED BY <1>1, <4>1, <4>2
    <3>5. Kept'
      <4>1. /\ cache'.held /\ cache'.version = req[r].got
            /\ cache'.expires_at = req[r].at + PERMISSION_CACHE_TTL
        BY <3>1
      <4>2. answered \in Nat /\ version \in Nat
        BY DEF IInv, TypeOK
      <4>3. Includes'
        BY <1>1, <3>3, <3>4, <4>1, <4>2 DEF Includes
      <4>4. answered' <= version' /\ cache'.version <= version'
        BY <1>1, <3>3, <4>1 DEF IInv, Kept
      <4>5. \A v \in 1 .. version' : committed_at'[v] \in Nat
        BY <1>1 DEF IInv, Kept
      <4> QED BY <4>3, <4>4, <4>5 DEF Kept
    <3> QED BY <3>2, <3>5
  <2>2. CASE req[r].generation # generation
    <3>1. UNCHANGED cache
      BY <2>2 DEF Install
    <3>2. Includes => Includes'
      BY <1>1, <3>1 DEF Includes
    <3>3. Kept'
      BY <1>1, <3>1, <3>2 DEF IInv, Kept
    <3> QED BY <3>1, <3>3 DEF IInv, TypeOK
  <2> QED BY <2>1, <2>2
<1>5. TypeOK'
  BY <1>1, <1>3, <1>4 DEF IInv, TypeOK
<1>6. ASSUME NEW s \in Request PROVE Owed(req[s])'
  <2>1. CASE s = r
    BY <1>1, <1>2, <1>3, <2>1 DEF Owed
  <2>2. CASE s # r
    <3>1. Owed(req[s])
      BY DEF IInv
    <3> QED BY <1>1, <1>3, <2>2, <3>1 DEF Owed
  <2> QED BY <2>1, <2>2
<1> QED BY <1>4, <1>5, <1>6 DEF IInv

LEMMA EditStep ==
  ASSUME IInv, NEW r \in Request, NEW k \in Role, NEW wanted \in SUBSET Perm,
         NEW op \in {"create", "replace", "rename", "delete"}, Edit(r, k, op, wanted)
  PROVE  IInv'
<1> DEFINE q == [Idle EXCEPT !.pc = "edit", !.role = k, !.op = op, !.wanted = wanted]
<1>1. /\ req' = [req EXCEPT ![r] = q]
      /\ UNCHANGED <<now, status, grants, known, version, committed_at, answered, cache,
                     generation>>
  BY DEF Edit, rows, snapshot
<1>2. /\ q \in Req /\ q.pc = "edit" /\ q.role = k /\ q.at = 0 /\ q.generation = 0
      /\ q.got = 0 /\ q.floor = 0 /\ q.recent = 0
  BY IdleType DEF Req
<1> HIDE DEF q
<1>3. Owed(q)
  <2>1. /\ now \in Nat /\ version \in Nat /\ answered \in Nat /\ generation \in Nat
    BY DEF IInv, TypeOK
  <2> QED BY <1>2, <2>1 DEF Owed
<1> QED BY <1>1, <1>2, <1>3, MoveStep

LEMMA DeleteGrantsStep ==
  ASSUME IInv, NEW r \in Request, DeleteGrants(r)
  PROVE  IInv'
<1> DEFINE q == [req[r] EXCEPT !.pc = "commit", !.doomed = grants[req[r].role]]
<1>1. /\ req' = [req EXCEPT ![r] = q] /\ req[r] \in Req /\ req[r].pc = "edit"
      /\ Owed(req[r])
      /\ UNCHANGED <<now, status, grants, known, version, committed_at, answered, cache,
                     generation>>
  BY DEF DeleteGrants, IInv, TypeOK, rows, snapshot
<1>2. req[r].role \in Role /\ grants[req[r].role] \in SUBSET Perm
  BY <1>1 DEF IInv, TypeOK, Owed
<1>3. /\ q \in Req /\ q.pc = "commit" /\ q.role = req[r].role /\ q.at = req[r].at
      /\ q.generation = req[r].generation /\ q.got = req[r].got
      /\ q.floor = req[r].floor /\ q.recent = req[r].recent
  BY <1>1, <1>2 DEF Req
<1> HIDE DEF q
<1>4. Owed(q)
  BY <1>1, <1>3 DEF Owed
<1> QED BY <1>1, <1>3, <1>4, MoveStep

(* What an edit or a cascade takes from the doomed rows of another changes *)
(* nothing the invariant asks of it.                                       *)
LEMMA DoomedOnly ==
  ASSUME NEW q \in Req, NEW perms \in SUBSET Perm, Owed(q)
  PROVE  LET p == [q EXCEPT !.doomed = perms]
         IN  p \in Req /\ Owed(p)
BY DEF Req, Owed

LEMMA GoneType ==
  ASSUME TypeOK, NEW k, NEW perms
  PROVE  /\ Gone(k, perms) \in [Request -> Req]
         /\ (\A s \in Request : Owed(req[s])) => \A s \in Request : Owed(Gone(k, perms)[s])
<1>1. ASSUME NEW s \in Request
      PROVE  /\ Gone(k, perms)[s] \in Req
             /\ Owed(req[s]) => Owed(Gone(k, perms)[s])
  <2>1. req[s] \in Req /\ req[s].doomed \ perms \in SUBSET Perm
    BY DEF TypeOK, Req
  <2> DEFINE p == [req[s] EXCEPT !.doomed = req[s].doomed \ perms]
  <2>2. p \in Req
    BY <2>1 DEF Req
  <2>3. Owed(req[s]) => Owed(p)
    BY <2>1, DoomedOnly
  <2>4. Gone(k, perms)[s] = p \/ Gone(k, perms)[s] = req[s]
    BY DEF Gone
  <2> HIDE DEF p
  <2> QED BY <2>1, <2>2, <2>3, <2>4
<1>2. Gone(k, perms) \in [Request -> Req]
  <2>1. /\ DOMAIN Gone(k, perms) = Request
        /\ Gone(k, perms) = [s \in Request |-> Gone(k, perms)[s]]
    BY DEF Gone
  <2> QED BY <1>1, <2>1
<1> QED BY <1>1, <1>2

LEMMA WrittenStep ==
  ASSUME IInv, NEW r \in Request, req[r].pc = "commit", Written(r)
  PROVE  /\ version' = version + 1 /\ version' \in Nat
         /\ committed_at' = Append(committed_at, now)
         /\ committed_at' \in Seq(Nat) /\ Len(committed_at') = version'
         /\ status' \in [Role -> {"unborn", "live", "deleted"}]
         /\ grants' \in [Role -> SUBSET Perm]
         /\ known' \in SUBSET Perm
         /\ \A k \in Role : grants'[k] \subseteq IF status'[k] = "live" THEN known' ELSE {}
<1> DEFINE k == req[r].role
<1>1. /\ k \in Role /\ req[r].wanted \in SUBSET Perm
      /\ req[r].wanted \subseteq known /\ Left(r) \subseteq grants[k]
      /\ known' = known /\ known \in SUBSET Perm
      /\ status \in [Role -> {"unborn", "live", "deleted"}]
      /\ grants \in [Role -> SUBSET Perm]
      /\ \A j \in Role : grants[j] \subseteq IF status[j] = "live" THEN known ELSE {}
  BY DEF IInv, TypeOK, Owed, Req, Written, Permitted, Left
<1>2. /\ version' = version + 1 /\ version' \in Nat
      /\ committed_at' = Append(committed_at, now)
      /\ committed_at' \in Seq(Nat) /\ Len(committed_at') = version'
  BY DEF IInv, TypeOK, Written
<1>3. CASE req[r].op = "delete"
  <2>1. /\ status' = [status EXCEPT ![k] = "deleted"] /\ grants' = [grants EXCEPT ![k] = {}]
    BY <1>3 DEF Written
  <2> QED BY <1>1, <1>2, <2>1
<1>4. CASE req[r].op # "delete"
  <2>1. /\ status' = [status EXCEPT ![k] = "live"]
        /\ grants' = [grants EXCEPT ![k] = Left(r) \cup req[r].wanted]
    <3>1. CASE req[r].op = "create"
      BY <3>1 DEF Written
    <3>2. CASE req[r].op # "create"
      <4>1. status[k] = "live"
        BY <3>2 DEF Written, Permitted
      <4>2. status' = [status EXCEPT ![k] = status[k]]
        BY <1>4, <3>2 DEF Written
      <4> QED BY <1>4, <4>1, <4>2 DEF Written
    <3> QED BY <3>1, <3>2
  <2>2. Left(r) \subseteq known
    BY <1>1
  <2> QED BY <1>1, <1>2, <2>1, <2>2
<1> QED BY <1>3, <1>4

(* After a commit, or a cascade, by whatever request.                      *)
LEMMA VersionStep ==
  ASSUME IInv,
         version' = version + 1, version' \in Nat,
         committed_at' = Append(committed_at, now),
         committed_at' \in Seq(Nat), Len(committed_at') = version',
         status' \in [Role -> {"unborn", "live", "deleted"}],
         grants' \in [Role -> SUBSET Perm], known' \in SUBSET Perm,
         \A k \in Role : grants'[k] \subseteq IF status'[k] = "live" THEN known' ELSE {},
         UNCHANGED <<now, answered, cache, generation>>,
         NEW after \in [Request -> Req], \A s \in Request : Owed(after[s]),
         req' \in [Request -> Req],
         NEW r, \A s \in Request \ {r} : req'[s] = after[s],
         r \in Request => Owed(req[r])'
  PROVE  IInv'
<1>1. TypeOK'
  BY DEF IInv, TypeOK
<1>2. Kept'
  BY KeptLater
<1>3. ASSUME NEW s \in Request PROVE Owed(req[s])'
  <2>1. CASE s = r
    BY <2>1
  <2>2. CASE s # r
    <3>1. after[s] \in Req /\ Owed(after[s]) /\ TypeOK
      BY DEF IInv
    <3>2. Owed(after[s])'
      BY <3>1, OwedLater
    <3> QED BY <2>2, <3>2
  <2> QED BY <2>1, <2>2
<1> QED BY <1>1, <1>2, <1>3 DEF IInv

LEMMA CommitStep ==
  ASSUME IInv, NEW r \in Request, Commit(r)
  PROVE  IInv'
<1> DEFINE after == Gone(req[r].role, req[r].doomed)
           q == [after[r] EXCEPT !.pc = "invalidate", !.got = version']
<1>1. /\ req[r].pc = "commit" /\ Written(r)
      /\ req' = [after EXCEPT ![r] = q]
      /\ UNCHANGED <<now, answered, cache, generation>>
  BY DEF Commit, snapshot
<1>2. /\ version' = version + 1 /\ version' \in Nat
      /\ committed_at' = Append(committed_at, now)
      /\ committed_at' \in Seq(Nat) /\ Len(committed_at') = version'
      /\ status' \in [Role -> {"unborn", "live", "deleted"}]
      /\ grants' \in [Role -> SUBSET Perm]
      /\ known' \in SUBSET Perm
      /\ \A k \in Role : grants'[k] \subseteq IF status'[k] = "live" THEN known' ELSE {}
  BY <1>1, WrittenStep
<1>3. after \in [Request -> Req] /\ \A s \in Request : Owed(after[s])
  BY GoneType DEF IInv
<1> HIDE DEF after
<1>4. after[r] \in Req /\ Owed(after[r])
  BY <1>3
<1>5. /\ q \in Req /\ q.pc = "invalidate" /\ q.got = version' /\ q.at = after[r].at
      /\ q.generation = after[r].generation /\ q.floor = after[r].floor
      /\ q.recent = after[r].recent
  BY <1>2, <1>4 DEF Req
<1>6. /\ req' \in [Request -> Req] /\ req'[r] = q
      /\ \A s \in Request \ {r} : req'[s] = after[s]
  <2> HIDE DEF q
  <2> QED BY <1>1, <1>3, <1>5
<1> HIDE DEF q
<1>7. Owed(req[r])'
  <2>1. version \in Nat /\ after[r].recent \in Nat
    BY <1>4 DEF IInv, TypeOK, Req
  <2>2. /\ after[r].generation <= generation /\ after[r].floor <= answered
        /\ after[r].at <= now /\ after[r].recent <= version'
    BY <1>2, <1>4, <2>1 DEF Owed
  <2> QED BY <1>1, <1>2, <1>5, <1>6, <2>2 DEF Owed
<1> QED BY <1>1, <1>2, <1>3, <1>6, <1>7, VersionStep

LEMMA FailStep ==
  ASSUME IInv, NEW r \in Request, Fail(r)
  PROVE  IInv'
<1>1. UNCHANGED <<now, answered, cache, generation>>
  BY DEF Fail, snapshot
<1>2. Owed(Idle)
  <2>1. /\ now \in Nat /\ version \in Nat /\ answered \in Nat /\ generation \in Nat
    BY DEF IInv, TypeOK
  <2> QED BY <2>1, IdleType DEF Owed
<1>3. CASE UNCHANGED rows /\ req' = [req EXCEPT ![r] = Idle]
  <2>1. UNCHANGED <<now, status, grants, known, version, committed_at, answered, cache,
                    generation>>
    BY <1>1, <1>3 DEF rows
  <2> QED BY <1>2, <1>3, <2>1, IdleType, MoveStep
<1>4. CASE /\ req[r].pc = "commit" /\ Written(r)
           /\ req' = [Gone(req[r].role, req[r].doomed) EXCEPT ![r] = Idle]
  <2> DEFINE after == Gone(req[r].role, req[r].doomed)
  <2>1. /\ version' = version + 1 /\ version' \in Nat
        /\ committed_at' = Append(committed_at, now)
        /\ committed_at' \in Seq(Nat) /\ Len(committed_at') = version'
        /\ status' \in [Role -> {"unborn", "live", "deleted"}]
        /\ grants' \in [Role -> SUBSET Perm]
        /\ known' \in SUBSET Perm
        /\ \A k \in Role : grants'[k] \subseteq IF status'[k] = "live" THEN known' ELSE {}
    BY <1>4, WrittenStep
  <2>2. after \in [Request -> Req] /\ \A s \in Request : Owed(after[s])
    BY GoneType DEF IInv
  <2>3. req' = [after EXCEPT ![r] = Idle]
    BY <1>4
  <2> HIDE DEF after
  <2>4. /\ req' \in [Request -> Req] /\ req'[r] = Idle
        /\ \A s \in Request \ {r} : req'[s] = after[s]
    BY <2>2, <2>3, IdleType
  <2>5. Owed(req[r])'
    <3>1. version \in Nat
      BY DEF IInv, TypeOK
    <3> QED BY <1>1, <1>2, <2>1, <2>4, <3>1, IdleType DEF Owed
  <2> QED BY <1>1, <2>1, <2>2, <2>4, <2>5, VersionStep
<1> QED BY <1>3, <1>4 DEF Fail

LEMMA InvalidateStep ==
  ASSUME IInv, NEW r \in Request, Invalidate(r)
  PROVE  IInv'
<1>1. /\ req[r] \in Req /\ Owed(req[r]) /\ req[r].got \in Nat
      /\ now \in Nat /\ version \in Nat /\ answered \in Nat /\ generation \in Nat
      /\ generation' = generation + 1
      /\ UNCHANGED <<now, status, grants, known, version, committed_at>>
      /\ req' = [req EXCEPT ![r] = Idle]
      /\ cache' = NoCache /\ answered <= version
  BY DEF Invalidate, IInv, TypeOK, Req, rows, Kept
<1>2. answered' \in Nat /\ answered <= answered' /\ answered' <= version
  <2>1. req[r].got <= version
    BY <1>1 DEF Owed
  <2> QED BY <1>1, <2>1 DEF Invalidate
<1>3. /\ req' \in [Request -> Req] /\ req'[r] = Idle
      /\ \A s \in Request \ {r} : req'[s] = req[s]
  BY <1>1, IdleType, OneRequest DEF IInv
<1>4. /\ cache' \in [held: BOOLEAN, version: Nat, expires_at: Nat]
      /\ cache'.version = 0 /\ ~cache'.held
  BY <1>1 DEF NoCache
<1>5. TypeOK'
  BY <1>1, <1>2, <1>3, <1>4 DEF IInv, TypeOK
<1>6. Kept'
  <2>1. answered' <= version' /\ cache'.version <= version'
    BY <1>1, <1>2, <1>4
  <2>2. \A v \in 1 .. version' : committed_at'[v] \in Nat
    BY <1>1 DEF IInv, Kept
  <2> QED BY <1>4, <2>1, <2>2 DEF Kept
<1>7. ASSUME NEW s \in Request PROVE Owed(req[s])'
  <2>1. CASE s = r
    BY <1>1, <1>2, <1>3, <2>1, IdleType DEF Owed
  <2>2. CASE s # r
    <3>1. /\ Owed(req[s]) /\ req[s] \in Req /\ req'[s] = req[s]
          /\ req[s].generation \in Nat /\ req[s].floor \in Nat
      BY <1>3, <2>2 DEF IInv, TypeOK, Req
    <3>2. req[s].generation <= generation /\ req[s].floor <= answered
      BY <3>1 DEF Owed
    <3>3. /\ req[s].generation <= generation' /\ req[s].generation # generation'
          /\ req[s].floor <= answered'
      BY <1>1, <1>2, <3>1, <3>2
    <3> QED BY <1>1, <3>1, <3>3 DEF Owed
  <2> QED BY <2>1, <2>2
<1> QED BY <1>5, <1>6, <1>7 DEF IInv

LEMMA DeployStep ==
  ASSUME IInv, Deploy
  PROVE  IInv'
<1>1. PICK catalogue \in SUBSET Perm :
        /\ known' = catalogue
        /\ grants' = [k \in Role |-> grants[k] \cap catalogue]
        /\ req' = [s \in Request |-> [req[s] EXCEPT !.doomed = @ \cap catalogue]]
  BY DEF Deploy
<1>2. /\ version' = version + 1 /\ version' \in Nat
      /\ committed_at' = Append(committed_at, now)
      /\ committed_at' \in Seq(Nat) /\ Len(committed_at') = version'
      /\ UNCHANGED <<now, status, answered, cache, generation>>
  BY DEF Deploy, snapshot, IInv, TypeOK
<1>3. /\ status' \in [Role -> {"unborn", "live", "deleted"}]
      /\ grants' \in [Role -> SUBSET Perm] /\ known' \in SUBSET Perm
      /\ \A k \in Role : grants'[k] \subseteq IF status'[k] = "live" THEN known' ELSE {}
  BY <1>1, <1>2 DEF IInv, TypeOK
<1>4. ASSUME NEW s \in Request PROVE req'[s] \in Req /\ Owed(req[s])'
  <2>1. req[s] \in Req /\ Owed(req[s]) /\ req[s].doomed \cap catalogue \in SUBSET Perm
    BY DEF IInv, TypeOK, Req
  <2>2. PICK p \in Req : p = [req[s] EXCEPT !.doomed = req[s].doomed \cap catalogue] /\ Owed(p)
    BY <2>1, DoomedOnly
  <2>3. req'[s] = p
    BY <1>1, <2>2
  <2>4. Owed(p)'
    BY <1>2, <2>2, OwedLater DEF IInv
  <2> QED BY <2>3, <2>4 DEF Owed
<1>5. req' \in [Request -> Req]
  BY <1>1, <1>4
<1>6. TypeOK'
  BY <1>2, <1>3, <1>5 DEF IInv, TypeOK
<1>7. Kept'
  BY <1>2, KeptLater
<1> QED BY <1>4, <1>6, <1>7 DEF IInv

LEMMA TickStep ==
  ASSUME IInv, Tick
  PROVE  IInv'
<1>1. /\ now \in Nat /\ now' = now + 1 /\ PERMISSION_CACHE_TTL \in Nat
      /\ UNCHANGED <<status, grants, known, version, committed_at, answered, cache,
                     generation, req>>
      /\ cache \in [held: BOOLEAN, version: Nat, expires_at: Nat]
  BY PermissionAssumption DEF Tick, rows, snapshot, IInv, TypeOK
<1>2. TypeOK'
  BY <1>1 DEF IInv, TypeOK
<1>3. Kept'
  <2>1. Includes => Includes'
    BY <1>1 DEF Includes
  <2> QED BY <1>1, <2>1 DEF IInv, Kept
<1>4. ASSUME NEW s \in Request PROVE Owed(req[s])'
  <2>1. Owed(req[s]) /\ req[s].at \in Nat
    BY DEF IInv, TypeOK, Req
  <2> QED BY <1>1, <2>1 DEF Owed
<1> QED BY <1>2, <1>3, <1>4 DEF IInv

-----------------------------------------------------------------------------
(* The theorems *)

LEMMA Initially == Init => IInv
<1> SUFFICES ASSUME Init PROVE IInv
  OBVIOUS
<1>1. \A r \in Request : req[r] \in Req /\ req[r] = Idle
  BY IdleType DEF Init
<1>2. /\ cache \in [held: BOOLEAN, version: Nat, expires_at: Nat]
      /\ cache.version = 0 /\ ~cache.held
  BY DEF Init, NoCache
<1>3. <<>> \in Seq(Nat) /\ Len(<<>>) = 0 /\ 1 .. 0 = {}
  OBVIOUS
<1>4. TypeOK
  BY <1>1, <1>2, <1>3 DEF Init, TypeOK
<1>5. Kept
  BY <1>2, <1>3 DEF Init, Kept
<1>6. \A r \in Request : Owed(req[r])
  BY <1>1, IdleType DEF Init, Owed
<1> QED BY <1>4, <1>5, <1>6 DEF IInv

(* What the snapshot and the reads under way owe is kept by every step of  *)
(* deps.py, routers/roles.py and a deploy.                                 *)
THEOREM Inductive == Spec => []IInv
<1>1. IInv /\ [Next]_vars => IInv'
  <2> SUFFICES ASSUME IInv, [Next]_vars PROVE IInv'
    OBVIOUS
  <2>1. CASE UNCHANGED vars
    BY <2>1 DEF vars, IInv, TypeOK, Kept, Includes, Owed
  <2>2. ASSUME NEW r \in Request, Load(r) \/ Read(r) \/ Install(r) PROVE IInv'
    BY <2>2, LoadStep, ReadStep, InstallStep
  <2>3. ASSUME NEW r \in Request,
               DeleteGrants(r) \/ Commit(r) \/ Fail(r) \/ Invalidate(r)
        PROVE  IInv'
    BY <2>3, DeleteGrantsStep, CommitStep, FailStep, InvalidateStep
  <2>4. ASSUME NEW r \in Request, NEW k \in Role, NEW wanted \in SUBSET Perm,
               NEW op \in {"create", "replace", "rename", "delete"}, Edit(r, k, op, wanted)
        PROVE  IInv'
    BY <2>4, EditStep
  <2>5. CASE Deploy \/ Tick
    BY <2>5, DeployStep, TickStep
  <2> QED BY <2>1, <2>2, <2>3, <2>4, <2>5 DEF Next
<1> QED BY <1>1, Initially, PTL DEF Spec

(* The variables keep their types: what a role grants is always a set of   *)
(* known codes, and nothing is granted by a role that is not there.        *)
THEOREM TypeCorrect == Spec => []TypeOK
<1>1. IInv => TypeOK
  BY DEF IInv
<1> QED BY <1>1, Inductive, PTL

(* deps.load_role_permissions: whatever reads were in flight when an edit  *)
(* was answered, who asks afterwards is answered from rows that have it.   *)
THEOREM EditsAreSeen == Spec => []AnsweredEditsHold
<1>1. IInv => AnsweredEditsHold
  BY DEF IInv, Owed, AnsweredEditsHold
<1> QED BY <1>1, Inductive, PTL

(* PERMISSION_CACHE_TTL: a change nobody told this process of, a deploy's  *)
(* or one whose answer was lost, is in force when the TTL has passed.      *)
THEOREM StalenessIsBounded == Spec => []StaleAtMostTTL
<1>1. IInv => StaleAtMostTTL
  BY DEF IInv, Owed, StaleAtMostTTL
<1> QED BY <1>1, Inductive, PTL

=============================================================================
