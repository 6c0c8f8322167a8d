--------------------------- MODULE SessionClient ---------------------------
(***************************************************************************)
(* One tab of the panel and the service behind it: the transport and its   *)
(* two renewals (src/frontend/src/api/client.ts), the store with the       *)
(* opening exchange (stores/auth.ts), the endings (session.ts, main.ts)    *)
(* and the screens that press something (LoginView, DemoEndedView,         *)
(* AppShell), against the answers of routers/auth.py, routers/demo.py and  *)
(* deps.py.                                                                *)
(*                                                                         *)
(* What runs between two awaits of the browser's one thread is one step,   *)
(* with everything a settled promise resumes.  A call carries the bearer   *)
(* and the cookie there were when it was sent, and is served when its      *)
(* answer comes, or when that is lost after all; an error that says        *)
(* nothing of the session is as good as a loss to who made the call.  What *)
(* is given up before its answer comes was not served.                     *)
(*                                                                         *)
(* Tokens are numbered as they are minted.  An operator's number stands    *)
(* for an access token and for the refresh cookie beside it; a session,    *)
(* which is a token family or a world, is named by its first token.        *)
(***************************************************************************)
EXTENDS Integers, FiniteSets, FiniteSetsExt, Functions, Sequences

CONSTANTS
    Reads,           \* requests of the screens, given up with them
    Writes,          \* and those that are not
    None,            \* null
    MaxTokens,       \* bound on the tokens minted
    MaxPresses       \* bound on the presses of Sign in and Try the demo

Caller == Reads \cup Writes \cup {"boot", "form", "door", "exit"}

(* An exchange many may wait for, named by who began it and where it is.   *)
Opening == <<"opening", "refresh">>
Exchange == (Caller \X {"refresh", "demo"}) \cup {Opening}

ASSUME ClientAssumption ==
    /\ None \notin Nat /\ None \notin Exchange
    /\ {"boot", "form", "door", "exit"} \cap (Reads \cup Writes) = {}
    /\ MaxTokens \in Nat /\ MaxPresses \in Nat

VARIABLES
    service,         \* tokens minted and run out, and the sessions ended
    jar,             \* the refresh cookie the browser holds
    tab,             \* the client's and the store's variables, and the screen
    call,            \* what each caller is about
    shared,          \* the exchanges under way
    history,         \* credentials honoured, and those honoured twice
    presses          \* of Sign in and Try the demo so far

vars == <<service, jar, tab, call, shared, history, presses>>

-----------------------------------------------------------------------------
(* The service *)

Token == DOMAIN service.minted
Kind(t) == service.minted[t].kind
Session(t) == service.minted[t].session
Of(session) == {t \in Token : Session(t) = session}

Fresh == Len(service.minted) + 1

(* What is answered: the service after it, the answer and its token.       *)
Minted(kind, session) ==
    [service EXCEPT !.minted = Append(@, [kind |-> kind, session |-> session])]
Ended(session) == [service EXCEPT !.ended = @ \cup {session}]

Reply(s, answer, token) == {[service |-> s, answer |-> answer, token |-> token]}
Says(answer) == Reply(service, answer, None)
Gives(kind, session) ==
    IF Fresh > MaxTokens THEN {} ELSE Reply(Minted(kind, session), "ok", Fresh)

Stands(t) == Session(t) \notin service.ended
IsFreshPass(t) == t # None /\ Kind(t) = "demo" /\ t \notin service.stale

(* A guarded route (_current_identity): the credential, its expiry, and    *)
(* the world or the account it names.                                      *)
ReadAnswers(bearer) ==
    CASE bearer = None -> {"unauthenticated"}
      [] bearer # None /\ bearer \in service.stale -> {"expired"}
      [] IsFreshPass(bearer) -> IF Stands(bearer) THEN {"ok"} ELSE {"gone"}
      [] OTHER -> {"ok", "unauthenticated"}

(* refresh: the newest cookie of a family rotates it; an older one does so *)
(* by grace, or ends it.                                                   *)
RefreshReplies(cookie) ==
    IF cookie = None \/ ~Stands(cookie) THEN Says("refused")
    ELSE Gives("operator", Session(cookie))
         \cup (IF cookie = Max(Of(Session(cookie))) THEN {}
               ELSE Reply(Ended(Session(cookie)), "refused", None))

(* The demonstration's door (_standing): a live pass keeps its world or is *)
(* told that it is gone; anything else is somebody pressing the button.    *)
DoorReplies(bearer) ==
    IF IsFreshPass(bearer)
    THEN IF Stands(bearer) THEN Gives("demo", Session(bearer)) ELSE Says("gone")
    ELSE Gives("demo", Fresh)

(* logout answers the same when the revocation failed.                     *)
LogoutReplies(cookie) ==
    Says("ok") \cup (IF cookie = None THEN {} ELSE Reply(Ended(Session(cookie)), "ok", None))

Replies(wire) ==
    CASE wire.path = "read" -> UNION {Says(answer) : answer \in ReadAnswers(wire.bearer)}
      [] wire.path = "refresh" -> RefreshReplies(wire.cookie)
      [] wire.path = "demo" -> DoorReplies(wire.bearer)
      [] wire.path = "login" -> Gives("operator", Fresh)
      [] wire.path = "logout" -> LogoutReplies(wire.cookie)

(* Set-Cookie of an answer.                                                *)
JarAfter(wire, reply) ==
    CASE wire.path \in {"refresh", "login"} /\ reply.answer = "ok" -> reply.token
      [] wire.path = "refresh" /\ reply.answer = "refused" -> None
      [] wire.path = "logout" -> None
      [] OTHER -> jar

-----------------------------------------------------------------------------
(* The client: operators on what the tab holds, one for each function.     *)

Here == [tab |-> tab, call |-> call, shared |-> shared]
Become(s) ==
    \E next \in {s} : tab' = next.tab /\ call' = next.call /\ shared' = next.shared

Silent == [path |-> None, bearer |-> None, cookie |-> None]

(* raw                                                                     *)
Fetch(s, path) ==
    [path |-> path,
     bearer |-> IF path \in {"read", "demo"} THEN s.tab.access ELSE None,
     cookie |-> IF path \in {"refresh", "logout"} THEN jar ELSE None]

(* pc: what the caller is about; on: the exchange it waits for; signal:    *)
(* whether it is given up when its screen goes.                            *)
Idle == [pc |-> "idle", wire |-> Silent, on |-> None,
         retried |-> FALSE, signal |-> FALSE, aborted |-> FALSE]

Resting(s, c) == [s EXCEPT !.call[c] = Idle]

Asking(s, c, pc, path) ==
    [s EXCEPT !.call[c] = [@ EXCEPT !.pc = pc, !.wire = Fetch(s, path),
                                    !.on = None, !.retried = FALSE]]

SetAccessToken(s, t) == [s EXCEPT !.tab.access = t, !.tab.demo = FALSE, !.tab.kept = None]
SetDemoToken(s, t) == [s EXCEPT !.tab.access = t, !.tab.demo = (t # None), !.tab.kept = t]
Adopt(s, user) == [s EXCEPT !.tab.user = user, !.tab.demoEnded = FALSE]
Clear(s) == [s EXCEPT !.tab.user = None]

(* Fault: what waits for an exchange that is cut goes on waiting.          *)
Deaf(s, callers) ==
    LET gone == {c \in callers : s.call[c].signal}
        cut == {e \in DOMAIN s.shared : e[1] \in gone}
        after(c) == IF c \in gone /\ s.call[c].on = None THEN Idle
                    ELSE [s.call[c] EXCEPT !.aborted = c \in gone]
    IN [s EXCEPT !.call = [c \in Caller |-> after(c)],
                 !.shared = Restrict(@, DOMAIN @ \ cut)]

(* Callers given up: a request on the wire is gone; an exchange its signal *)
(* began is cut, which everybody who waits for it is told; who waits for   *)
(* somebody else's goes on waiting.                                        *)
Abort(s, callers) ==
    LET gone == {c \in callers : s.call[c].signal}
        cut == {e \in DOMAIN s.shared : e[1] \in gone}
        after(c) == IF s.call[c].on \in cut \/ (c \in gone /\ s.call[c].on = None) THEN Idle
                    ELSE [s.call[c] EXCEPT !.aborted = @ \/ c \in gone]
    IN [s EXCEPT !.call = [c \in Caller |-> after(c)],
                 !.shared = Restrict(@, DOMAIN @ \ cut)]

(* A navigation, once the page is mounted; the screen that is left gives   *)
(* up what it was asking.                                                  *)
Land(s, screen) ==
    LET shown == IF s.tab.demoEnded THEN "demo-ended" ELSE screen
    IN IF s.tab.screen \in {"blank", shown} THEN s
       ELSE [Abort(s, Caller) EXCEPT !.tab.screen = shown]

(* forgetSession: the store, the token, and the cache with its queries.    *)
ForgetSession(s) == Abort(SetAccessToken(Clear(s), None), Reads)

OnDemoEnded(s) == Land(ForgetSession(s), "demo-ended")
OnSessionLost(s) == Land(ForgetSession(s), "login")

(* The end of the opening exchange: the page is mounted, and the guard     *)
(* decides what it shows.                                                  *)
Mount(s) ==
    [Resting(s, "boot") EXCEPT
        !.tab.screen = IF s.tab.demoEnded THEN "demo-ended"
                       ELSE IF s.tab.user # None THEN "app" ELSE "login"]

(* resumeDemo                                                              *)
Resume(s) ==
    IF s.tab.kept = None THEN Mount(Clear(s))
    ELSE Asking(SetDemoToken(s, s.tab.kept), "boot", "resumed", "read")

Left(s) == Land(ForgetSession(Resting(s, "exit")), "login")

(* What becomes of a caller whose request was rejected,                    *)
Rejected(s, c, gone) ==
    CASE s.call[c].pc = "racing" -> Resume(s)
      [] s.call[c].pc = "me" -> Mount(Clear(s))
      [] s.call[c].pc = "resumed" ->
           Mount(Clear(SetDemoToken([s EXCEPT !.tab.demoEnded = gone], None)))
      [] s.call[c].pc = "logout" -> Left(s)
      [] OTHER -> Resting(s, c)

(* and of one whose request was granted.                                   *)
Granted(s, c, token) ==
    LET wire == s.call[c].wire
    IN CASE s.call[c].pc \in {"me", "resumed"} -> Mount(Adopt(s, Session(wire.bearer)))
         [] s.call[c].pc = "login" -> Asking(SetAccessToken(s, token), c, "welcome", "read")
         [] s.call[c].pc = "door" -> Asking(SetDemoToken(s, token), c, "welcome", "read")
         [] s.call[c].pc = "welcome" ->
              Land(Adopt(Resting(s, c), Session(wire.bearer)), "app")
         [] s.call[c].pc = "logout" -> Left(s)
         [] OTHER -> Resting(s, c)

Begun(exchanges, e, wire) ==
    [other \in DOMAIN exchanges \cup {e} |-> IF other = e THEN wire ELSE exchanges[other]]

(* Fault: everybody begins an exchange of their own.                       *)
RenewAlone(s, c) ==
    LET e == <<c, IF s.tab.demo THEN "demo" ELSE "refresh">>
    IN [s EXCEPT !.shared = Begun(@, e, Fetch(s, e[2])),
                 !.call[c].on = e, !.call[c].wire = Silent]

(* renew: at the door of the session there is, joining what is under way.  *)
Renew(s, c) ==
    LET door == IF s.tab.demo THEN "demo" ELSE "refresh"
        underway == {e \in DOMAIN s.shared : e[2] = door}
        e == IF underway = {} THEN <<c, door>> ELSE CHOOSE other \in underway : TRUE
    IN [s EXCEPT !.shared = IF underway = {} THEN Begun(@, e, Fetch(s, door)) ELSE @,
                 !.call[c].on = e, !.call[c].wire = Silent]

(* request: what an answer means, to a read and to the others.             *)
Answered(s, c, reply) ==
    LET expired == reply.answer = "expired"
    IN CASE reply.answer = "ok" -> Granted(s, c, reply.token)
         [] reply.answer = "gone" -> Rejected(OnDemoEnded(SetDemoToken(s, None)), c, TRUE)
         [] expired /\ ~s.call[c].retried -> Renew(s, c)
         [] reply.answer = "unauthenticated" \/ (expired /\ s.call[c].retried) ->
              Rejected(OnSessionLost(s), c, FALSE)

(* Fault: the token is assigned, and the tab stays a demonstration.        *)
RefreshedByAssignment(s, t) == [s EXCEPT !.tab.access = t]

Refreshed(s, t) == SetAccessToken(s, t)

(* refresh and renewDemo: what the exchange itself does with its answer.   *)
Concluded(s, e, reply) ==
    LET quiet == [s EXCEPT !.shared = Restrict(@, DOMAIN @ \ {e})]
    IN CASE reply.answer = "lost" -> quiet
         [] reply.answer = "ok" /\ e[2] = "refresh" -> Refreshed(quiet, reply.token)
         [] reply.answer = "ok" /\ e[2] = "demo" -> SetDemoToken(quiet, reply.token)
         [] reply.answer = "gone" -> OnDemoEnded(SetDemoToken(quiet, None))
         [] OTHER -> IF e[2] = "refresh" THEN [quiet EXCEPT !.tab.access = None]
                     ELSE SetDemoToken(quiet, None)

(* Fault: silence is taken for a refusal.                                  *)
IsRefusalOrSilence(answer) == answer \in {"refused", "failed", "lost"}

(* RefreshOutcome: any answer but a token, and a world's end, refuses.     *)
IsRefusal(answer) == answer \in {"refused", "failed"}

(* Everybody who waits for it is told at once: no order matters, because   *)
(* only the start changes more than its own call.                          *)
Retried(s, c) ==
    CASE s.call[c].pc = "racing" -> Asking(s, c, "me", "read").call[c]
      [] s.call[c].pc # "racing" /\ s.call[c].aborted -> Idle
      [] OTHER -> [s.call[c] EXCEPT !.wire = Fetch(s, "read"), !.on = None, !.retried = TRUE]

Again(s, callers) ==
    [s EXCEPT !.call = [c \in Caller |-> IF c \in callers THEN Retried(s, c) ELSE s.call[c]]]

Denied(s, callers) ==
    LET rest == [s EXCEPT !.call = [c \in Caller |->
                    IF c \in callers \ {"boot"} THEN Idle ELSE s.call[c]]]
    IN IF "boot" \in callers THEN Rejected(rest, "boot", FALSE) ELSE rest

(* And what everybody who waits for it does then.                          *)
Settled(s, e, reply) ==
    LET waiting == {c \in Caller : s.call[c].on = e}
        told == IF IsRefusal(reply.answer) /\ \E c \in waiting : s.call[c].pc # "racing"
                THEN OnSessionLost(Concluded(s, e, reply))
                ELSE Concluded(s, e, reply)
    IN IF reply.answer = "ok" THEN Again(told, waiting) ELSE Denied(told, waiting)

-----------------------------------------------------------------------------
(* Steps of the network *)

IsAsking(c) == call[c].wire # Silent

(* What an exchange spends: a cookie, or a pass that ran out and is taken  *)
(* for none.  It is noted once it is honoured and the answer has come; a   *)
(* press of the button is no exchange: whoever presses asks for a world.   *)
Spends(wire) ==
    IF wire.path = "refresh" THEN {wire.cookie}
    ELSE {t \in service.stale : t = wire.bearer /\ Kind(t) = "demo"}

Noted(wire, reply) ==
    LET paid == IF reply.answer = "ok" THEN Spends(wire) ELSE {}
    IN history' = [spent |-> history.spent \cup paid,
                   twice |-> history.twice \cup (paid \cap history.spent)]

Served(wire, reply) ==
    /\ service' = reply.service
    /\ jar' = JarAfter(wire, reply)
    /\ UNCHANGED presses

AnswerCall(c) ==
    /\ IsAsking(c)
    /\ \E reply \in Replies(call[c].wire) :
         Served(call[c].wire, reply) /\ Become(Answered(Here, c, reply))
    /\ UNCHANGED history

AnswerExchange(e) ==
    /\ e \in DOMAIN shared
    /\ \E reply \in Replies(shared[e]) \cup Says("failed") :
         /\ Served(shared[e], reply) /\ Noted(shared[e], reply)
         /\ Become(Settled(Here, e, reply))

(* Nobody hears of it: it was never served, or its answer did not come.    *)
Unheard(wire) ==
    /\ service' \in {service} \cup {reply.service : reply \in Replies(wire)}
    /\ UNCHANGED <<jar, history, presses>>

LoseCall(c) ==
    /\ IsAsking(c)
    /\ Unheard(call[c].wire) /\ Become(Rejected(Here, c, FALSE))

LoseExchange(e) ==
    /\ e \in DOMAIN shared
    /\ Unheard(shared[e]) /\ Become(Settled(Here, e, [answer |-> "lost"]))

-----------------------------------------------------------------------------
(* Steps of the person *)

Press(s) == Become(s) /\ UNCHANGED <<service, jar, history>>
PressOnce == presses < MaxPresses /\ presses' = presses + 1

(* bootstrap's deadline: the exchange goes on without it.                  *)
Deadline ==
    /\ call["boot"].pc = "racing"
    /\ Press(Resume([Here EXCEPT !.call["boot"].on = None]))
    /\ UNCHANGED presses

Begin(c, pc, path, signal) ==
    /\ call[c] = Idle
    /\ Press([Asking(Here, c, pc, path) EXCEPT !.call[c].signal = signal])

(* A screen reads, or one of its buttons writes.                           *)
Ask(q) ==
    /\ tab.screen = "app"
    /\ Begin(q, "asked", "read", q \in Reads)
    /\ UNCHANGED presses

(* A question replaced by another one.                                     *)
Abandon(q) ==
    /\ call[q].pc = "asked" /\ ~call[q].aborted
    /\ Press(Abort(Here, {q}))
    /\ UNCHANGED presses

(* LoginView.submit and tryTheDemo, DemoEndedView.again, AppShell.         *)
Submit ==
    /\ tab.screen = "login"
    /\ Begin("form", "login", "login", TRUE)
    /\ PressOnce

TryTheDemo ==
    /\ \/ tab.screen = "login" /\ call["form"] = Idle
       \/ tab.screen = "demo-ended"
    /\ Begin("door", "door", "demo", tab.screen = "login")
    /\ PressOnce

SignOut ==
    /\ tab.screen = "app"
    /\ Begin("exit", "logout", "logout", FALSE)
    /\ UNCHANGED presses

-----------------------------------------------------------------------------
(* Steps of the service by itself *)

Elsewhere(s) == service' = s /\ UNCHANGED <<jar, tab, call, shared, history, presses>>

(* What the tab holds and might show again; what it does not may end       *)
(* unseen.                                                                 *)
Wires == {call[c].wire : c \in Caller} \cup Range(shared)
Shown == {tab.access, tab.kept} \cup {wire.bearer : wire \in Wires}
Kept == {jar} \cup {wire.cookie : wire \in Wires}

(* An access token's quarter of an hour is over; a world's passes all last *)
(* to its ceiling.                                                         *)
Expire(t) ==
    LET over == IF Kind(t) = "demo" THEN Of(Session(t)) ELSE {u \in Of(Session(t)) : u <= t}
    IN /\ t \in Shown \ service.stale
       /\ Elsewhere([service EXCEPT !.stale = @ \cup over])

(* A world runs out its hour, is reset or reaches its ceiling; a family    *)
(* ends on some other machine.                                             *)
End(t) ==
    /\ t \in (IF Kind(t) = "demo" THEN Shown ELSE Kept) /\ Stands(t)
    /\ Elsewhere(Ended(Session(t)))

-----------------------------------------------------------------------------
(* The page is loaded with no session, with a cookie, with a pass kept     *)
(* from before a reload, or with both.                                     *)
Init ==
    \E sessions \in {<<>>, <<"operator">>, <<"demo">>, <<"operator", "demo">>} :
      LET held(kind) == {i \in DOMAIN sessions : sessions[i] = kind}
          latest(kind) == IF held(kind) = {} THEN None ELSE Max(held(kind))
      IN /\ service = [minted |-> [i \in DOMAIN sessions |-> [kind |-> sessions[i], session |-> i]],
                       stale |-> {}, ended |-> {}]
         /\ jar = latest("operator")
         /\ tab = [access |-> None, demo |-> FALSE, kept |-> latest("demo"), user |-> None,
                   demoEnded |-> FALSE, screen |-> "blank"]
         /\ call = [c \in Caller |-> IF c = "boot" THEN [Idle EXCEPT !.pc = "racing", !.on = Opening]
                                     ELSE Idle]
         /\ shared = [e \in {Opening} |-> Fetch([tab |-> tab], "refresh")]
         /\ history = [spent |-> {}, twice |-> {}]
         /\ presses = 0

Next ==
    \/ \E c \in Caller : AnswerCall(c) \/ LoseCall(c)
    \/ \E e \in Exchange : AnswerExchange(e) \/ LoseExchange(e)
    \/ Deadline \/ Submit \/ TryTheDemo \/ SignOut
    \/ \E q \in Reads \cup Writes : Ask(q)
    \/ \E q \in Reads : Abandon(q)
    \/ \E t \in Token : Expire(t) \/ End(t)

Spec == Init /\ [][Next]_vars

(* The deadline comes, and what the start asks after it is answered or     *)
(* fails in the end; the opening exchange may hang.                        *)
Fairness ==
    /\ WF_vars(Deadline)
    /\ WF_vars(LoseCall("boot") \/ AnswerCall("boot"))
    /\ \A e \in {"boot"} \X {"refresh", "demo"} :
         WF_vars(LoseExchange(e) \/ AnswerExchange(e))

FairSpec == Spec /\ Fairness

-----------------------------------------------------------------------------
(* Properties *)

(* No credential is exchanged twice behind the tab's back: a refresh       *)
(* cookie again, which the service takes for a replay, or a pass that ran  *)
(* out, which builds a second world, unless the answer to the first        *)
(* exchange was lost or given up; however many requests expire together,   *)
(* whatever the deadline leaves on the wire, and whoever presses something *)
(* meanwhile (refresh, renew: "one success and one apparent reuse").       *)
SpentOnce == history.twice = {}

(* What the tab holds and how it would renew it agree: a token it takes    *)
(* for a demonstration's is one and is the one kept for a reload, an       *)
(* operator's is never kept, and an exchange carries a pass to the         *)
(* demonstration's door alone (setAccessToken, setDemoToken, renew).       *)
EachRenewsItsOwn ==
    /\ tab.access # None => Kind(tab.access) = IF tab.demo THEN "demo" ELSE "operator"
    /\ tab.screen # "blank" /\ tab.kept # None => tab.demo /\ tab.access \in {tab.kept, None}
    /\ \A e \in DOMAIN shared : e[2] = "demo" /\ shared[e].bearer # None
                                => Kind(shared[e].bearer) = "demo"

(* Nobody is signed out by silence: whoever stops being signed in was told *)
(* so by an answer of this step, to a request or to an exchange, or had    *)
(* pressed Sign out (RefreshOutcome's three values, onSessionLost,         *)
(* onDemoEnded).                                                           *)
SilenceEndsNothing ==
    [][tab.user # None /\ tab'.user = None =>
         \/ \E c \in Caller : AnswerCall(c)
         \/ \E e \in Exchange : AnswerExchange(e)
         \/ LoseCall("exit")]_vars

Told(c) == call[c].on \in DOMAIN shared \cup {None}

(* Everybody goes on: whoever waits waits for an exchange that is still    *)
(* under way, though who began it may be gone, and the page is mounted     *)
(* although the opening exchange never answers (refreshInFlight,           *)
(* renewalInFlight, bootstrap's race).                                     *)
EverybodyGoesOn == [](\A c \in Caller : Told(c)) /\ <>(tab.screen # "blank")

-----------------------------------------------------------------------------
(* What the sources say and the code does not keep *)

(* A demonstration is one world to its end, and then the screen that says  *)
(* so, never another world under the same session (tests/test_demo.py:82:  *)
(* "the world always dies first, and a dead world is a refusal the panel   *)
(* has a screen for").                                                     *)
NeverSwapped ==
    (/\ tab.user # None /\ Kind(tab.user) = "demo"
     /\ tab.access # None /\ Kind(tab.access) = "demo")
        => Session(tab.access) = tab.user

=============================================================================
