-------------------------- MODULE GatewayRequests --------------------------
(***************************************************************************)
(* Requests of the browser through the gateway                             *)
(* (backend/gateway/src): the guards of a route, the interceptor that      *)
(* counts what a handler does, the pipe that checks bodies inside it, the  *)
(* handler's requests to the services with their time limit or to MinIO    *)
(* without one, and the browser's own limit (apiRequest in                 *)
(* frontend/js/app.js), which ends where a body begins.  For login, how    *)
(* long the auth service waits for midPoint before it tries the local      *)
(* password.                                                               *)
(*                                                                         *)
(* Time is explicit: a tick is the same amount for all timers, and comes   *)
(* only when no timer is due.  Answers come at any time or never.          *)
(***************************************************************************)
EXTENDS Integers, FiniteSets

CONSTANTS
    Requests,         \* bound: requests browsers make
    GatewayTimeout,   \* timeoutMs, in ticks
    ClientTimeout,    \* API_TIMEOUT, in ticks
    MidpointTimeout   \* timeout of httpRequest, in ticks

\* 10 s, 15 s and 30 s.
ASSUME TimeoutAssumption ==
    /\ IsFiniteSet(Requests)
    /\ GatewayTimeout \in Nat \ {0}
    /\ ClientTimeout \in Nat \ {0}
    /\ MidpointTimeout \in Nat \ {0}
    /\ GatewayTimeout < ClientTimeout
    /\ ClientTimeout < 2 * GatewayTimeout
    /\ GatewayTimeout < MidpointTimeout

VARIABLES
    kind,      \* [Requests -> route, "none" before the request]
    at,        \* [Requests -> "idle", before the "guard", "refused" there, "invalid" for the
               \*              pipe, at the handler's "first" or "second" request to a service,
               \*              "left", or "lost" in a restart of the gateway]
    told,      \* [Requests -> what the browser has for it: "body" when the headers of an
               \*              answer have come, and its body not yet]
    age,       \* [Requests -> ticks since the browser sent it, while it waits]
    waited,    \* [Requests -> ticks since the service was asked, while the gateway waits]
    login,     \* [Requests -> is the auth service "asking" midPoint, has it "fallen back"
               \*              on the local password after a timeout, or is it "hung" on an
               \*              answer that was cut off?]
    asked,     \* [Requests -> ticks since midPoint was asked, while it is]
    inFlight,  \* http_requests_in_flight
    counted,   \* http_requests_total
    errors,    \* microservice_errors_total
    failures,  \* auth_failures_total, by reason
    sessions   \* active_sessions

requests == <<kind, at, told, age, waited>>
metrics  == <<inFlight, counted, errors, failures, sessions>>
auth     == <<login, asked>>
vars     == <<requests, auth, metrics>>

\* The routes, told apart by guards, checks of the body, requests and metrics:
\* "relay" is any guarded route with one request to a service and no body to check,
\* "create" is POST /api/asterisk/extensions, "recordings" are the two routes that
\* ask MinIO, "metrics" is the one Prometheus reads.
Kinds     == {"login", "register", "relay", "create", "registerSip", "recordings", "metrics"}
Failing   == {"login", "register"}
Unguarded == Failing \cup {"metrics"}
Checked   == Failing \cup {"create"}

InHandler(r) == at[r] \in {"first", "second"}
Limited(r)   == InHandler(r) /\ kind[r] # "recordings"
Waits(r)     == told[r] = "waiting"

TypeOK ==
    /\ kind \in [Requests -> Kinds \cup {"none"}]
    /\ at \in [Requests -> {"idle", "guard", "refused", "invalid", "first", "second", "left", "lost"}]
    /\ told \in [Requests -> {"nothing", "waiting", "body", "ok", "error", "gave up"}]
    /\ age \in [Requests -> 0..ClientTimeout]
    /\ waited \in [Requests -> 0..GatewayTimeout]
    /\ login \in [Requests -> {"no", "asking", "fallen back", "hung"}]
    /\ asked \in [Requests -> 0..MidpointTimeout]
    /\ inFlight \in Nat /\ counted \in Nat /\ errors \in Nat /\ sessions \in Nat
    /\ failures \in [Failing -> Nat]

Init ==
    /\ kind = [r \in Requests |-> "none"]
    /\ at = [r \in Requests |-> "idle"]
    /\ told = [r \in Requests |-> "nothing"]
    /\ age = [r \in Requests |-> 0]
    /\ waited = [r \in Requests |-> 0]
    /\ login = [r \in Requests |-> "no"]
    /\ asked = [r \in Requests |-> 0]
    /\ inFlight = 0 /\ counted = 0 /\ errors = 0 /\ sessions = 0
    /\ failures = [k \in Failing |-> 0]

-----------------------------------------------------------------------------

Asks(r, call) ==
    /\ at' = [at EXCEPT ![r] = call]
    /\ waited' = [waited EXCEPT ![r] = 0]

\* What reaches the browser, if it still waits.  Its timer ends with the headers of
\* a good answer; the body of an error is read before, and whether it comes or
\* stalls, the browser has its error.
Tells(r, result) ==
    /\ told' = IF ~Waits(r) THEN told
               ELSE [told EXCEPT ![r] = IF result = "ok" THEN "body" ELSE result]
    /\ age' = IF Waits(r) THEN [age EXCEPT ![r] = 0] ELSE age

\* Mutant of Leaves: an error is counted, but the gauge stays.
LeavesWithoutFinalize(r, result) ==
    /\ Asks(r, "left")
    /\ Tells(r, result)
    /\ inFlight' = IF result = "ok" THEN inFlight - 1 ELSE inFlight
    /\ counted' = counted + 1

\* The handler is through: tap or catchError of the interceptor, then finalize.
Leaves(r, result) ==
    /\ Asks(r, "left")
    /\ Tells(r, result)
    /\ inFlight' = inFlight - 1
    /\ counted' = counted + 1

\* The browser sends a request.
Send(r, k) ==
    /\ at[r] = "idle"
    /\ kind' = [kind EXCEPT ![r] = k]
    /\ at' = [at EXCEPT ![r] = "guard"]
    /\ told' = [told EXCEPT ![r] = "waiting"]
    /\ UNCHANGED <<age, waited, auth, metrics>>

\* The interceptor counts the request in, and the handler asks a service; of a
\* login, the auth service asks midPoint.
Enters(r) ==
    /\ kind[r] # "metrics"
    /\ Asks(r, "first")
    /\ inFlight' = inFlight + 1
    /\ login' = IF kind[r] = "login" THEN [login EXCEPT ![r] = "asking"] ELSE login
    /\ UNCHANGED <<told, age, counted>>

\* What the interceptor counts in and out at once: a body the ValidationPipe
\* refuses inside it, and the metrics, which ask no service.
AtOnce(r) ==
    /\ \/ kind[r] \in Checked /\ Asks(r, "invalid") /\ Tells(r, "error")
       \/ kind[r] = "metrics" /\ Asks(r, "left") /\ Tells(r, "ok")
    /\ counted' = counted + 1
    /\ UNCHANGED <<inFlight, login>>

\* The route has no guard, or the auth service has answered auth.validate
\* (JwtStrategy, without a time limit), and the user has the role AdminGuard
\* asks for.
GuardPasses(r) ==
    /\ at[r] = "guard"
    /\ Enters(r) \/ AtOnce(r)
    /\ UNCHANGED <<kind, asked, errors, failures, sessions>>

\* A bad token, a failing auth service or a lacking role: no metric counts it.
GuardRefuses(r) ==
    /\ at[r] = "guard" /\ kind[r] \notin Unguarded
    /\ Asks(r, "refused") /\ Tells(r, "error")
    /\ UNCHANGED <<kind, auth, metrics>>

\* midPoint has answered, or nobody waits for it any more.
MidpointDone(r) ==
    /\ login' = [login EXCEPT ![r] = "no"]
    /\ asked' = [asked EXCEPT ![r] = 0]

\* The service, or MinIO, has answered in time.  registerSip goes on to its second
\* request, unless the user has no extension.
ServiceAnswers(r) ==
    /\ InHandler(r) /\ login[r] # "hung"
    /\ \/ kind[r] = "registerSip" /\ at[r] = "first"
          /\ Asks(r, "second") /\ UNCHANGED <<told, age, inFlight, counted>>
       \/ kind[r] = "registerSip" /\ at[r] = "first" /\ Leaves(r, "error")
       \/ ~(kind[r] = "registerSip" /\ at[r] = "first") /\ Leaves(r, "ok")
    /\ sessions' = IF kind[r] = "login" THEN sessions + 1 ELSE sessions
    /\ MidpointDone(r)
    /\ UNCHANGED <<kind, errors, failures>>

\* sendWithTimeout throws: login and register count it once more, and registerSip
\* answers as if createExtension had worked.  What MinIO fails to do is no error
\* of a service.
Failed(r) ==
    /\ Leaves(r, IF at[r] = "second" THEN "ok" ELSE "error")
    /\ errors' = IF kind[r] = "recordings" THEN errors ELSE errors + 1
    /\ failures' = IF kind[r] \in Failing THEN [failures EXCEPT ![kind[r]] = @ + 1] ELSE failures
    /\ UNCHANGED <<kind, sessions>>

\* The service answers with an error, or cannot be reached.
ServiceFails(r) ==
    /\ InHandler(r)
    /\ Failed(r)
    /\ MidpointDone(r)

\* Mutant of GatewayTimesOut: the request is sent a second time.
GatewayAsksAgain(r) ==
    /\ Limited(r) /\ waited[r] = GatewayTimeout
    /\ IF at[r] = "first"
         THEN Asks(r, "second")
              /\ UNCHANGED <<kind, told, age, inFlight, counted, errors, failures, sessions>>
         ELSE Failed(r)
    /\ UNCHANGED auth

\* Mutant of GatewayTimesOut: the second request has no limit.
GatewayTimesOutOnce(r) ==
    /\ Limited(r) /\ at[r] = "first" /\ waited[r] = GatewayTimeout
    /\ Failed(r)
    /\ UNCHANGED auth

\* timeoutMs have passed; the service goes on.
GatewayTimesOut(r) ==
    /\ Limited(r) /\ waited[r] = GatewayTimeout
    /\ Failed(r)
    /\ UNCHANGED auth

\* apiRequest aborts while it waits for headers; the gateway does not notice.
ClientGivesUp(r) ==
    /\ Waits(r) /\ age[r] = ClientTimeout
    /\ Tells(r, "gave up")
    /\ UNCHANGED <<kind, at, waited, auth, metrics>>

\* The body has come, which may also never be.
BodyComes(r) ==
    /\ told[r] = "body"
    /\ told' = [told EXCEPT ![r] = "ok"]
    /\ UNCHANGED <<kind, at, age, waited, auth, metrics>>

\* The gateway's process restarts: the metrics begin at 0, and the browsers lose
\* their connections.
GatewayRestarts ==
    /\ \E r \in Requests : at[r] \notin {"idle", "lost"}
    /\ at' = [r \in Requests |-> IF at[r] = "idle" THEN "idle" ELSE "lost"]
    /\ told' = [r \in Requests |-> IF Waits(r) \/ told[r] = "body" THEN "error" ELSE told[r]]
    /\ age' = [r \in Requests |-> 0] /\ waited' = [r \in Requests |-> 0]
    /\ inFlight' = 0 /\ counted' = 0 /\ errors' = 0 /\ sessions' = 0
    /\ failures' = [k \in Failing |-> 0]
    /\ UNCHANGED <<kind, auth>>

\* Mutant of MidpointTimesOut: a limit below the gateway's.
MidpointTimesOutEarly(r) ==
    /\ login[r] = "asking" /\ asked[r] = GatewayTimeout - 1
    /\ login' = [login EXCEPT ![r] = "fallen back"]
    /\ asked' = [asked EXCEPT ![r] = 0]
    /\ UNCHANGED <<requests, metrics>>

\* httpRequest rejects: the login goes on with the local password.  Its answer,
\* when the gateway no longer waits, is dropped.
MidpointTimesOut(r) ==
    /\ login[r] = "asking" /\ asked[r] = MidpointTimeout
    /\ login' = [login EXCEPT ![r] = "fallen back"]
    /\ asked' = [asked EXCEPT ![r] = 0]
    /\ UNCHANGED <<requests, metrics>>

\* midPoint's connection ends within an answer: httpRequest hears of it neither as
\* an end nor as an error, and the login never goes on.
AnswerCutOff(r) ==
    /\ login[r] = "asking"
    /\ login' = [login EXCEPT ![r] = "hung"]
    /\ asked' = [asked EXCEPT ![r] = 0]
    /\ UNCHANGED <<requests, metrics>>

\* midPoint answers the auth service after all, and nobody waits for it.
MidpointAnswersLate(r) ==
    /\ login[r] = "asking" /\ ~InHandler(r)
    /\ MidpointDone(r)
    /\ UNCHANGED <<requests, metrics>>

Due == \E r \in Requests :
          \/ at[r] = "guard" /\ kind[r] \in Unguarded
          \/ Limited(r) /\ waited[r] = GatewayTimeout
          \/ Waits(r) /\ age[r] = ClientTimeout
          \/ login[r] = "asking" /\ asked[r] = MidpointTimeout

Tick ==
    /\ ~Due
    /\ waited' = [r \in Requests |-> IF Limited(r) THEN waited[r] + 1 ELSE waited[r]]
    /\ age' = [r \in Requests |-> IF Waits(r) THEN age[r] + 1 ELSE age[r]]
    /\ asked' = [r \in Requests |-> IF login[r] = "asking" THEN asked[r] + 1 ELSE asked[r]]
    /\ UNCHANGED <<kind, at, told, login, metrics>>

TimesOut(r) == GatewayTimesOut(r) \/ ClientGivesUp(r) \/ MidpointTimesOut(r)
Answered(r) == ServiceAnswers(r) \/ ServiceFails(r) \/ MidpointAnswersLate(r)
               \/ AnswerCutOff(r) \/ BodyComes(r)
Guarded(r)  == GuardPasses(r) \/ GuardRefuses(r)

Next ==
    \/ \E r \in Requests : TimesOut(r) \/ Answered(r) \/ Guarded(r)
    \/ \E r \in Requests, k \in Kinds : Send(r, k)
    \/ GatewayRestarts \/ Tick

\* Time passes, and what is due is done, as is what waits for nobody; no answer has
\* to come.
Spec     == Init /\ [][Next]_vars
FairSpec == /\ Spec /\ WF_vars(Tick)
            /\ \A r \in Requests : WF_vars(TimesOut(r)) /\ WF_vars(kind[r] \in Unguarded /\ GuardPasses(r))

-----------------------------------------------------------------------------
(* Properties.                                                             *)

Handled    == {r \in Requests : InHandler(r)}
Left       == {r \in Requests : at[r] = "left"}
LeftLogins == {r \in Left : kind[r] = "login"}
Counted    == {r \in Requests : at[r] \in {"left", "invalid"}}

\* The metrics account for every request that passed its guards, whatever fails,
\* times out or is no longer waited for, since the gateway started: the gauge is
\* the number of handlers under way, those of recordings that MinIO never answers
\* among them; what a handler or the pipe has ended is counted once, and a login
\* whose handler has ended is a session or a failure.  A login the pipe refuses is
\* neither of the two; a request that waits for the guard, perhaps for ever, or was
\* refused by it is in none of them.
MetricsExact ==
    /\ inFlight = Cardinality(Handled)
    /\ counted = Cardinality(Counted)
    /\ sessions + failures["login"] = Cardinality(LeftLogins)
    /\ failures["login"] + failures["register"] <= errors

\* A browser never gives up on a login or a registration: the gateway answers
\* before its time is over, whatever the auth service and midPoint do.  On a guarded
\* route it may, and register-sip then goes on without it.
LoginsAreTold == \A r \in Requests : kind[r] \in Unguarded => told[r] # "gave up"

\* The local password does not help when midPoint hangs: once the auth service
\* falls back on it after a timeout, the browser has its error already.  It
\* helps when midPoint refuses the connection.
FallbackIsLate == \A r \in Requests : login[r] = "fallen back" => told[r] = "error"

\* What the timers of a request know of each other, which makes the last two
\* inductive: of a login or a registration that is waited for, the browser's and
\* the gateway's timers began together; so did those of the gateway and of the
\* auth service for a login.
TimersAgree(r) ==
    /\ at[r] = "idle" => told[r] = "nothing" /\ login[r] = "no" /\ kind[r] = "none"
                         /\ age[r] = 0 /\ waited[r] = 0 /\ asked[r] = 0
    /\ at[r] = "guard" => told[r] \in {"waiting", "gave up"} /\ login[r] = "no"
                          /\ waited[r] = 0 /\ asked[r] = 0
    /\ at[r] = "second" => kind[r] = "registerSip"
    /\ kind[r] \in Unguarded => told[r] # "gave up"
    /\ kind[r] \in Unguarded /\ Waits(r) => at[r] \in {"guard", "first"} /\ age[r] = waited[r]
    /\ kind[r] = "metrics" => ~InHandler(r)
    /\ login[r] # "no" => kind[r] = "login"
    /\ login[r] = "asking" => told[r] = "error" \/ (Waits(r) /\ asked[r] = waited[r])
    /\ login[r] = "fallen back" => told[r] = "error"

GatewayInv == TypeOK /\ MetricsExact /\ \A r \in Requests : TimersAgree(r)

\* The ticks a handler may take from here: the time limits of the requests to
\* services that are before it.
TimeLeft(r) ==
    GatewayTimeout - waited[r] + IF kind[r] = "registerSip" /\ at[r] = "first" THEN GatewayTimeout ELSE 0

\* Nothing gives a request time back: not the second request of registerSip, an
\* answer, or what other requests do.  With each tick a handler that does not ask
\* MinIO has less left of its services' limits and a browser of its own; so such a
\* handler outlives no two limits, and no browser waits for headers beyond
\* ClientTimeout.
TimeRunsOut ==
    [][\A r \in Requests :
         /\ Limited(r) /\ Limited(r)' =>
               TimeLeft(r)' \in 0..TimeLeft(r) /\ (Tick => TimeLeft(r)' < TimeLeft(r))
         /\ Waits(r) /\ Waits(r)' =>
               age'[r] \in age[r]..ClientTimeout /\ (Tick => age'[r] > age[r])]_vars

\* Every handler but those of recordings ends, whether or not its services answer;
\* and every browser hears how its request ended, or gives up, even when the guard
\* never lets the request through or MinIO never answers.  No more is promised: the
\* body of a good answer may stall for ever.
RequestsEnd == \A r \in Requests :
    (Limited(r) ~> ~InHandler(r)) /\ (Waits(r) ~> ~Waits(r))
=============================================================================
