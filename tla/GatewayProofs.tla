---------------------------- MODULE GatewayProofs ----------------------------
(***************************************************************************)
(* Proofs about the gateway.  Of its requests (module GatewayRequests):    *)
(* the metrics are exact and a login is always told, for any number of     *)
(* requests and any three time limits that are ordered as the code's are.  *)
(* Of the list of recordings (module RecordingsPage): the parties and the  *)
(* durations it shows, for any names and files, whatever is uploaded       *)
(* meanwhile and whichever requests fail.                                  *)
(***************************************************************************)
EXTENDS GatewayRequests, RecordingsPage, FiniteSetTheorems, NaturalsInduction,
        WellFoundedInduction, TLAPS

LEMMA Zeros == 0 \in 0..GatewayTimeout /\ 0 \in 0..ClientTimeout /\ 0 \in 0..MidpointTimeout
BY TimeoutAssumption

\* The gateway does not wait as long as the auth service does for midPoint.
LEMMA ShortWait == \A m \in 0..GatewayTimeout : m # MidpointTimeout
<1>1. \A a \in Nat \ {0}, b \in Nat \ {0} : a < b => \A m \in 0..a : m # b
  OBVIOUS
<1>2. QED
  BY <1>1, TimeoutAssumption

\* Counting one request more, or one less.
LEMMA OneMore ==
    ASSUME NEW S, NEW x, IsFiniteSet(S), x \notin S
    PROVE  Cardinality(S \cup {x}) = Cardinality(S) + 1
BY FS_AddElement

LEMMA OneLess ==
    ASSUME NEW S, NEW x, IsFiniteSet(S), x \in S
    PROVE  Cardinality(S \ {x}) = Cardinality(S) - 1
BY FS_RemoveElement

\* The sets the metrics count are finite, and so their sizes are numbers.
LEMMA Counts ==
    /\ IsFiniteSet(Handled) /\ IsFiniteSet(Counted) /\ IsFiniteSet(LeftLogins)
    /\ {Cardinality(Handled), Cardinality(Counted), Cardinality(LeftLogins)} \subseteq Nat
<1>1. Handled \subseteq Requests /\ Counted \subseteq Requests /\ LeftLogins \subseteq Requests
  BY DEF Handled, Counted, Left, LeftLogins
<1>2. IsFiniteSet(Handled) /\ IsFiniteSet(Counted) /\ IsFiniteSet(LeftLogins)
  BY <1>1, FS_Subset, TimeoutAssumption
<1>3. QED
  BY <1>2, FS_CardinalityType

\* A handler that is through is counted, and is no longer one under way.
LEMMA LeavingCounts ==
    ASSUME GatewayInv, NEW r \in Requests, InHandler(r), NEW outcome, Leaves(r, outcome), kind' = kind
    PROVE  /\ Cardinality(Handled') = Cardinality(Handled) - 1
           /\ Cardinality(Counted') = Cardinality(Counted) + 1
           /\ Cardinality(LeftLogins') =
                 Cardinality(LeftLogins) + (IF kind[r] = "login" THEN 1 ELSE 0)
<1>1. at' = [at EXCEPT ![r] = "left"] /\ at \in [Requests -> {"idle", "guard", "refused", "invalid", "first", "second", "left", "lost"}]
  BY DEF Leaves, Asks, GatewayInv, TypeOK
<1>2. r \in Handled /\ r \notin Counted /\ r \notin LeftLogins
  BY DEF Handled, Counted, Left, LeftLogins, InHandler
<1>3. Handled' = Handled \ {r}
  BY <1>1 DEF Handled, InHandler
<1>4. Counted' = Counted \cup {r} /\ Left' = Left \cup {r}
  BY <1>1 DEF Counted, Left
<1>5. LeftLogins' = IF kind[r] = "login" THEN LeftLogins \cup {r} ELSE LeftLogins
  BY <1>4 DEF LeftLogins
<1>6. QED
  BY <1>2, <1>3, <1>4, <1>5, Counts, OneMore, OneLess

\* A request whose handler begins is one more under way.
LEMMA EnteringCounts ==
    ASSUME GatewayInv, NEW r \in Requests, at[r] = "guard", Enters(r), kind' = kind
    PROVE  /\ Cardinality(Handled') = Cardinality(Handled) + 1
           /\ Counted' = Counted /\ LeftLogins' = LeftLogins
<1>1. at' = [at EXCEPT ![r] = "first"] /\ at \in [Requests -> {"idle", "guard", "refused", "invalid", "first", "second", "left", "lost"}]
  BY DEF Enters, Asks, GatewayInv, TypeOK
<1>2. r \notin Handled /\ Handled' = Handled \cup {r}
  BY <1>1 DEF Handled, InHandler
<1>3. Counted' = Counted /\ LeftLogins' = LeftLogins
  BY <1>1 DEF Counted, Left, LeftLogins
<1>4. QED
  BY <1>2, <1>3, Counts, OneMore

\* What the pipe refuses, or is answered at once, is counted and never under way;
\* it is no login that left.
LEMMA AtOnceCounts ==
    ASSUME GatewayInv, NEW r \in Requests, at[r] = "guard", AtOnce(r), kind' = kind
    PROVE  /\ Cardinality(Counted') = Cardinality(Counted) + 1
           /\ Handled' = Handled /\ LeftLogins' = LeftLogins
<1>1. PICK x \in {"invalid", "left"} :
           at' = [at EXCEPT ![r] = x] /\ (x = "left" => kind[r] = "metrics")
  BY DEF AtOnce, Asks
<1>2. at \in [Requests -> {"idle", "guard", "refused", "invalid", "first", "second", "left", "lost"}]
  BY DEF GatewayInv, TypeOK
<1>3. r \notin Counted /\ Counted' = Counted \cup {r}
  BY <1>1, <1>2 DEF Counted
<1>4. Handled' = Handled /\ LeftLogins' = LeftLogins
  BY <1>1, <1>2 DEF Handled, InHandler, Left, LeftLogins
<1>5. QED
  BY <1>3, <1>4, Counts, OneMore

\* Where no handler begins or ends, and kinds stay, the sets stay.
SameEnd(r) == (at'[r] = "left" <=> at[r] = "left") /\ (at'[r] = "invalid" <=> at[r] = "invalid")

LEMMA SetsStay ==
    ASSUME \A r \in Requests : (InHandler(r)' <=> InHandler(r)) /\ SameEnd(r),
           \A r \in Left : kind'[r] = kind[r]
    PROVE  Handled' = Handled /\ Counted' = Counted /\ LeftLogins' = LeftLogins
BY DEF Handled, Counted, Left, LeftLogins, SameEnd

LEMMA InitInv == Init => GatewayInv
<1> SUFFICES ASSUME Init PROVE GatewayInv
  OBVIOUS
<1>1. Handled = {} /\ Counted = {} /\ LeftLogins = {}
  BY DEF Init, Handled, InHandler, Counted, Left, LeftLogins
<1>2. TypeOK
  BY TimeoutAssumption DEF Init, TypeOK, Kinds, Failing
<1>3. MetricsExact
  BY <1>1, FS_EmptySet DEF Init, MetricsExact, Failing
<1>4. \A r \in Requests : TimersAgree(r)
  BY DEF Init, TimersAgree, Unguarded, Failing, Waits, InHandler
<1>5. QED
  BY <1>2, <1>3, <1>4 DEF GatewayInv

\* A step that leaves a request alone leaves what its timers know.
LEMMA OthersStay ==
    ASSUME NEW q, TimersAgree(q),
           kind'[q] = kind[q], at'[q] = at[q], told'[q] = told[q], age'[q] = age[q],
           waited'[q] = waited[q], login'[q] = login[q], asked'[q] = asked[q]
    PROVE  TimersAgree(q)'
BY DEF TimersAgree, Waits, InHandler

\* The types of the metrics, where arithmetic is done with them.
LEMMA MetricTypes == TypeOK =>
    /\ inFlight \in Nat /\ counted \in Nat /\ errors \in Nat /\ sessions \in Nat
    /\ failures \in [Failing -> Nat]
BY DEF TypeOK

\* The browser sends a request.
LEMMA SendInv ==
    ASSUME GatewayInv, NEW r \in Requests, NEW k \in Kinds, Send(r, k)
    PROVE  GatewayInv'
<1> USE DEF GatewayInv
<1>1. TypeOK'
  BY DEF TypeOK, Send, auth, metrics
<1>2. ASSUME NEW q \in Requests PROVE TimersAgree(q)'
  <2>1. TimersAgree(q)
    OBVIOUS
  <2>2. CASE q = r
    <3>1. at[r] = "idle" /\ kind'[r] = k /\ told'[r] = "waiting" /\ at'[r] = "guard"
      BY DEF Send, TypeOK
    <3>2. UNCHANGED <<age, waited, login, asked>>
      BY DEF Send, auth
    <3>3. QED
      BY <2>1, <2>2, <3>1, <3>2 DEF TimersAgree, Waits, InHandler
  <2>3. CASE q # r
    BY <2>1, <2>3, OthersStay DEF TypeOK, Send, auth
  <2>4. QED
    BY <2>2, <2>3
<1>3. MetricsExact'
  <2>1. \A q \in Requests : (InHandler(q)' <=> InHandler(q)) /\ SameEnd(q)
    BY DEF Send, TypeOK, InHandler, SameEnd
  <2>2. \A q \in Left : kind'[q] = kind[q]
    BY DEF Send, TypeOK, Left
  <2>3. Handled' = Handled /\ Counted' = Counted /\ LeftLogins' = LeftLogins
    BY <2>1, <2>2, SetsStay
  <2>4. QED
    BY <2>3 DEF MetricsExact, Send, metrics
<1>4. QED
  BY <1>1, <1>2, <1>3

\* A request passes its guards: its handler begins, or it ends at once.
LEMMA EntersInv ==
    ASSUME GatewayInv, NEW r \in Requests, GuardPasses(r), Enters(r)
    PROVE  GatewayInv'
<1> USE DEF GatewayInv
<1>1. /\ at' = [at EXCEPT ![r] = "first"] /\ waited' = [waited EXCEPT ![r] = 0]
      /\ login' = IF kind[r] = "login" THEN [login EXCEPT ![r] = "asking"] ELSE login
      /\ kind[r] # "metrics" /\ inFlight' = inFlight + 1 /\ at[r] = "guard"
      /\ UNCHANGED <<told, age, counted, kind, asked, errors, failures, sessions>>
  BY DEF Enters, Asks, GuardPasses
<1>2. TypeOK'
  <2>1. inFlight' \in Nat
    BY <1>1, MetricTypes
  <2>2. QED
    BY <1>1, <2>1, Zeros DEF TypeOK
<1>3. ASSUME NEW q \in Requests PROVE TimersAgree(q)'
  <2>1. TimersAgree(q)
    OBVIOUS
  <2>2. CASE q = r
    <3>1. at'[r] = "first" /\ waited'[r] = 0 /\ UNCHANGED <<kind, told, age, asked>>
      BY <1>1 DEF TypeOK
    <3>2. login[r] = "no" /\ asked[r] = 0 /\ waited[r] = 0
      BY <1>1, <2>1, <2>2 DEF TimersAgree
    <3>3. login'[r] = IF kind[r] = "login" THEN "asking" ELSE "no"
      BY <1>1, <3>2 DEF TypeOK
    <3>4. kind[r] = "login" => Waits(r)
      BY <1>1, <2>1, <2>2 DEF TimersAgree, Unguarded, Failing, Waits
    <3>5. /\ kind[r] \in Unguarded /\ Waits(r) => age[r] = 0
          /\ told[r] \in {"waiting", "gave up"} /\ (kind[r] \in Unguarded => told[r] # "gave up")
          /\ kind[r] # "metrics" /\ asked'[r] = 0
      BY <1>1, <2>1, <2>2, <3>1, <3>2 DEF TimersAgree
    <3>6. kind[r] = "login" => kind[r] \in Unguarded
      BY DEF Unguarded, Failing
    <3>7. QED
      BY <2>2, <3>1, <3>3, <3>4, <3>5, <3>6 DEF TimersAgree, Waits, InHandler
  <2>3. CASE q # r
    BY <1>1, <2>1, <2>3, OthersStay DEF TypeOK
  <2>4. QED
    BY <2>2, <2>3
<1>4. MetricsExact'
  BY <1>1, EnteringCounts DEF MetricsExact
<1>5. QED
  BY <1>2, <1>3, <1>4

LEMMA AtOnceInv ==
    ASSUME GatewayInv, NEW r \in Requests, GuardPasses(r), AtOnce(r)
    PROVE  GatewayInv'
<1> USE DEF GatewayInv
<1>1. PICK x \in {"invalid", "left"}, y \in {"error", "body"} :
        /\ at' = [at EXCEPT ![r] = x] /\ waited' = [waited EXCEPT ![r] = 0]
        /\ told' = IF Waits(r) THEN [told EXCEPT ![r] = y] ELSE told
        /\ age' = IF Waits(r) THEN [age EXCEPT ![r] = 0] ELSE age
  BY DEF AtOnce, Asks, Tells
<1>2. /\ counted' = counted + 1 /\ at[r] = "guard"
      /\ UNCHANGED <<kind, inFlight, login, asked, errors, failures, sessions>>
  BY DEF AtOnce, GuardPasses
<1>3. TypeOK'
  <2>1. counted' \in Nat
    BY <1>2, MetricTypes
  <2>2. /\ at' \in [Requests -> {"idle", "guard", "refused", "invalid", "first", "second", "left", "lost"}]
        /\ told' \in [Requests -> {"nothing", "waiting", "body", "ok", "error", "gave up"}]
        /\ age' \in [Requests -> 0..ClientTimeout]
        /\ waited' \in [Requests -> 0..GatewayTimeout]
    BY <1>1, Zeros DEF TypeOK
  <2>3. QED
    BY <1>2, <2>1, <2>2 DEF TypeOK
<1>4. ASSUME NEW q \in Requests PROVE TimersAgree(q)'
  <2>1. TimersAgree(q)
    OBVIOUS
  <2>2. CASE q = r
    <3>1. at'[r] = x /\ told'[r] = IF Waits(r) THEN y ELSE told[r]
      BY <1>1 DEF TypeOK
    <3>2. login[r] = "no" /\ UNCHANGED <<kind, login, asked>>
      BY <1>2, <2>1, <2>2 DEF TimersAgree
    <3>3. QED
      BY <2>1, <2>2, <3>1, <3>2 DEF TimersAgree, Waits, InHandler
  <2>3. CASE q # r
    BY <1>1, <1>2, <2>1, <2>3, OthersStay DEF TypeOK
  <2>4. QED
    BY <2>2, <2>3
<1>5. MetricsExact'
  BY <1>2, AtOnceCounts DEF MetricsExact
<1>6. QED
  BY <1>3, <1>4, <1>5

\* The guard lets a request through, or refuses it.
LEMMA GuardInv ==
    ASSUME GatewayInv, NEW r \in Requests, Guarded(r)
    PROVE  GatewayInv'
<1> USE DEF GatewayInv
<1>1. CASE GuardPasses(r)
  BY <1>1, EntersInv, AtOnceInv DEF GuardPasses
<1>2. CASE GuardRefuses(r)
  <2>1. TypeOK'
    BY <1>2, Zeros DEF TypeOK, GuardRefuses, Asks, Tells, auth, metrics
  <2>2. ASSUME NEW q \in Requests PROVE TimersAgree(q)'
    <3>1. TimersAgree(q)
      OBVIOUS
    <3>2. CASE q = r
      BY <1>2, <3>1, <3>2 DEF TypeOK, TimersAgree, GuardRefuses, Asks, Tells, auth, Waits, InHandler
    <3>3. CASE q # r
      BY <1>2, <3>1, <3>3, OthersStay DEF TypeOK, GuardRefuses, Asks, Tells, auth
    <3>4. QED
      BY <3>2, <3>3
  <2>3. \A q \in Requests : (InHandler(q)' <=> InHandler(q)) /\ SameEnd(q)
    BY <1>2 DEF GuardRefuses, Asks, TypeOK, InHandler, SameEnd
  <2>4. MetricsExact'
    BY <1>2, <2>3, SetsStay DEF MetricsExact, GuardRefuses, metrics
  <2>5. QED
    BY <2>1, <2>2, <2>4
<1>3. QED
  BY <1>1, <1>2 DEF Guarded

\* What a handler that leaves does to types, whatever it is told.
LEMMA LeavingTypes ==
    ASSUME GatewayInv, NEW r \in Requests, InHandler(r), NEW outcome \in {"ok", "error"},
           Leaves(r, outcome), kind' = kind
    PROVE  /\ at' \in [Requests -> {"idle", "guard", "refused", "invalid", "first", "second", "left", "lost"}]
           /\ told' \in [Requests -> {"nothing", "waiting", "body", "ok", "error", "gave up"}]
           /\ age' \in [Requests -> 0..ClientTimeout]
           /\ waited' \in [Requests -> 0..GatewayTimeout]
           /\ inFlight' \in Nat /\ counted' \in Nat
<1> USE DEF GatewayInv
<1>1. inFlight' = Cardinality(Handled') /\ counted' = Cardinality(Counted')
  BY LeavingCounts DEF Leaves, MetricsExact
<1>2. Handled' \subseteq Requests /\ Counted' \subseteq Requests
  BY DEF Handled, Counted
<1>3. inFlight' \in Nat /\ counted' \in Nat
  BY <1>1, <1>2, FS_Subset, FS_CardinalityType, TimeoutAssumption
<1>4. /\ at' \in [Requests -> {"idle", "guard", "refused", "invalid", "first", "second", "left", "lost"}]
      /\ waited' \in [Requests -> 0..GatewayTimeout]
  BY Zeros DEF TypeOK, Leaves, Asks
<1>5. /\ told' \in [Requests -> {"nothing", "waiting", "body", "ok", "error", "gave up"}]
      /\ age' \in [Requests -> 0..ClientTimeout]
  BY Zeros DEF TypeOK, Leaves, Tells
<1>6. QED
  BY <1>3, <1>4, <1>5

\* A handler whose request fails, while the auth service goes on or has ended.
LEMMA FailedInv ==
    ASSUME GatewayInv, NEW r \in Requests, InHandler(r), Failed(r),
           MidpointDone(r) \/ UNCHANGED auth
    PROVE  GatewayInv'
<1> USE DEF GatewayInv
<1> DEFINE outcome == IF at[r] = "second" THEN "ok" ELSE "error"
<1>1. Leaves(r, outcome) /\ outcome \in {"ok", "error"} /\ kind' = kind /\ sessions' = sessions
  BY DEF Failed
<1>2. /\ errors' = IF kind[r] = "recordings" THEN errors ELSE errors + 1
  BY DEF Failed
<1>3. failures' = IF kind[r] \in Failing THEN [failures EXCEPT ![kind[r]] = @ + 1] ELSE failures
  BY DEF Failed
<1> HIDE DEF outcome
<1>4. TypeOK'
  <2>1. errors' \in Nat /\ failures' \in [Failing -> Nat]
    BY <1>2, <1>3, MetricTypes
  <2>2. login' \in [Requests -> {"no", "asking", "fallen back", "hung"}] /\ asked' \in [Requests -> 0..MidpointTimeout]
    BY Zeros DEF MidpointDone, auth, TypeOK
  <2>3. QED
    BY <1>1, <2>1, <2>2, LeavingTypes DEF TypeOK
<1>5. ASSUME NEW q \in Requests PROVE TimersAgree(q)'
  <2>1. TimersAgree(q)
    OBVIOUS
  <2>2. CASE q = r
    <3>1. at'[r] = "left"
      BY <1>1 DEF Leaves, Asks, TypeOK
    <3>2. told'[r] = IF ~Waits(r) THEN told[r] ELSE IF outcome = "ok" THEN "body" ELSE outcome
      BY <1>1 DEF Leaves, Tells, TypeOK
    <3>3. login'[r] = "no" \/ (login'[r] = login[r] /\ asked'[r] = asked[r])
      BY DEF MidpointDone, auth, TypeOK
    <3>4. kind'[r] = kind[r] /\ (at[r] = "second" => kind[r] = "registerSip")
      BY <1>1, <2>1, <2>2 DEF TimersAgree
    <3>5. kind[r] \in Unguarded => outcome = "error"
      <4>1. kind[r] # "metrics"
        BY <2>1, <2>2 DEF TimersAgree
      <4>2. QED
        BY <3>4, <4>1 DEF outcome, Unguarded, Failing
    <3>6. login[r] \in {"no", "asking", "fallen back", "hung"}
      BY DEF TypeOK
    <3>7. QED
      BY <2>1, <2>2, <3>1, <3>2, <3>3, <3>4, <3>5, <3>6, <1>1 DEF TimersAgree, Waits, Unguarded, Failing, InHandler
  <2>3. CASE q # r
    BY <1>1, <2>1, <2>3, OthersStay DEF TypeOK, Leaves, Asks, Tells, MidpointDone, auth
  <2>4. QED
    BY <2>2, <2>3
<1>6. MetricsExact'
  <2>1. /\ inFlight' = Cardinality(Handled') /\ counted' = Cardinality(Counted')
        /\ Cardinality(LeftLogins') = Cardinality(LeftLogins) + (IF kind[r] = "login" THEN 1 ELSE 0)
    BY <1>1, LeavingCounts DEF Leaves, MetricsExact
  <2>2. /\ failures'["login"] = failures["login"] + (IF kind[r] = "login" THEN 1 ELSE 0)
        /\ failures'["register"] = failures["register"] + (IF kind[r] = "register" THEN 1 ELSE 0)
    BY <1>3, MetricTypes DEF Failing
  <2>3. {failures["login"], failures["register"]} \subseteq Nat
    BY MetricTypes DEF Failing
  <2>4. /\ sessions + failures["login"] = Cardinality(LeftLogins)
        /\ failures["login"] + failures["register"] <= errors
    BY DEF MetricsExact
  <2>5. failures'["login"] + failures'["register"] <= errors'
    BY <1>2, <2>2, <2>3, <2>4, MetricTypes
  <2>6. sessions' + failures'["login"] = Cardinality(LeftLogins')
    BY <1>1, <2>1, <2>2, <2>3, <2>4, MetricTypes, Counts
  <2>7. QED
    BY <2>1, <2>5, <2>6 DEF MetricsExact
<1>7. QED
  BY <1>4, <1>5, <1>6

\* The service answers, and registerSip may go on to its second request.
LEMMA AnswerInv ==
    ASSUME GatewayInv, NEW r \in Requests, ServiceAnswers(r)
    PROVE  GatewayInv'
<1> USE DEF GatewayInv
<1>1. InHandler(r) /\ kind' = kind /\ errors' = errors /\ failures' = failures
  BY DEF ServiceAnswers
<1>2. sessions' = IF kind[r] = "login" THEN sessions + 1 ELSE sessions
  BY DEF ServiceAnswers
<1>3. /\ login' = [login EXCEPT ![r] = "no"] /\ asked' = [asked EXCEPT ![r] = 0]
      /\ login' \in [Requests -> {"no", "asking", "fallen back", "hung"}] /\ asked' \in [Requests -> 0..MidpointTimeout]
  BY Zeros DEF ServiceAnswers, MidpointDone, TypeOK
<1>4. sessions' \in Nat
  BY <1>2, MetricTypes
<1>5. CASE kind[r] = "registerSip" /\ Asks(r, "second") /\ at[r] = "first"
             /\ UNCHANGED <<told, age, inFlight, counted>>
  <2>1. TypeOK'
    BY <1>1, <1>3, <1>4, <1>5, Zeros DEF TypeOK, Asks
  <2>2. ASSUME NEW q \in Requests PROVE TimersAgree(q)'
    <3>1. TimersAgree(q)
      OBVIOUS
    <3>2. CASE q = r
      <4>1. at'[r] = "second" /\ login'[r] = "no"
        BY <1>3, <1>5 DEF Asks, TypeOK
      <4>2. QED
        BY <1>1, <1>5, <3>1, <3>2, <4>1 DEF TimersAgree, Waits, Unguarded, Failing, InHandler
    <3>3. CASE q # r
      BY <1>1, <1>3, <1>5, <3>1, <3>3, OthersStay DEF TypeOK, Asks
    <3>4. QED
      BY <3>2, <3>3
  <2>3. \A q \in Requests : (InHandler(q)' <=> InHandler(q)) /\ SameEnd(q)
    BY <1>5 DEF Asks, TypeOK, InHandler, SameEnd
  <2>4. MetricsExact'
    BY <1>1, <1>2, <1>5, <2>3, SetsStay DEF MetricsExact
  <2>5. QED
    BY <2>1, <2>2, <2>4
<1>6. ASSUME NEW outcome \in {"ok", "error"}, Leaves(r, outcome) PROVE GatewayInv'
  <2>1. TypeOK'
    <3>1. /\ at' \in [Requests -> {"idle", "guard", "refused", "invalid", "first", "second", "left", "lost"}]
          /\ told' \in [Requests -> {"nothing", "waiting", "body", "ok", "error", "gave up"}]
          /\ age' \in [Requests -> 0..ClientTimeout]
          /\ waited' \in [Requests -> 0..GatewayTimeout]
          /\ inFlight' \in Nat /\ counted' \in Nat
      BY <1>1, <1>6, LeavingTypes
    <3>2. QED
      BY <1>1, <1>3, <1>4, <3>1 DEF TypeOK
  <2>2. ASSUME NEW q \in Requests PROVE TimersAgree(q)'
    <3>1. TimersAgree(q)
      OBVIOUS
    <3>2. CASE q = r
      <4>1. at'[r] = "left" /\ login'[r] = "no" /\ told'[r] \in {told[r], "body", "error"} \ {"waiting"}
        BY <1>3, <1>6 DEF Leaves, Asks, Tells, TypeOK, Waits
      <4>2. QED
        BY <1>1, <1>6, <3>1, <3>2, <4>1 DEF TimersAgree, Waits, InHandler
    <3>3. CASE q # r
      <4>1. kind'[q] = kind[q] /\ login'[q] = login[q] /\ asked'[q] = asked[q]
        BY <1>1, <1>3, <3>3 DEF TypeOK
      <4>2. at'[q] = at[q] /\ told'[q] = told[q] /\ age'[q] = age[q] /\ waited'[q] = waited[q]
        <5>1. /\ at' = [at EXCEPT ![r] = "left"] /\ waited' = [waited EXCEPT ![r] = 0]
              /\ (told' = told \/ told' = [told EXCEPT ![r] = IF outcome = "ok" THEN "body" ELSE outcome])
              /\ (age' = [age EXCEPT ![r] = 0] \/ age' = age)
          BY ONLY <1>6 DEF Leaves, Asks, Tells
        <5>2. /\ DOMAIN at = Requests /\ DOMAIN waited = Requests /\ DOMAIN told = Requests
              /\ DOMAIN age = Requests
          BY DEF TypeOK
        <5> HIDE DEF GatewayInv
        <5>3. QED
          BY ONLY <3>3, <5>1, <5>2, q \in Requests
      <4>3. QED
        BY ONLY <3>1, <4>1, <4>2, OthersStay, Zenon
    <3>4. QED
      BY <3>2, <3>3
  <2>3. /\ inFlight' = Cardinality(Handled') /\ counted' = Cardinality(Counted')
        /\ Cardinality(LeftLogins') = Cardinality(LeftLogins) + (IF kind[r] = "login" THEN 1 ELSE 0)
    BY <1>1, <1>6, LeavingCounts DEF Leaves, MetricsExact
  <2>4. sessions + failures["login"] = Cardinality(LeftLogins) /\ failures["login"] \in Nat
    BY MetricTypes DEF MetricsExact, Failing
  <2>5. sessions' + failures'["login"] = Cardinality(LeftLogins')
    BY <1>1, <1>2, <2>3, <2>4, MetricTypes, Counts
  <2>6. MetricsExact'
    BY <1>1, <2>3, <2>5 DEF MetricsExact
  <2>7. QED
    BY <2>1, <2>2, <2>6
<1>7. QED
  BY <1>5, <1>6 DEF ServiceAnswers

\* The browser gives up: never on a login or a registration, whose gateway's
\* time would have been over before.
LEMMA GivesUpInv ==
    ASSUME GatewayInv, NEW r \in Requests, ClientGivesUp(r)
    PROVE  GatewayInv'
<1> USE DEF GatewayInv
<1>1. Waits(r) /\ age[r] = ClientTimeout /\ TimersAgree(r)
  BY DEF ClientGivesUp
<1>2. /\ told' = [told EXCEPT ![r] = "gave up"] /\ age' = [age EXCEPT ![r] = 0]
      /\ UNCHANGED <<kind, at, waited, login, asked>> /\ UNCHANGED metrics
  BY <1>1 DEF ClientGivesUp, Tells, auth
<1>3. kind[r] \notin Unguarded
  <2>1. waited[r] \in 0..GatewayTimeout /\ age[r] \in 0..ClientTimeout
    BY DEF TypeOK
  <2>2. kind[r] \in Unguarded => age[r] = waited[r]
    BY <1>1 DEF TimersAgree
  <2>3. \A m \in 0..GatewayTimeout : m # ClientTimeout
    BY TimeoutAssumption
  <2>4. QED
    BY <1>1, <2>1, <2>2, <2>3
<1>4. TypeOK'
  BY <1>2, Zeros DEF TypeOK, metrics
<1>5. ASSUME NEW q \in Requests PROVE TimersAgree(q)'
  <2>1. TimersAgree(q)
    OBVIOUS
  <2>2. CASE q = r
    <3>1. told'[r] = "gave up" /\ at[r] # "idle"
      BY <1>1, <1>2 DEF TypeOK, TimersAgree, Waits
    <3>2. login[r] = "no"
      BY <1>1, <1>3 DEF TimersAgree, Unguarded, Failing
    <3>3. QED
      BY <1>2, <1>3, <2>1, <2>2, <3>1, <3>2 DEF TimersAgree, Waits, InHandler
  <2>3. CASE q # r
    BY <1>2, <2>1, <2>3, OthersStay DEF TypeOK
  <2>4. QED
    BY <2>2, <2>3
<1>6. MetricsExact'
  <2>1. \A q \in Requests : (InHandler(q)' <=> InHandler(q)) /\ SameEnd(q)
    BY <1>2 DEF InHandler, SameEnd
  <2>2. QED
    BY <1>2, <2>1, SetsStay DEF MetricsExact, metrics
<1>7. QED
  BY <1>4, <1>5, <1>6

\* The auth service's request to midPoint ends: after its time limit the browser
\* has its error, for the gateway waited less than that.
LEMMA MidpointInv ==
    ASSUME GatewayInv, NEW r \in Requests, MidpointTimesOut(r) \/ MidpointAnswersLate(r) \/ AnswerCutOff(r)
    PROVE  GatewayInv'
<1> USE DEF GatewayInv
<1>1. UNCHANGED requests /\ UNCHANGED metrics /\ login[r] = "asking" /\ TimersAgree(r)
  BY DEF MidpointTimesOut, MidpointAnswersLate, AnswerCutOff
<1>2. PICK l \in {"no", "fallen back", "hung"} :
        /\ login' = [login EXCEPT ![r] = l] /\ asked' = [asked EXCEPT ![r] = 0]
        /\ l = "fallen back" => asked[r] = MidpointTimeout
  BY DEF MidpointTimesOut, MidpointAnswersLate, MidpointDone, AnswerCutOff
<1>3. l = "fallen back" => told[r] = "error"
  <2>1. waited[r] \in 0..GatewayTimeout /\ asked[r] \in 0..MidpointTimeout
    BY DEF TypeOK
  <2>2. told[r] = "error" \/ asked[r] = waited[r]
    BY <1>1 DEF TimersAgree
  <2>3. QED
    BY <1>2, <2>1, <2>2, ShortWait
<1>4. TypeOK'
  BY <1>1, <1>2, Zeros DEF TypeOK, requests, metrics
<1>5. ASSUME NEW q \in Requests PROVE TimersAgree(q)'
  <2>1. TimersAgree(q)
    OBVIOUS
  <2>2. CASE q = r
    <3>1. at[r] \notin {"idle", "guard"} /\ login'[r] = l
      BY <1>1, <1>2 DEF TypeOK, TimersAgree
    <3>2. QED
      BY <1>1, <1>2, <1>3, <2>1, <2>2, <3>1 DEF TimersAgree, Waits, InHandler, requests
  <2>3. CASE q # r
    BY <1>1, <1>2, <2>1, <2>3, OthersStay DEF TypeOK, requests
  <2>4. QED
    BY <2>2, <2>3
<1>6. MetricsExact'
  <2>1. \A q \in Requests : (InHandler(q)' <=> InHandler(q)) /\ SameEnd(q)
    BY <1>1 DEF InHandler, SameEnd, requests
  <2>2. QED
    BY <1>1, <2>1, SetsStay DEF MetricsExact, metrics, requests
<1>7. QED
  BY <1>4, <1>5, <1>6

\* A restart of the gateway loses every request, and the metrics with them.
LEMMA RestartInv == GatewayInv /\ GatewayRestarts => GatewayInv'
<1> SUFFICES ASSUME GatewayInv, GatewayRestarts PROVE GatewayInv'
  OBVIOUS
<1> USE DEF GatewayInv
<1>1. TypeOK'
  BY Zeros DEF TypeOK, GatewayRestarts, auth
<1>2. ASSUME NEW q \in Requests PROVE TimersAgree(q)'
  <2>1. TimersAgree(q) /\ kind'[q] = kind[q] /\ login'[q] = login[q] /\ asked'[q] = asked[q]
    BY DEF GatewayRestarts, auth
  <2>2. at'[q] = IF at[q] = "idle" THEN "idle" ELSE "lost"
    BY DEF GatewayRestarts
  <2>3. told'[q] = (IF Waits(q) \/ told[q] = "body" THEN "error" ELSE told[q]) /\ age'[q] = 0 /\ waited'[q] = 0
    BY DEF GatewayRestarts
  <2>4. QED
    BY <2>1, <2>2, <2>3 DEF TimersAgree, Waits, InHandler
<1>3. MetricsExact'
  <2>1. Handled' = {} /\ Counted' = {} /\ LeftLogins' = {}
    BY DEF GatewayRestarts, Handled, InHandler, Counted, Left, LeftLogins
  <2>2. QED
    BY <2>1, FS_EmptySet DEF GatewayRestarts, MetricsExact, Failing
<1>4. QED
  BY <1>1, <1>2, <1>3

\* Time passes for every timer that runs, so timers that agree go on to.
LEMMA TickInv == GatewayInv /\ Tick => GatewayInv'
<1> SUFFICES ASSUME GatewayInv, Tick PROVE GatewayInv'
  OBVIOUS
<1> USE DEF GatewayInv
<1>1. UNCHANGED <<kind, at, told, login>> /\ UNCHANGED metrics
  BY DEF Tick
<1>2. ASSUME NEW q \in Requests
      PROVE  /\ waited'[q] = IF Limited(q) THEN waited[q] + 1 ELSE waited[q]
             /\ age'[q] = IF Waits(q) THEN age[q] + 1 ELSE age[q]
             /\ asked'[q] = IF login[q] = "asking" THEN asked[q] + 1 ELSE asked[q]
  BY DEF Tick
<1>3. ASSUME NEW q \in Requests
      PROVE  /\ waited'[q] \in 0..GatewayTimeout
             /\ age'[q] \in 0..ClientTimeout
             /\ asked'[q] \in 0..MidpointTimeout
  <2>1. /\ Limited(q) => waited[q] # GatewayTimeout
        /\ Waits(q) => age[q] # ClientTimeout
        /\ login[q] = "asking" => asked[q] # MidpointTimeout
    BY DEF Tick, Due
  <2>2. waited[q] \in 0..GatewayTimeout /\ age[q] \in 0..ClientTimeout /\ asked[q] \in 0..MidpointTimeout
    BY DEF TypeOK
  <2> HIDE DEF GatewayInv
  <2>3. \A N \in Nat : \A m \in 0..N : m # N => m + 1 \in 0..N
    OBVIOUS
  <2>4. QED
    BY <1>2, <2>1, <2>2, <2>3, TimeoutAssumption
<1>4. TypeOK'
  <2>1. /\ waited' = [q \in Requests |-> waited'[q]]
        /\ age' = [q \in Requests |-> age'[q]]
        /\ asked' = [q \in Requests |-> asked'[q]]
    BY DEF Tick
  <2>2. QED
    BY <1>1, <1>3, <2>1 DEF TypeOK, metrics
<1>5. ASSUME NEW q \in Requests PROVE TimersAgree(q)'
  <2>1. TimersAgree(q) /\ (Waits(q)' <=> Waits(q))
    BY <1>1 DEF Waits
  <2>2. /\ at[q] = "idle" => ~Limited(q) /\ ~Waits(q) /\ login[q] # "asking"
        /\ at[q] = "guard" => ~Limited(q) /\ login[q] # "asking"
    BY <2>1 DEF TimersAgree, InHandler, Limited, Waits
  <2>3. kind[q] \in Unguarded /\ Waits(q) => Limited(q) /\ age'[q] = waited'[q]
    <3>1. at[q] = "guard" => kind[q] \notin Unguarded
      BY DEF Tick, Due
    <3>2. kind[q] \in Unguarded => kind[q] # "recordings"
      BY DEF Unguarded, Failing
    <3>3. QED
      BY <1>2, <2>1, <3>1, <3>2 DEF TimersAgree, InHandler, Limited
  <2>4. login[q] = "asking" /\ told[q] # "error" => Limited(q) /\ asked'[q] = waited'[q]
    BY <1>2, <2>1, <2>3 DEF TimersAgree, Unguarded, Failing
  <2>5. QED
    BY <1>1, <1>2, <2>1, <2>2, <2>3, <2>4 DEF TimersAgree, Waits, InHandler
<1>6. MetricsExact'
  <2>1. \A q \in Requests : (InHandler(q)' <=> InHandler(q)) /\ SameEnd(q)
    BY <1>1 DEF InHandler, SameEnd
  <2>2. QED
    BY <1>1, <2>1, SetsStay DEF MetricsExact, metrics
<1>7. QED
  BY <1>4, <1>5, <1>6

\* Stuttering changes nothing the invariant is about.
LEMMA StutterInv == GatewayInv /\ UNCHANGED vars => GatewayInv'
<1> SUFFICES ASSUME GatewayInv, UNCHANGED vars PROVE GatewayInv'
  OBVIOUS
<1>1. UNCHANGED requests /\ UNCHANGED auth /\ UNCHANGED metrics
  BY DEF vars
<1>2. TypeOK' /\ \A q \in Requests : TimersAgree(q)'
  BY <1>1 DEF GatewayInv, TypeOK, TimersAgree, Waits, InHandler, requests, auth, metrics
<1>3. MetricsExact'
  <2>1. \A q \in Requests : (InHandler(q)' <=> InHandler(q)) /\ SameEnd(q)
    BY <1>1 DEF InHandler, SameEnd, requests
  <2>2. QED
    BY <1>1, <2>1, SetsStay DEF GatewayInv, MetricsExact, metrics, requests
<1>4. QED
  BY <1>2, <1>3 DEF GatewayInv

\* The headers of an answer have come, and now its body.
LEMMA BodyInv ==
    ASSUME GatewayInv, NEW r \in Requests, BodyComes(r)
    PROVE  GatewayInv'
<1> USE DEF GatewayInv
<1>1. /\ told[r] = "body" /\ told' = [told EXCEPT ![r] = "ok"]
      /\ UNCHANGED <<kind, at, age, waited, login, asked>> /\ UNCHANGED metrics
  BY DEF BodyComes, auth
<1>2. TypeOK'
  BY <1>1 DEF TypeOK, metrics
<1>3. ASSUME NEW q \in Requests PROVE TimersAgree(q)'
  <2>1. TimersAgree(q)
    OBVIOUS
  <2>2. CASE q = r
    <3>1. told'[r] = "ok"
      BY <1>1 DEF TypeOK
    <3>2. QED
      BY <1>1, <2>1, <2>2, <3>1 DEF TimersAgree, Waits, InHandler
  <2>3. CASE q # r
    BY <1>1, <2>1, <2>3, OthersStay DEF TypeOK
  <2>4. QED
    BY <2>2, <2>3
<1>4. MetricsExact'
  <2>1. \A q \in Requests : (InHandler(q)' <=> InHandler(q)) /\ SameEnd(q)
    BY <1>1 DEF InHandler, SameEnd
  <2>2. QED
    BY <1>1, <2>1, SetsStay DEF MetricsExact, metrics
<1>5. QED
  BY <1>2, <1>3, <1>4

\* The inductive invariant of the gateway's requests: the types, the metrics, and
\* what the timers of a request know of each other.
THEOREM GatewayInvariance == Spec => []GatewayInv
<1>1. ASSUME GatewayInv, [Next]_vars PROVE GatewayInv'
  <2>1. ASSUME NEW r \in Requests, TimesOut(r) \/ Answered(r) PROVE GatewayInv'
    <3>1. CASE GatewayTimesOut(r)
      BY <1>1, <3>1, FailedInv DEF GatewayTimesOut, Limited
    <3>2. CASE ServiceFails(r)
      BY <1>1, <3>2, FailedInv DEF ServiceFails
    <3>3. QED
      BY <1>1, <2>1, <3>1, <3>2, AnswerInv, GivesUpInv, MidpointInv, BodyInv DEF TimesOut, Answered
  <2>2. QED
    BY <1>1, <2>1, SendInv, GuardInv, RestartInv, TickInv, StutterInv DEF Next
<1>2. QED
  BY <1>1, InitInv, PTL DEF Spec

\* The types, for any number of requests.
THEOREM GatewayTypes == Spec => []TypeOK
BY GatewayInvariance, PTL DEF GatewayInv

\* The gauge is the number of handlers under way, what a handler or the pipe has
\* ended is counted once, and every login whose handler has ended is a session or
\* a failure, under any interleaving, failure, timeout and restart
\* (metrics.interceptor.ts, app.controller.ts, main.ts).
THEOREM MetricsAreExact == Spec => []MetricsExact
BY GatewayInvariance, PTL DEF GatewayInv

\* A browser never gives up on a login or a registration before the gateway has
\* answered it, as the gateway's 10 s are less than the browser's 15 s.
THEOREM LoginsAlwaysTold == Spec => []LoginsAreTold
<1>1. GatewayInv => LoginsAreTold
  BY DEF GatewayInv, TimersAgree, LoginsAreTold
<1>2. QED
  BY <1>1, GatewayInvariance, PTL

\* When the auth service falls back on the local password because midPoint did
\* not answer for 30 s, the browser has been told an error after 10 s.
THEOREM FallbackAlwaysLate == Spec => []FallbackIsLate
<1>1. GatewayInv => FallbackIsLate
  BY DEF GatewayInv, TimersAgree, FallbackIsLate
<1>2. QED
  BY <1>1, GatewayInvariance, PTL

-----------------------------------------------------------------------------
(* Time runs out for a request.                                             *)

\* What every step but a tick does to a request that goes on: its timers stay, or
\* registerSip asks its second service.
KeepsTime(q) ==
    /\ \/ ~InHandler(q) \/ at'[q] \notin {"first", "second"}
       \/ kind'[q] = kind[q] /\ at'[q] = at[q] /\ waited'[q] = waited[q]
       \/ kind[q] = "registerSip" /\ at[q] = "first" /\ at'[q] = "second" /\ waited'[q] = 0
    /\ ~Waits(q) \/ told'[q] # "waiting" \/ age'[q] = age[q]

LEMMA EachKeepsTime ==
    ASSUME GatewayInv, [Next]_vars, ~Tick, NEW q \in Requests
    PROVE  KeepsTime(q)
<1>1. /\ at \in [Requests -> {"idle", "guard", "refused", "invalid", "first", "second", "left", "lost"}]
      /\ kind \in [Requests -> Kinds \cup {"none"}]
      /\ told \in [Requests -> {"nothing", "waiting", "body", "ok", "error", "gave up"}]
      /\ age \in [Requests -> 0..ClientTimeout]
      /\ waited \in [Requests -> 0..GatewayTimeout]
  BY DEF GatewayInv, TypeOK
<1>2. at[q] = "idle" => ~Waits(q)
  BY DEF GatewayInv, TimersAgree, Waits
<1> USE DEF KeepsTime, InHandler, Waits
<1>3. ASSUME NEW r \in Requests, NEW k \in Kinds, Send(r, k) PROVE KeepsTime(q)
  BY <1>1, <1>2, <1>3 DEF Send
<1>4. ASSUME NEW r \in Requests, Guarded(r) PROVE KeepsTime(q)
  <2>1. CASE GuardPasses(r)
    BY <1>1, <2>1 DEF GuardPasses, Enters, AtOnce, Asks, Tells
  <2>2. CASE GuardRefuses(r)
    BY <1>1, <2>2 DEF GuardRefuses, Asks, Tells
  <2> QED
    BY <1>4, <2>1, <2>2 DEF Guarded
<1>5. ASSUME NEW r \in Requests, NEW outcome \in {"ok", "error"}, Leaves(r, outcome), kind' = kind
      PROVE  KeepsTime(q)
  BY <1>1, <1>5 DEF Leaves, Asks, Tells
<1>6. ASSUME NEW r \in Requests, Failed(r) PROVE KeepsTime(q)
  <2>1. kind' = kind /\ \E outcome \in {"ok", "error"} : Leaves(r, outcome)
    BY <1>6 DEF Failed
  <2> QED
    BY <1>5, <2>1
<1>7. ASSUME NEW r \in Requests, Answered(r) PROVE KeepsTime(q)
  <2>1. CASE ServiceAnswers(r)
    <3>1. CASE kind[r] = "registerSip" /\ at[r] = "first" /\ Asks(r, "second") /\ UNCHANGED <<told, age>>
      BY <1>1, <2>1, <3>1 DEF ServiceAnswers, Asks
    <3>2. CASE \E outcome \in {"ok", "error"} : Leaves(r, outcome)
      <4>1. kind' = kind
        BY <2>1 DEF ServiceAnswers
      <4> QED
        BY <1>5, <3>2, <4>1
    <3> QED
      BY <2>1, <3>1, <3>2 DEF ServiceAnswers
  <2>2. CASE ServiceFails(r)
    BY <1>6, <2>2 DEF ServiceFails
  <2>3. CASE MidpointAnswersLate(r)
    BY <2>3 DEF MidpointAnswersLate, requests
  <2>4. CASE AnswerCutOff(r)
    BY <2>4 DEF AnswerCutOff, requests
  <2>5. CASE BodyComes(r)
    BY <1>1, <2>5 DEF BodyComes
  <2> QED
    BY <1>7, <2>1, <2>2, <2>3, <2>4, <2>5 DEF Answered
<1>8. ASSUME NEW r \in Requests, TimesOut(r) PROVE KeepsTime(q)
  <2>1. CASE GatewayTimesOut(r)
    BY <1>6, <2>1 DEF GatewayTimesOut
  <2>2. CASE ClientGivesUp(r)
    BY <1>1, <2>2 DEF ClientGivesUp, Tells
  <2>3. CASE MidpointTimesOut(r)
    BY <2>3 DEF MidpointTimesOut, requests
  <2> QED
    BY <1>8, <2>1, <2>2, <2>3 DEF TimesOut
<1>9. CASE GatewayRestarts \/ UNCHANGED vars
  BY <1>1, <1>9 DEF GatewayRestarts, vars, requests
<1>10. QED
  BY <1>3, <1>4, <1>7, <1>8, <1>9 DEF Next

\* The ticks a handler has: a lemma on numbers and one on states.
LEMMA TimeLeftIs ==
    TypeOK => \A q \in Requests :
        /\ waited[q] \in 0..GatewayTimeout /\ age[q] \in 0..ClientTimeout
        /\ TimeLeft(q) = IF kind[q] = "registerSip" /\ at[q] = "first"
                           THEN 2 * GatewayTimeout - waited[q] ELSE GatewayTimeout - waited[q]
<1> SUFFICES ASSUME TypeOK, NEW q \in Requests
             PROVE  /\ waited[q] \in 0..GatewayTimeout /\ age[q] \in 0..ClientTimeout
                    /\ TimeLeft(q) = IF kind[q] = "registerSip" /\ at[q] = "first"
                         THEN 2 * GatewayTimeout - waited[q] ELSE GatewayTimeout - waited[q]
  OBVIOUS
<1>1. waited[q] \in 0..GatewayTimeout /\ age[q] \in 0..ClientTimeout
  BY Zenon DEF TypeOK
<1>2. GatewayTimeout \in Nat
  BY TimeoutAssumption
<1>3. QED
  BY <1>1, <1>2 DEF TimeLeft

LEMMA TimeLeftWillBe ==
    (TypeOK => \A q \in Requests :
        /\ waited[q] \in 0..GatewayTimeout /\ age[q] \in 0..ClientTimeout
        /\ TimeLeft(q) = IF kind[q] = "registerSip" /\ at[q] = "first"
                           THEN 2 * GatewayTimeout - waited[q] ELSE GatewayTimeout - waited[q])'
<1>1. TypeOK => \A q \in Requests :
        /\ waited[q] \in 0..GatewayTimeout /\ age[q] \in 0..ClientTimeout
        /\ TimeLeft(q) = IF kind[q] = "registerSip" /\ at[q] = "first"
                           THEN 2 * GatewayTimeout - waited[q] ELSE GatewayTimeout - waited[q]
  BY TimeLeftIs
<1>2. QED
  BY <1>1, PTL

\* With each tick a handler that does not ask MinIO has less left of its services'
\* limits and a browser that waits for headers of its own, and nothing gives them
\* time back: what RequestsEnd needs beside the fairness of time and of timers.
THEOREM TimeAlwaysRunsOut == Spec => TimeRunsOut
<1> DEFINE Goal(r) ==
             /\ Limited(r) /\ Limited(r)' =>
                   TimeLeft(r)' \in 0..TimeLeft(r) /\ (Tick => TimeLeft(r)' < TimeLeft(r))
             /\ Waits(r) /\ Waits(r)' =>
                   age'[r] \in age[r]..ClientTimeout /\ (Tick => age'[r] > age[r])
<1>1. ASSUME GatewayInv, GatewayInv', [Next]_vars, NEW q \in Requests PROVE Goal(q)
  <2>1. TypeOK /\ TypeOK'
    BY <1>1 DEF GatewayInv
  <2>2. /\ waited[q] \in 0..GatewayTimeout /\ age[q] \in 0..ClientTimeout
        /\ TimeLeft(q) = IF kind[q] = "registerSip" /\ at[q] = "first"
                           THEN 2 * GatewayTimeout - waited[q] ELSE GatewayTimeout - waited[q]
    BY <2>1, TimeLeftIs
  <2>3. /\ waited'[q] \in 0..GatewayTimeout /\ age'[q] \in 0..ClientTimeout
        /\ TimeLeft(q)' = IF kind'[q] = "registerSip" /\ at'[q] = "first"
                           THEN 2 * GatewayTimeout - waited'[q] ELSE GatewayTimeout - waited'[q]
    BY <2>1, TimeLeftWillBe
  <2>4. GatewayTimeout \in Nat /\ ClientTimeout \in Nat
    BY TimeoutAssumption
  <2>5. CASE Tick
    <3>1. kind'[q] = kind[q] /\ at'[q] = at[q]
      BY <2>5 DEF Tick
    <3>2. /\ Limited(q) => waited'[q] = waited[q] + 1
          /\ Waits(q) => age'[q] = age[q] + 1
      BY <2>5 DEF Tick
    <3> QED
      BY <2>2, <2>3, <2>4, <3>1, <3>2
  <2>6. CASE ~Tick
    <3>1. KeepsTime(q)
      BY <1>1, <2>6, EachKeepsTime
    <3> QED
      BY <2>2, <2>3, <2>4, <2>6, <3>1 DEF KeepsTime, Limited, InHandler, Waits
  <2> QED
    BY <2>5, <2>6
<1>2. GatewayInv /\ GatewayInv' /\ [Next]_vars => [\A r \in Requests : Goal(r)]_vars
  BY <1>1
<1>3. QED
  BY <1>2, GatewayInvariance, PTL DEF Spec, TimeRunsOut

-----------------------------------------------------------------------------
(* The list of recordings (module RecordingsPage).                         *)

\* The names a sequence of rows has.
NameIn(rows, n) == \E i \in 1..Len(rows) : rows[i].name = n

\* The rows of a listing are finitely many: one for each stored name.
LEMMA RowsAreFinite == IsFiniteSet(Rows)
<1> DEFINE f == [n \in Listed |-> [name |-> n, modified |-> bucket[n].modified]]
<1>1. IsFiniteSet(Listed)
  <2>1. Listed \subseteq Names
    BY DEF Listed
  <2>2. QED
    BY <2>1, FS_Subset, RecordingsPageAssumption
<1>2. f \in Surjection(Listed, Rows)
  BY DEF Rows, Surjection
<1>3. QED
  BY <1>1, <1>2, FS_Surjection

LEMMA FirstNumbers == \A k \in Nat : IsFiniteSet(1..k) /\ Cardinality(1..k) = k
<1> SUFFICES ASSUME NEW k \in Nat PROVE IsFiniteSet(1..k) /\ Cardinality(1..k) = k
  OBVIOUS
<1>1. IsFiniteSet(1..k) /\ Cardinality(1..k) = IF 1 > k THEN 0 ELSE k - 1 + 1
  BY FS_Interval
<1>2. QED
  BY <1>1

\* A permutation of a finite set has each of its members, and nothing else.
LEMMA PermutationsHaveAll ==
    ASSUME NEW S, IsFiniteSet(S), NEW rows \in SetToSeqs(S)
    PROVE  /\ rows \in Seq(S)
           /\ \A x \in S : \E i \in 1..Len(rows) : rows[i] = x
           /\ \A i, j \in 1..Len(rows) : rows[i] = rows[j] => i = j
<1> DEFINE D == 1..Cardinality(S)
<1>1. Cardinality(S) \in Nat
  BY FS_CardinalityType
<1>2. rows \in [D -> S] /\ \A i, j \in D : i # j => rows[i] # rows[j]
  BY DEF SetToSeqs
<1>3. rows \in Seq(S) /\ Len(rows) = Cardinality(S)
  <2>1. \A k \in Nat : \A f \in [1..k -> S] : f \in Seq(S) /\ Len(f) = k
    OBVIOUS
  <2>2. QED
    BY <1>1, <1>2, <2>1
<1>4. rows \in Injection(D, S)
  BY <1>2 DEF Injection, IsInjective
<1>5. IsFiniteSet(D) /\ Cardinality(D) = Cardinality(S)
  BY <1>1, FirstNumbers
<1>6. rows \in Surjection(D, S)
  BY <1>4, <1>5, FS_Injection
<1>7. QED
  BY <1>2, <1>3, <1>6 DEF Surjection

\* The listing: each stored name has its row, and only one.
LEMMA ListingHasAll ==
    ASSUME PageTypeOK, NEW rows \in SetToSeqs(Rows)
    PROVE  /\ rows \in Seq([name : Names, modified : Nat])
           /\ \A n \in Names : n \in Listed <=> NameIn(rows, n)
           /\ \A i, j \in 1..Len(rows) : rows[i].name = rows[j].name => i = j
<1>1. /\ rows \in Seq(Rows)
      /\ \A x \in Rows : \E i \in 1..Len(rows) : rows[i] = x
      /\ \A i, j \in 1..Len(rows) : rows[i] = rows[j] => i = j
  BY RowsAreFinite, PermutationsHaveAll
<1>2. \A n \in Listed : n \in Names /\ bucket[n].modified \in Nat
  BY DEF Listed, PageTypeOK
<1>3. Rows \subseteq [name : Names, modified : Nat]
  BY <1>2 DEF Rows
<1>4. \A x \in Rows : x.name \in Listed /\ x = [name |-> x.name, modified |-> bucket[x.name].modified]
  BY DEF Rows
<1>5. \A i \in 1..Len(rows) : rows[i] \in Rows
  BY <1>1
<1>6. ASSUME NEW n \in Names PROVE n \in Listed <=> NameIn(rows, n)
  <2>1. CASE n \in Listed
    <3>1. [name |-> n, modified |-> bucket[n].modified] \in Rows
      BY <2>1 DEF Rows
    <3>2. QED
      BY <1>1, <2>1, <3>1 DEF NameIn
  <2>2. CASE NameIn(rows, n)
    BY <1>4, <1>5, <2>2 DEF NameIn
  <2>3. QED
    BY <2>1, <2>2
<1>7. ASSUME NEW i \in 1..Len(rows), NEW j \in 1..Len(rows), rows[i].name = rows[j].name PROVE i = j
  <2>1. rows[i] = rows[j]
    BY <1>4, <1>5, <1>7, Zenon
  <2>2. QED
    BY <1>1, <2>1
<1>8. rows \in Seq([name : Names, modified : Nat])
  <2>1. \A S, T : S \subseteq T => Seq(S) \subseteq Seq(T)
    OBVIOUS
  <2>2. QED
    BY <1>1, <1>3, <2>1
<1>9. QED
  BY <1>6, <1>7, <1>8

LEMMA PageInitInv == PageInit => PageInv
BY RecordingsPageAssumption DEF PageInit, PageInv, PageTypeOK

\* An upload changes nothing of the request.
LEMMA UploadInv ==
    ASSUME PageInv, NEW n \in Names, NEW wav \in Wavs, Upload(n, wav)
    PROVE  PageInv'
<1>1. PageTypeOK'
  <2>1. clock' \in Nat /\ uploads' \in 0..MaxUploads
    BY RecordingsPageAssumption DEF Upload, PageInv, PageTypeOK
  <2>2. [wav |-> wav, modified |-> clock'] \in [wav : Wavs, modified : Nat]
    BY <2>1
  <2>3. bucket' \in [Names -> [wav : Wavs, modified : Nat] \cup {None}]
    BY <2>2 DEF Upload, PageInv, PageTypeOK
  <2>4. since' \in [Names -> SUBSET Wavs]
    BY DEF Upload, PageInv, PageTypeOK
  <2>5. QED
    BY <2>1, <2>3, <2>4 DEF Upload, request, PageInv, PageTypeOK
<1>2. QED
  BY <1>1 DEF PageInv, Upload, request, NewestFirst

\* The listing has a row for each name whose item it asks about, and a result is
\* left as it is.
LEMMA ListEndsInv == ASSUME PageInv, ListEnds PROVE PageInv'
<1>1. PageTypeOK
  BY DEF PageInv
<1>2. /\ items' \in Seq([name : Names, modified : Nat])
      /\ \A n \in Names : n \in Listed <=> NameIn(items', n)
      /\ \A i, j \in 1..Len(items') : items'[i].name = items'[j].name => i = j
  BY <1>1, ListingHasAll DEF ListEnds
<1>3. NewestFirst(items)'
  BY DEF ListEnds, NewestFirst
<1>4. step' \in [Names -> {"none", "url", "header", "done"}]
      /\ \A n \in Names : step'[n] # "none" <=> n \in Listed
  BY DEF ListEnds
<1>5. since' \in [Names -> SUBSET Wavs]
  <2>1. \A n \in Names : bucket[n] # None => bucket[n].wav \in Wavs
    BY <1>1 DEF PageTypeOK
  <2>2. \A n \in Names : (IF bucket[n] = None THEN {} ELSE {bucket[n].wav}) \in SUBSET Wavs
    BY <2>1
  <2>3. QED
    BY <2>2 DEF ListEnds
<1>6. PageTypeOK'
  BY <1>1, <1>2, <1>4, <1>5 DEF ListEnds, PageTypeOK
<1>7. QED
  BY <1>2, <1>3, <1>4, <1>6 DEF PageInv, ListEnds, NameIn, Parties

\* What an item's callback has found has the parties of its name, and the item
\* stays one that was listed.
LEMMA ItemInv ==
    ASSUME PageInv, NEW n \in Names, NEW url, NEW duration, NEW next \in {"header", "done"},
           step[n] # "none", ItemIs(n, url, duration, next), faults' \in 0..MaxFaults
    PROVE  PageInv'
<1>1. /\ step' = [step EXCEPT ![n] = next]
      /\ UNCHANGED <<bucket, clock, uploads, page, items, since>>
  BY DEF ItemIs
<1>2. DOMAIN result' = Names
  BY DEF ItemIs, PageInv, PageTypeOK
<1>3. PageTypeOK'
  BY <1>1, <1>2 DEF PageInv, PageTypeOK
<1>4. \A m \in Names : step'[m] # "none" <=> step[m] # "none"
  BY <1>1 DEF PageInv, PageTypeOK
<1>5. \A m \in Names : result'[m] # None =>
        result'[m].caller = Parties(m).caller /\ result'[m].callee = Parties(m).callee
  BY DEF ItemIs, PageInv, PageTypeOK
<1>6. QED
  BY <1>1, <1>3, <1>4, <1>5 DEF PageInv, NewestFirst

LEMMA PresignedInv == ASSUME PageInv, NEW n \in Names, Presigned(n) PROVE PageInv'
<1>1. faults' \in 0..MaxFaults
  <2>1. faults' = faults \/ Fails
    BY DEF Presigned
  <2>2. QED
    BY <2>1, RecordingsPageAssumption DEF Fails, PageInv, PageTypeOK
<1>2. QED
  BY <1>1, ItemInv DEF Presigned

LEMMA HeaderInv ==
    ASSUME PageInv, NEW n \in Names, HeaderFails(n) \/ HeaderRead(n)
    PROVE  PageInv'
<1>1. faults' \in 0..MaxFaults
  BY RecordingsPageAssumption DEF HeaderFails, HeaderRead, Fails, PageInv, PageTypeOK
<1>2. QED
  BY <1>1, ItemInv DEF HeaderFails, HeaderRead

\* The other steps only move the request on, or leave everything.
LEMMA PageMovesInv ==
    ASSUME PageInv, PageAsked \/ ListFails \/ PageAnswered \/ UNCHANGED pageVars
    PROVE  PageInv'
<1>1. faults' \in 0..MaxFaults
  BY RecordingsPageAssumption DEF PageAsked, ListFails, PageAnswered, Fails, pageVars, PageInv, PageTypeOK
<1>2. UNCHANGED <<bucket, clock, uploads, items, step, result, since>>
  BY DEF PageAsked, ListFails, PageAnswered, pageVars
<1>3. /\ page' \in {"idle", "list", "items", "answered", "error"}
      /\ page' \in {"items", "answered"} => page \in {"items", "answered"}
  BY DEF PageAsked, ListFails, PageAnswered, pageVars, PageInv, PageTypeOK
<1>4. QED
  <2>1. PageTypeOK'
    BY <1>1, <1>2, <1>3 DEF PageInv, PageTypeOK
  <2>2. ASSUME page' \in {"items", "answered"}
        PROVE  /\ \A n \in Names : step'[n] # "none" <=> \E i \in 1..Len(items') : items'[i].name = n
               /\ \A i, j \in 1..Len(items') : items'[i].name = items'[j].name => i = j
               /\ NewestFirst(items)'
    BY <1>2, <1>3, <2>2 DEF PageInv, NewestFirst
  <2>3. \A n \in Names : result'[n] # None =>
          result'[n].caller = Parties(n).caller /\ result'[n].callee = Parties(n).callee
    BY <1>2 DEF PageInv
  <2>4. QED
    BY <2>1, <2>2, <2>3 DEF PageInv

\* The inductive invariant of the list of recordings.
THEOREM PageInvariance == PageSpec => []PageInv
<1>1. PageInv /\ [PageNext]_pageVars => PageInv'
  BY UploadInv, ListEndsInv, PresignedInv, HeaderInv, PageMovesInv DEF PageNext
<1>2. QED
  BY <1>1, PageInitInv, PTL DEF PageSpec

\* A result has the caller and the callee that the table of recordings has for
\* the file.
THEOREM PartiesAlwaysAsNotified == PageSpec => []PartiesAsNotified
<1>1. PageInv => PartiesAsNotified
  <2>1. ASSUME NEW n \in Names, Len(n.parts) = 1
        PROVE  Parties(n) = [caller |-> "", callee |-> ""] /\ NotifiedParties(n) = [caller |-> "", callee |-> ""]
    BY <2>1 DEF Parties, NotifiedParties, Part
  <2>2. ASSUME NEW n \in Names, Len(n.parts) = 3
        PROVE  /\ Parties(n) = [caller |-> n.parts[2], callee |-> n.parts[3]]
               /\ NotifiedParties(n) = [caller |-> n.parts[2], callee |-> n.parts[3]]
    BY <2>2 DEF Parties, NotifiedParties, Part
  <2>3. ASSUME PageInv, NEW n \in Names, result[n] # None, Len(n.parts) \in {1, 3}
        PROVE  result[n].caller = NotifiedParties(n).caller /\ result[n].callee = NotifiedParties(n).callee
    <3>1. result[n].caller = Parties(n).caller /\ result[n].callee = Parties(n).callee
      BY <2>3 DEF PageInv
    <3>2. Parties(n) = NotifiedParties(n)
      BY <2>1, <2>2, <2>3
    <3>3. QED
      BY <3>1, <3>2
  <2>4. QED
    BY <2>3 DEF PartiesAsNotified
<1>2. QED
  BY <1>1, PageInvariance, PTL

-----------------------------------------------------------------------------
(* The duration of a file, by induction over its chunks and over the turns   *)
(* of the reader's loop.                                                     *)

\* A set of natural numbers has a least element: what stands here for induction.
LEMMA LeastElement ==
    ASSUME NEW T, T \subseteq Nat, T # {}
    PROVE  \E n \in T : \A k \in T : n <= k
<1>1. PICK n \in T : \A k \in T : ~(<<k, n>> \in OpToRel(<, Nat))
  BY WFMin, NatLessThanWellFounded, Zenon
<1>2. \A k \in T : ~(k < n)
  BY <1>1 DEF OpToRel
<1>3. QED
  BY <1>2

Iteration(g, S, a, m, next) ==
    g \in [0..m -> S] /\ g[0] = a /\ \A i \in 1..m : g[i] = next[i][g[i - 1]]

\* A function on 0..m that is defined from its value before exists.
LEMMA IterationExists ==
    \A S, a, m, next : a \in S /\ m \in Nat /\ next \in [1..m -> [S -> S]] =>
        \E g : Iteration(g, S, a, m, next)
<1> SUFFICES ASSUME NEW S, NEW a \in S, NEW m \in Nat, NEW next \in [1..m -> [S -> S]]
             PROVE  \E g : Iteration(g, S, a, m, next)
  OBVIOUS
<1> DEFINE Iterates(g, n) == Iteration(g, S, a, n, next)
           Bad == {n \in 0..m : ~\E g : Iterates(g, n)}
<1> SUFFICES Bad = {}
  <2>1. m \in 0..m
    OBVIOUS
  <2>2. QED
    BY <2>1
<1> SUFFICES ASSUME Bad # {} PROVE FALSE
  OBVIOUS
<1>1. PICK n \in Bad : \A k \in Bad : n <= k
  <2> HIDE DEF Iterates
  <2>1. Bad \subseteq Nat
    OBVIOUS
  <2> HIDE DEF Bad
  <2> QED
    BY <2>1, LeastElement
<1>2. n \in 0..m /\ ~\E g : Iterates(g, n)
  <2> HIDE DEF Iterates
  <2> QED
    BY <1>1
<1>3. n # 0
  <2>1. Iterates([i \in 0..0 |-> a], 0)
    BY DEF Iteration
  <2> QED
    BY <1>2, <2>1
<1>4. n - 1 \in 0..m /\ n - 1 \notin Bad
  <2> HIDE DEF Bad
  <2>1. n - 1 \in 0..m /\ ~(n <= n - 1)
    BY <1>2, <1>3
  <2> QED
    BY <1>1, <2>1
<1>5. PICK g : Iterates(g, n - 1)
  BY <1>4, Zenon
<1> DEFINE h == [i \in 0..n |-> IF i = n THEN next[n][g[n - 1]] ELSE g[i]]
<1>6. Iterates(h, n)
  <2>1. g \in [0..(n - 1) -> S] /\ g[0] = a /\ \A i \in 1..(n - 1) : g[i] = next[i][g[i - 1]]
    BY <1>5 DEF Iteration
  <2>2. \A i \in 0..n : i = n \/ i \in 0..(n - 1)
    BY <1>2, <1>3
  <2>3. n - 1 \in 0..(n - 1) /\ n \in 1..m
    BY <1>2, <1>3
  <2>4. next[n][g[n - 1]] \in S
    BY <2>1, <2>3
  <2>5. h \in [0..n -> S]
    BY <2>1, <2>2, <2>4
  <2>6. h[0] = a /\ \A i \in 0..(n - 1) : h[i] = g[i]
    BY <1>2, <1>3, <2>1
  <2>7. h[n] = next[n][g[n - 1]]
    BY <1>2
  <2>8. ASSUME NEW i \in 1..n PROVE h[i] = next[i][h[i - 1]]
    <3> HIDE DEF h
    <3>1. i - 1 \in 0..(n - 1)
      BY <1>2
    <3>2. CASE i = n
      BY <2>6, <2>7, <3>1, <3>2
    <3>3. CASE i \in 1..(n - 1)
      BY <2>1, <2>6, <3>1, <3>3
    <3>4. QED
      BY <1>2, <3>2, <3>3
  <2> HIDE DEF h
  <2>9. QED
    BY <2>5, <2>6, <2>8 DEF Iteration
<1>7. QED
  BY <1>2, <1>6

-----------------------------------------------------------------------------
(* The offsets of the chunks.                                              *)

ChunkLength(c) == 8 + c.size + (c.size % 2)

\* A chunk takes its header of 8 bytes, its data and its padding.
LEMMA ChunkLengthType ==
    \A c \in Chunks : ChunkLength(c) \in Nat /\ ChunkLength(c) >= 8
<1>1. \A c \in Chunks : c.size \in Nat /\ c.size % 2 \in Nat
  BY DEF Chunks
<1>2. \A y, z \in Nat : 8 + y + z \in Nat /\ 8 + y + z >= 8
  OBVIOUS
<1>3. \A c \in Chunks : 8 + c.size + (c.size % 2) \in Nat /\ 8 + c.size + (c.size % 2) >= 8
  BY ONLY <1>1, <1>2, Zenon
<1>4. QED
  BY ONLY <1>3, Zenon DEF ChunkLength

\* The offsets, as the recursive function computes them.
LEMMA OffsetFacts ==
    ASSUME NEW wav \in Seq(Chunks)
    PROVE  /\ Offset(wav, 1) = 12
           /\ \A i \in 1..(Len(wav) + 1) : Offset(wav, i) \in Nat
           /\ \A i \in 1..Len(wav) : Offset(wav, i + 1) = Offset(wav, i) + ChunkLength(wav[i])
<1> DEFINE m == Len(wav)
           next == [j \in 1..m |-> [x \in Nat |-> x + ChunkLength(wav[j])]]
           Solves(g) == g = [j \in 0..m |-> IF j = 0 THEN 12
                                            ELSE g[j - 1] + 8 + wav[j].size + (wav[j].size % 2)]
           after == CHOOSE g : Solves(g)
<1>1. m \in Nat /\ \A j \in 1..m : wav[j].size \in Nat /\ wav[j].size % 2 \in Nat /\ ChunkLength(wav[j]) \in Nat
  <2>1. m \in Nat /\ \A j \in 1..m : wav[j] \in Chunks
    OBVIOUS
  <2>2. \A c \in Chunks : c.size \in Nat /\ c.size % 2 \in Nat
    BY DEF Chunks
  <2>3. QED
    BY ONLY <2>1, <2>2, ChunkLengthType, Zenon
<1>2. next \in [1..m -> [Nat -> Nat]]
  <2> HIDE DEF m
  <2> QED
    BY <1>1
<1>3. PICK g : g \in [0..m -> Nat] /\ g[0] = 12 /\ \A i \in 1..m : g[i] = next[i][g[i - 1]]
  <2> HIDE DEF m, next
  <2>1. PICK g : Iteration(g, Nat, 12, m, next)
    BY <1>1, <1>2, IterationExists
  <2>2. QED
    BY <2>1 DEF Iteration
<1>4. ASSUME NEW i \in 1..m
      PROVE  i - 1 \in 0..m /\ g[i - 1] \in Nat /\ g[i] = g[i - 1] + ChunkLength(wav[i])
  <2> HIDE DEF m
  <2>1. i - 1 \in 0..m
    BY <1>1
  <2>2. g[i - 1] \in Nat
    BY <1>3, <2>1
  <2>3. next[i][g[i - 1]] = g[i - 1] + ChunkLength(wav[i])
    BY <2>2
  <2>4. g[i] = next[i][g[i - 1]]
    BY <1>3
  <2>5. QED
    BY <2>1, <2>2, <2>3, <2>4
<1>5. Solves(g)
  <2> HIDE DEF m, next
  <2>1. \A j \in 0..m : g[j] = IF j = 0 THEN 12
                               ELSE g[j - 1] + 8 + wav[j].size + (wav[j].size % 2)
    <3> SUFFICES ASSUME NEW j \in 0..m, j # 0
                 PROVE  g[j] = g[j - 1] + 8 + wav[j].size + (wav[j].size % 2)
      BY <1>3
    <3>1. j \in 1..m
      BY <1>1
    <3>2. g[j - 1] \in Nat /\ g[j] = g[j - 1] + ChunkLength(wav[j])
      BY <1>4, <3>1
    <3>3. wav[j].size \in Nat /\ wav[j].size % 2 \in Nat
      BY <1>1, <3>1
    <3>4. \A x, y, z \in Nat : x + (8 + y + z) = x + 8 + y + z
      OBVIOUS
    <3>5. QED
      BY <3>2, <3>3, <3>4 DEF ChunkLength
  <2>2. g = [j \in 0..m |-> g[j]]
    BY <1>3
  <2>3. QED
    BY <2>1, <2>2, Zenon
<1>6. Solves(after)
  BY <1>5, Zenon
<1>7. \A i : Offset(wav, i) = after[i - 1]
  BY DEF Offset
<1> HIDE DEF after, m, next
<1>8. \A j \in 0..m : after[j] = IF j = 0 THEN 12
                                 ELSE after[j - 1] + 8 + wav[j].size + (wav[j].size % 2)
  BY <1>6, Zenon
<1>9. \A j \in 0..m : after[j] = g[j]
  <2> DEFINE Bad == {j \in 0..m : after[j] # g[j]}
  <2> SUFFICES ASSUME Bad # {} PROVE FALSE
    OBVIOUS
  <2>1. PICK j \in Bad : \A k \in Bad : j <= k
    <3>1. Bad \subseteq Nat
      BY <1>1
    <3> HIDE DEF Bad
    <3>2. QED
      BY <3>1, LeastElement
  <2>2. j \in 0..m /\ j # 0
    BY <1>1, <1>3, <1>8
  <2>3. after[j - 1] = g[j - 1] /\ j \in 1..m
    BY <1>1, <2>1, <2>2
  <2>4. g[j - 1] \in Nat
    BY <1>3, <1>4, <2>3
  <2>5. after[j] = g[j - 1] + 8 + wav[j].size + (wav[j].size % 2)
    BY <1>8, <2>2, <2>3
  <2>6. after[j] = g[j]
    <3>1. g[j] = g[j - 1] + ChunkLength(wav[j])
      BY <1>4, <2>3
    <3>2. wav[j].size \in Nat /\ wav[j].size % 2 \in Nat
      BY <1>1, <2>3
    <3>3. \A x, y, z \in Nat : x + (8 + y + z) = x + 8 + y + z
      OBVIOUS
    <3>4. QED
      BY <2>4, <2>5, <3>1, <3>2, <3>3 DEF ChunkLength
  <2>7. QED
    BY <2>1, <2>6
<1>10. \A i \in 1..(m + 1) : i - 1 \in 0..m
  BY <1>1
<1>11. \A i \in 1..(m + 1) : Offset(wav, i) = g[i - 1]
  BY <1>7, <1>9, <1>10
<1>12. Offset(wav, 1) = 12
  BY <1>1, <1>3, <1>11
<1>13. \A i \in 1..(m + 1) : Offset(wav, i) \in Nat
  BY <1>3, <1>10, <1>11
<1>14. ASSUME NEW i \in 1..m PROVE Offset(wav, i + 1) = Offset(wav, i) + ChunkLength(wav[i])
  <2>1. i \in 1..(m + 1) /\ i + 1 \in 1..(m + 1) /\ (i + 1) - 1 = i
    BY <1>1
  <2>2. QED
    BY <1>4, <1>11, <2>1
<1>15. QED
  BY <1>12, <1>13, <1>14 DEF m

\* The chunks of a file follow each other, a header of 8 bytes at least apart.
LEMMA OffsetsGrow ==
    ASSUME NEW wav \in Seq(Chunks)
    PROVE  \A j \in 1..(Len(wav) + 1) :
             /\ Offset(wav, j) >= j
             /\ \A i \in 1..(j - 1) : Offset(wav, i) + ChunkLength(wav[i]) <= Offset(wav, j)
<1> DEFINE m == Len(wav)
           Grown(j) == /\ Offset(wav, j) >= j
                       /\ \A i \in 1..(j - 1) : Offset(wav, i) + ChunkLength(wav[i]) <= Offset(wav, j)
           Bad == {j \in 1..(m + 1) : ~Grown(j)}
<1>1. m \in Nat /\ \A i \in 1..m : ChunkLength(wav[i]) \in Nat /\ ChunkLength(wav[i]) >= 8
  <2>1. m \in Nat /\ \A j \in 1..m : wav[j] \in Chunks
    OBVIOUS
  <2>2. QED
    BY ONLY <2>1, ChunkLengthType, Zenon
<1> HIDE DEF m
<1> SUFFICES ASSUME Bad # {} PROVE FALSE
  BY DEF m
<1>2. /\ Offset(wav, 1) = 12
      /\ \A i \in 1..(m + 1) : Offset(wav, i) \in Nat
      /\ \A i \in 1..m : Offset(wav, i + 1) = Offset(wav, i) + ChunkLength(wav[i])
  BY OffsetFacts DEF m
<1>3. PICK j \in Bad : \A k \in Bad : j <= k
  <2>1. Bad \subseteq Nat
    BY <1>1
  <2> HIDE DEF Bad
  <2>2. QED
    BY <2>1, LeastElement
<1>4. j \in 1..(m + 1) /\ j # 1
  <2>1. Grown(1)
    BY <1>2
  <2>2. QED
    BY <1>3, <2>1
<1>5. j - 1 \in 1..m /\ Grown(j - 1)
  <2>1. j - 1 \in 1..m /\ j - 1 \in 1..(m + 1) /\ ~(j <= j - 1)
    BY <1>1, <1>4
  <2>2. QED
    BY <1>3, <2>1
<1>6. Offset(wav, j) = Offset(wav, j - 1) + ChunkLength(wav[j - 1])
  <2>1. (j - 1) + 1 = j
    BY <1>1, <1>4
  <2>2. QED
    BY <1>2, <1>5, <2>1
<1>7. Offset(wav, j - 1) \in Nat /\ Offset(wav, j) \in Nat
  BY <1>1, <1>2, <1>4, <1>5
<1>8. Offset(wav, j) >= j
  BY <1>1, <1>4, <1>5, <1>6, <1>7
<1>9. ASSUME NEW i \in 1..(j - 1) PROVE Offset(wav, i) + ChunkLength(wav[i]) <= Offset(wav, j)
  <2>1. CASE i = j - 1
    BY <1>6, <1>7, <2>1
  <2>2. CASE i \in 1..((j - 1) - 1)
    <3>1. Offset(wav, i) + ChunkLength(wav[i]) <= Offset(wav, j - 1)
      BY <1>5, <2>2
    <3>2. i \in 1..m /\ Offset(wav, i) \in Nat
      BY <1>1, <1>2, <1>4, <2>2
    <3>3. ChunkLength(wav[i]) \in Nat /\ ChunkLength(wav[j - 1]) \in Nat
      BY <1>1, <1>5, <3>2
    <3>4. QED
      BY <1>6, <1>7, <3>1, <3>2, <3>3
  <2>3. QED
    BY <1>1, <1>4, <2>1, <2>2
<1>10. QED
  BY <1>3, <1>8, <1>9

\* A reader at the offset of a chunk reads that chunk.
LEMMA ChunkAtItsOffset ==
    ASSUME NEW wav \in Seq(Chunks), NEW i \in 1..Len(wav)
    PROVE  ChunkAt(wav, Offset(wav, i)) = wav[i]
<1> DEFINE starts == {j \in 1..Len(wav) : Offset(wav, j) = Offset(wav, i)}
<1>1. ASSUME NEW j \in 1..Len(wav), NEW k \in 1..Len(wav), j < k
      PROVE  Offset(wav, j) < Offset(wav, k)
  <2>1. Len(wav) \in Nat
    OBVIOUS
  <2>2. k \in 1..(Len(wav) + 1) /\ j \in 1..(Len(wav) + 1) /\ j \in 1..(k - 1)
    BY <1>1, <2>1
  <2>3. Offset(wav, j) + ChunkLength(wav[j]) <= Offset(wav, k)
    BY <2>2, OffsetsGrow
  <2>4. Offset(wav, j) \in Nat /\ Offset(wav, k) \in Nat
    BY <2>2, OffsetFacts
  <2>5. ChunkLength(wav[j]) \in Nat /\ ChunkLength(wav[j]) >= 8
    <3>1. wav[j] \in Chunks
      OBVIOUS
    <3>2. QED
      BY ONLY <3>1, ChunkLengthType, Zenon
  <2>6. \A a, b, n \in Nat : n >= 8 /\ a + n <= b => a < b
    OBVIOUS
  <2>7. QED
    BY ONLY <2>3, <2>4, <2>5, <2>6, Zenon
<1>2. ASSUME NEW j \in starts PROVE j = i
  <2>1. j \in 1..Len(wav) /\ Offset(wav, j) = Offset(wav, i)
    OBVIOUS
  <2>2. Offset(wav, i) \in Nat
    <3>1. i \in 1..(Len(wav) + 1)
      OBVIOUS
    <3>2. QED
      BY <3>1, OffsetFacts
  <2>3. ~(j < i) /\ ~(i < j)
    BY <1>1, <2>1, <2>2
  <2>4. QED
    BY <2>1, <2>3
<1>3. starts = {i}
  BY <1>2
<1>4. ChunkAt(wav, Offset(wav, i)) = wav[CHOOSE j \in starts : TRUE]
  BY <1>3 DEF ChunkAt
<1> HIDE DEF starts
<1>5. (CHOOSE j \in starts : TRUE) = i
  BY <1>3
<1>6. QED
  BY <1>4, <1>5

-----------------------------------------------------------------------------
(* The turns of the reader's loop.                                         *)

Readers == {ReadsOn(x[1], x[2]) : x \in Nat \X Nat} \cup {Returns(d) : d \in Nat}

LEMMA SecondsType == \A size, rate \in Nat : rate # 0 => Seconds(size, rate) \in Nat
<1> SUFFICES ASSUME NEW size \in Nat, NEW rate \in Nat, rate # 0 PROVE Seconds(size, rate) \in Nat
  OBVIOUS
<1>1. \A a \in Nat, b \in Nat \ {0} : a \div b \in Nat
  OBVIOUS
<1>2. 2 * size + rate \in Nat /\ 2 * rate \in Nat \ {0}
  OBVIOUS
<1>3. QED
  BY <1>1, <1>2 DEF Seconds

LEMMA ChunkType ==
    ASSUME NEW wav \in Seq(Chunks), NEW offset PROVE ChunkAt(wav, offset) \in Chunks
<1> DEFINE starts == {i \in 1..Len(wav) : Offset(wav, i) = offset}
           other  == [id |-> "other", size |-> HeaderBytes, pcm |-> FALSE, rate |-> 0]
<1>1. other \in Chunks
  BY RecordingsPageAssumption DEF Chunks
<1>2. \A i \in starts : wav[i] \in Chunks
  OBVIOUS
<1>3. starts # {} => (CHOOSE i \in starts : TRUE) \in starts
  OBVIOUS
<1>4. ChunkAt(wav, offset) = IF starts # {} THEN wav[CHOOSE i \in starts : TRUE] ELSE other
  BY DEF ChunkAt
<1> HIDE DEF starts, other
<1>5. QED
  BY <1>1, <1>2, <1>3, <1>4

\* A file has a size.
LEMMA FileSizeType ==
    ASSUME NEW wav \in Seq(Chunks)
    PROVE  FileSize(wav) \in Nat
<1>1. Len(wav) + 1 \in 1..(Len(wav) + 1)
  OBVIOUS
<1>2. QED
  BY <1>1, OffsetFacts DEF FileSize

LEMMA WindowType ==
    ASSUME NEW wav \in Seq(Chunks)
    PROVE  Window(wav) \in Nat /\ Window(wav) <= HeaderBytes /\ Window(wav) <= FileSize(wav)
           /\ (Window(wav) = HeaderBytes \/ Window(wav) = FileSize(wav))
BY FileSizeType, RecordingsPageAssumption DEF Window

\* A turn, by what the reader is at.
LEMMA TurnAtChunk ==
    ASSUME NEW wav \in Seq(Chunks), NEW o \in Nat, NEW rate \in Nat
    PROVE  LET c == ChunkAt(wav, o)
           IN /\ o + 8 > Window(wav) => Turn(wav, ReadsOn(o, rate)) = Returns(0)
              /\ o + 8 <= Window(wav) /\ c.id = "fmt" =>
                   Turn(wav, ReadsOn(o, rate)) =
                     IF o + 24 > Window(wav) \/ ~c.pcm THEN Returns(0) ELSE ReadsOn(o + 8 + c.size, c.rate)
              /\ o + 8 <= Window(wav) /\ c.id = "data" =>
                   Turn(wav, ReadsOn(o, rate)) = Returns(IF rate = 0 THEN 0 ELSE Seconds(c.size, rate))
              /\ o + 8 <= Window(wav) /\ c.id = "other" =>
                   Turn(wav, ReadsOn(o, rate)) = ReadsOn(AfterOther(o, c.size), rate)
<1> DEFINE r == ReadsOn(o, rate)
<1>1. r.at = "chunk" /\ r.offset = o /\ r.rate = rate
  BY DEF ReadsOn
<1>2. Window(wav) \in Nat
  BY WindowType
<1> HIDE DEF r
<1>3. "chunk" # "end" /\ "fmt" # "data" /\ "fmt" # "other" /\ "data" # "other"
  OBVIOUS
<1>4. ~(o + 8 <= Window(wav)) <=> o + 8 > Window(wav)
  BY <1>2
<1>5. o + 8 > Window(wav) => Turn(wav, r) = Returns(0)
  BY <1>1, <1>3, <1>4 DEF Turn
<1>6. o + 8 <= Window(wav) /\ ChunkAt(wav, o).id = "fmt" =>
        Turn(wav, r) = IF o + 24 > Window(wav) \/ ~ChunkAt(wav, o).pcm THEN Returns(0)
                       ELSE ReadsOn(o + 8 + ChunkAt(wav, o).size, ChunkAt(wav, o).rate)
  BY <1>1, <1>3, <1>4 DEF Turn
<1>7. o + 8 <= Window(wav) /\ ChunkAt(wav, o).id = "data" =>
        Turn(wav, r) = Returns(IF rate = 0 THEN 0 ELSE Seconds(ChunkAt(wav, o).size, rate))
  BY <1>1, <1>3, <1>4 DEF Turn
<1>8. o + 8 <= Window(wav) /\ ChunkAt(wav, o).id = "other" =>
        Turn(wav, r) = ReadsOn(AfterOther(o, ChunkAt(wav, o).size), rate)
  BY <1>1, <1>3, <1>4 DEF Turn
<1>9. QED
  BY <1>5, <1>6, <1>7, <1>8 DEF r

LEMMA TurnAtEnd ==
    ASSUME NEW wav \in Seq(Chunks), NEW d PROVE Turn(wav, Returns(d)) = Returns(d)
BY DEF Turn, Returns

LEMMA TurnType ==
    ASSUME NEW wav \in Seq(Chunks), NEW r \in Readers PROVE Turn(wav, r) \in Readers
<1>1. CASE r \in {Returns(d) : d \in Nat}
  BY <1>1, TurnAtEnd DEF Readers
<1>2. CASE r \in {ReadsOn(x[1], x[2]) : x \in Nat \X Nat}
  <2>1. PICK o \in Nat, rate \in Nat : r = ReadsOn(o, rate)
    BY <1>2
  <2> DEFINE c == ChunkAt(wav, o)
  <2>2. c \in Chunks
    BY ChunkType
  <2>3. c.id \in {"fmt", "data", "other"} /\ c.size \in Nat /\ c.rate \in Nat
    BY <2>2 DEF Chunks
  <2>4. ASSUME NEW a \in Nat, NEW b \in Nat PROVE ReadsOn(a, b) \in Readers
    <3>1. <<a, b>> \in Nat \X Nat /\ <<a, b>>[1] = a /\ <<a, b>>[2] = b
      OBVIOUS
    <3>2. QED
      BY <3>1 DEF Readers
  <2>5. \A d \in Nat : Returns(d) \in Readers
    BY DEF Readers
  <2>6. Window(wav) \in Nat
    BY WindowType
  <2>7. o + 8 + c.size \in Nat /\ AfterOther(o, c.size) \in Nat
    BY <2>3 DEF AfterOther
  <2>8. (IF rate = 0 THEN 0 ELSE Seconds(c.size, rate)) \in Nat
    BY <2>3, SecondsType
  <2>9. CASE o + 8 > Window(wav)
    <3>1. Turn(wav, r) = Returns(0)
      BY <2>1, <2>9, TurnAtChunk
    <3>2. QED
      BY <2>5, <3>1
  <2>10. CASE o + 8 <= Window(wav) /\ c.id = "fmt"
    <3>1. Turn(wav, r) = IF o + 24 > Window(wav) \/ ~c.pcm THEN Returns(0) ELSE ReadsOn(o + 8 + c.size, c.rate)
      BY <2>1, <2>10, TurnAtChunk
    <3>2. QED
      BY <2>3, <2>4, <2>5, <2>7, <3>1
  <2>11. CASE o + 8 <= Window(wav) /\ c.id = "data"
    <3>1. Turn(wav, r) = Returns(IF rate = 0 THEN 0 ELSE Seconds(c.size, rate))
      BY <2>1, <2>11, TurnAtChunk
    <3>2. QED
      BY <2>5, <2>8, <3>1
  <2>12. CASE o + 8 <= Window(wav) /\ c.id = "other"
    <3>1. Turn(wav, r) = ReadsOn(AfterOther(o, c.size), rate)
      BY <2>1, <2>12, TurnAtChunk
    <3>2. QED
      BY <2>4, <2>7, <3>1
  <2>13. QED
    BY <2>3, <2>6, <2>9, <2>10, <2>11, <2>12
<1>3. QED
  BY <1>1, <1>2 DEF Readers

\* The loop, by its turns.
LEMMA LoopFacts ==
    ASSUME NEW wav \in Seq(Chunks)
    PROVE  \E reader : /\ reader[0] = ReadsOn(12, 0)
                       /\ \A k \in 1..HeaderBytes : reader[k] = Turn(wav, reader[k - 1])
                       /\ WavDuration(wav) = reader[HeaderBytes].duration
<1> DEFINE next == [k \in 1..HeaderBytes |-> [r \in Readers |-> Turn(wav, r)]]
           Solves(g) == g = [k \in 0..HeaderBytes |->
                               IF k = 0 THEN ReadsOn(12, 0) ELSE Turn(wav, g[k - 1])]
           reader == CHOOSE g : Solves(g)
<1>1. HeaderBytes \in Nat /\ ReadsOn(12, 0) \in Readers
  <2>1. ReadsOn(12, 0) \in {ReadsOn(x[1], x[2]) : x \in Nat \X Nat}
    <3>1. <<12, 0>> \in Nat \X Nat /\ <<12, 0>>[1] = 12 /\ <<12, 0>>[2] = 0
      OBVIOUS
    <3>2. QED
      BY <3>1
  <2>2. QED
    BY <2>1, RecordingsPageAssumption DEF Readers
<1>2. next \in [1..HeaderBytes -> [Readers -> Readers]]
  BY TurnType
<1>3. PICK g : /\ g \in [0..HeaderBytes -> Readers] /\ g[0] = ReadsOn(12, 0)
               /\ \A k \in 1..HeaderBytes : g[k] = next[k][g[k - 1]]
  <2> HIDE DEF next
  <2>1. PICK g : Iteration(g, Readers, ReadsOn(12, 0), HeaderBytes, next)
    BY <1>1, <1>2, IterationExists
  <2>2. QED
    BY <2>1 DEF Iteration
<1>4. ASSUME NEW k \in 1..HeaderBytes PROVE g[k] = Turn(wav, g[k - 1])
  <2>1. k - 1 \in 0..HeaderBytes
    BY <1>1
  <2>2. g[k - 1] \in Readers
    BY <1>3, <2>1
  <2>3. QED
    BY <1>3, <2>2
<1>5. Solves(g)
  <2> HIDE DEF next
  <2>1. \A k \in 0..HeaderBytes : k # 0 => k \in 1..HeaderBytes
    BY <1>1
  <2>2. \A k \in 0..HeaderBytes : g[k] = IF k = 0 THEN ReadsOn(12, 0) ELSE Turn(wav, g[k - 1])
    BY <1>3, <1>4, <2>1
  <2>3. g = [k \in 0..HeaderBytes |-> g[k]]
    BY <1>3
  <2>4. QED
    BY <2>2, <2>3, Zenon
<1>6. Solves(reader)
  BY <1>5, Zenon
<1>7. WavDuration(wav) = reader[HeaderBytes].duration
  BY DEF WavDuration
<1> HIDE DEF reader
<1>8. \A k \in 0..HeaderBytes : reader[k] = IF k = 0 THEN ReadsOn(12, 0) ELSE Turn(wav, reader[k - 1])
  BY <1>6, Zenon
<1>9. \A k \in 1..HeaderBytes : k \in 0..HeaderBytes /\ k # 0
  BY <1>1
<1>10. 0 \in 0..HeaderBytes
  BY <1>1
<1>11. QED
  BY <1>7, <1>8, <1>9, <1>10

-----------------------------------------------------------------------------
(* The loop finds the duration.                                            *)

\* The rate the reader has when it has passed the first k chunks.
RateAfter(wav, k, rate) ==
    \/ rate = 0 /\ \A i \in 1..k : wav[i].id # "fmt"
    \/ \E i \in 1..k : wav[i].id = "fmt" /\ wav[i].pcm /\ wav[i].rate = rate

\* After k turns the reader has passed k chunks, none of them with data, or it has
\* returned the duration.
Passed(wav, k, r) ==
    \/ r = Returns(TrueDuration(wav))
    \/ \E rate \in Nat :
         /\ k <= Len(wav) /\ r = ReadsOn(Offset(wav, k + 1), rate)
         /\ \A i \in 1..k : wav[i].id # "data"
         /\ RateAfter(wav, k, rate)
         /\ k > 0 => Offset(wav, k) + 8 <= HeaderBytes

LEMMA LeastIsMin ==
    ASSUME NEW S, NEW d \in S, S \subseteq Nat, \A i \in S : d <= i
    PROVE  Min(S) = d
<1>1. \A x \in S : (\A y \in S : x <= y) => x = d
  OBVIOUS
<1>2. \E x \in S : \A y \in S : x <= y
  OBVIOUS
<1>3. QED
  BY <1>1, <1>2 DEF Min

LEMMA OnlyIsMax == \A f \in Nat : Max({f}) = f
BY DEF Max

\* There is no duration where no data chunk's header is in what is read.
LEMMA NoDataNoDuration ==
    ASSUME NEW wav \in Seq(Chunks),
           \A i \in DataChunks(wav) : Offset(wav, i) + 8 > HeaderBytes
    PROVE  TrueDuration(wav) = 0
<1>1. CASE DataChunks(wav) = {}
  BY <1>1 DEF TrueDuration
<1>2. CASE DataChunks(wav) # {}
  <2>1. DataChunks(wav) \subseteq Nat
    BY DEF DataChunks
  <2>2. PICK d \in DataChunks(wav) : \A i \in DataChunks(wav) : d <= i
    BY <1>2, <2>1, LeastElement
  <2>3. Min(DataChunks(wav)) = d
    BY <2>1, <2>2, LeastIsMin
  <2>4. QED
    BY <1>2, <2>2, <2>3 DEF TrueDuration
<1>3. QED
  BY <1>1, <1>2

\* The first data chunk, at the rate of the one format chunk, if it comes before.
LEMMA DurationOfFirstData ==
    ASSUME NEW wav \in Seq(Chunks), WellFormed(wav), NEW d \in 1..Len(wav), wav[d].id = "data",
           \A i \in 1..(d - 1) : wav[i].id # "data", Offset(wav, d) + 8 <= HeaderBytes,
           NEW rate \in Nat, RateAfter(wav, d - 1, rate)
    PROVE  TrueDuration(wav) = IF rate = 0 THEN 0 ELSE Seconds(wav[d].size, rate)
<1>1. d \in DataChunks(wav) /\ DataChunks(wav) \subseteq Nat /\ Len(wav) \in Nat
  BY DEF DataChunks
<1>2. \A i \in DataChunks(wav) : d <= i
  BY DEF DataChunks
<1>3. Min(DataChunks(wav)) = d
  BY <1>1, <1>2, LeastIsMin
<1>4. Offset(wav, d) \in Nat
  <2>1. d \in 1..(Len(wav) + 1)
    BY <1>1
  <2>2. QED
    BY <2>1, OffsetFacts
<1>5. ~(Offset(wav, d) + 8 > HeaderBytes)
  BY <1>4, RecordingsPageAssumption
<1>6. DataChunks(wav) # {}
  BY <1>1
<1> DEFINE f == Max(FormatsBefore(wav, d))
<1>7. TrueDuration(wav) = IF FormatsBefore(wav, d) = {} \/ ~wav[f].pcm \/ wav[f].rate = 0
                          THEN 0 ELSE Seconds(wav[d].size, wav[f].rate)
  BY <1>3, <1>5, <1>6 DEF TrueDuration
<1>8. CASE rate = 0 /\ \A i \in 1..(d - 1) : wav[i].id # "fmt"
  <2>1. FormatsBefore(wav, d) = {}
    BY <1>8 DEF FormatsBefore
  <2>2. QED
    BY <1>7, <1>8, <2>1
<1>9. CASE \E i \in 1..(d - 1) : wav[i].id = "fmt" /\ wav[i].pcm /\ wav[i].rate = rate
  <2>1. PICK i \in 1..(d - 1) : wav[i].id = "fmt" /\ wav[i].pcm /\ wav[i].rate = rate
    BY <1>9
  <2>2. \A j \in 1..(d - 1) : j \in 1..Len(wav)
    BY <1>1
  <2>3. FormatsBefore(wav, d) = {i}
    BY <2>1, <2>2 DEF FormatsBefore, WellFormed
  <2>4. f = i
    BY <2>3, OnlyIsMax
  <2> HIDE DEF f
  <2>5. QED
    BY <1>7, <2>1, <2>3, <2>4
<1>10. QED
  BY <1>8, <1>9 DEF RateAfter

\* There is no duration either when the one format chunk is not PCM.
LEMMA DurationNeedsPcm ==
    ASSUME NEW wav \in Seq(Chunks), WellFormed(wav),
           NEW f \in 1..Len(wav), wav[f].id = "fmt", ~wav[f].pcm
    PROVE  TrueDuration(wav) = 0
<1> DEFINE d == Min(DataChunks(wav))
           B == FormatsBefore(wav, d)
<1>1. CASE DataChunks(wav) = {}
  BY <1>1 DEF TrueDuration
<1>2. CASE DataChunks(wav) # {}
  <2>1. DataChunks(wav) \subseteq Nat
    BY DEF DataChunks
  <2>2. PICK i \in DataChunks(wav) : \A j \in DataChunks(wav) : i <= j
    BY <1>2, <2>1, LeastElement
  <2>3. d = i
    BY <2>1, <2>2, LeastIsMin
  <2>4. i \in 1..Len(wav) /\ Len(wav) \in Nat
    BY DEF DataChunks
  <2>5. \A j \in 1..(i - 1) : j \in 1..Len(wav)
    BY <2>4
  <2>6. FormatsBefore(wav, i) \subseteq {f}
    BY <2>5 DEF FormatsBefore, WellFormed
  <2> HIDE DEF d
  <2>7. B = {} \/ B = {f}
    BY <2>3, <2>6
  <2> HIDE DEF B
  <2>8. B = {f} => Max(B) = f
    BY OnlyIsMax
  <2>9. TrueDuration(wav) = IF B = {} \/ Offset(wav, d) + 8 > HeaderBytes \/ ~wav[Max(B)].pcm \/ wav[Max(B)].rate = 0
                            THEN 0 ELSE Seconds(wav[d].size, wav[Max(B)].rate)
    BY <1>2 DEF TrueDuration, B, d
  <2>10. QED
    BY <2>7, <2>8, <2>9
<1>3. QED
  BY <1>1, <1>2

\* A turn passes the next chunk, or returns the duration.
LEMMA TurnPasses ==
    ASSUME NEW wav \in Seq(Chunks), WellFormed(wav), NEW k \in Nat, NEW r, Passed(wav, k, r)
    PROVE  Passed(wav, k + 1, Turn(wav, r))
<1>1. CASE r = Returns(TrueDuration(wav))
  BY <1>1, TurnAtEnd DEF Passed
<1>2. ASSUME NEW rate \in Nat,
             k <= Len(wav), r = ReadsOn(Offset(wav, k + 1), rate),
             \A i \in 1..k : wav[i].id # "data", RateAfter(wav, k, rate)
      PROVE  Passed(wav, k + 1, Turn(wav, r))
  <2> DEFINE o == Offset(wav, k + 1)
             c == wav[k + 1]
  <2>1. Len(wav) \in Nat /\ k + 1 \in 1..(Len(wav) + 1)
    BY <1>2
  <2>2. o \in Nat /\ Window(wav) \in Nat /\ Window(wav) <= HeaderBytes /\ HeaderBytes \in Nat
    BY <2>1, OffsetFacts, WindowType, RecordingsPageAssumption
  <2>3. Returns(TrueDuration(wav)) = Turn(wav, r) => Passed(wav, k + 1, Turn(wav, r))
    BY DEF Passed
  <2>4. k + 1 \in 1..Len(wav) \/ k = Len(wav)
    BY <1>2, <2>1
  <2>5. \A i \in DataChunks(wav) : i \in 1..Len(wav) /\ i \in 1..(Len(wav) + 1) /\ Offset(wav, i) \in Nat /\ i > k
    <3>1. \A i \in DataChunks(wav) : i \in 1..Len(wav) /\ wav[i].id = "data"
      BY DEF DataChunks
    <3>2. \A i \in DataChunks(wav) : i \in 1..(Len(wav) + 1) /\ i > k
      BY <1>2, <2>1, <3>1
    <3>3. QED
      BY <3>1, <3>2, OffsetFacts
  <2>6. ASSUME k + 1 \in 1..Len(wav)
        PROVE  /\ c.id \in {"fmt", "data", "other"} /\ c.size \in Nat /\ c.size % 2 \in Nat /\ c.rate \in Nat
               /\ ChunkAt(wav, o) = c
               /\ Offset(wav, k + 2) = o + 8 + c.size + (c.size % 2)
               /\ o + 8 + c.size + (c.size % 2) <= FileSize(wav)
               /\ \A i \in DataChunks(wav) : i # k + 1 =>
                    o + 8 + c.size + (c.size % 2) <= Offset(wav, i)
    <3>1. c \in Chunks
      BY <2>6
    <3>2. c.id \in {"fmt", "data", "other"} /\ c.size \in Nat /\ c.size % 2 \in Nat /\ c.rate \in Nat
      BY <3>1 DEF Chunks
    <3>3. ChunkAt(wav, o) = c
      BY <2>6, ChunkAtItsOffset
    <3>4. o + ChunkLength(c) = o + 8 + c.size + (c.size % 2)
      <4>1. \A x, y, z \in Nat : x + (8 + y + z) = x + 8 + y + z
        OBVIOUS
      <4>2. o \in Nat
        BY ONLY <2>2
      <4>3. c.size \in Nat /\ c.size % 2 \in Nat
        BY ONLY <3>2
      <4>4. ChunkLength(c) = 8 + c.size + (c.size % 2)
        BY ONLY Zenon DEF ChunkLength
      <4> HIDE DEF o, c
      <4>5. o + (8 + c.size + (c.size % 2)) = o + 8 + c.size + (c.size % 2)
        BY ONLY <4>1, <4>2, <4>3, Zenon
      <4>6. QED
        BY ONLY <4>4, <4>5, Zenon
    <3>5. Offset(wav, k + 2) = o + ChunkLength(c)
      <4>1. (k + 1) + 1 = k + 2
        OBVIOUS
      <4>2. Offset(wav, (k + 1) + 1) = o + ChunkLength(c)
        BY <2>6, OffsetFacts
      <4>3. QED
        BY <4>1, <4>2
    <3>6. \A j \in 1..(Len(wav) + 1) : k + 1 < j => o + ChunkLength(c) <= Offset(wav, j)
      <4>1. \A j \in 1..(Len(wav) + 1) : k + 1 < j => k + 1 \in 1..(j - 1)
        BY <2>6
      <4>2. QED
        BY <4>1, OffsetsGrow
    <3>7. o + ChunkLength(c) <= FileSize(wav)
      <4>1. Len(wav) + 1 \in 1..(Len(wav) + 1) /\ k + 1 < Len(wav) + 1
        BY <2>1, <2>6
      <4>2. QED
        BY <3>6, <4>1 DEF FileSize
    <3>8. \A i \in DataChunks(wav) : i # k + 1 => o + ChunkLength(c) <= Offset(wav, i)
      BY <2>1, <2>5, <3>6
    <3>9. QED
      BY <3>2, <3>3, <3>4, <3>5, <3>7, <3>8
  <2>7. CASE o + 8 > Window(wav)
    <3>1. Turn(wav, r) = Returns(0)
      BY <1>2, <2>2, <2>7, TurnAtChunk
    <3>2. \A i \in DataChunks(wav) : Offset(wav, i) + 8 > HeaderBytes
      <4>1. CASE k = Len(wav)
        BY <2>1, <2>5, <4>1
      <4>2. CASE k + 1 \in 1..Len(wav)
        <5>1. o + 8 > HeaderBytes
          <6>1. o + 8 <= FileSize(wav)
            <7>1. \A x, y, z, f \in Nat : x + 8 + y + z <= f => x + 8 <= f
              OBVIOUS
            <7>2. o + 8 + c.size + (c.size % 2) <= FileSize(wav)
              BY ONLY <2>6, <4>2
            <7>3. o \in Nat /\ FileSize(wav) \in Nat /\ c.size \in Nat /\ c.size % 2 \in Nat
              BY <2>2, <2>6, <4>2, FileSizeType
            <7> HIDE DEF o, c
            <7>4. QED
              BY ONLY <7>1, <7>2, <7>3, Zenon
          <6>2. Window(wav) = HeaderBytes \/ Window(wav) = FileSize(wav)
            BY WindowType
          <6> HIDE DEF o, c
          <6>3. o \in Nat /\ Window(wav) \in Nat /\ HeaderBytes \in Nat /\ FileSize(wav) \in Nat
            BY <2>2, FileSizeType
          <6>4. \A x, w, h, f \in Nat : x + 8 <= f /\ (w = h \/ w = f) /\ x + 8 > w => x + 8 > h
            OBVIOUS
          <6>5. QED
            BY ONLY <2>7, <6>1, <6>2, <6>3, <6>4, Zenon
        <5>2. \A i \in DataChunks(wav) : o <= Offset(wav, i)
          <6> SUFFICES ASSUME NEW i \in DataChunks(wav), i # k + 1 PROVE o <= Offset(wav, i)
            BY <2>2
          <6>1. o + 8 + c.size + (c.size % 2) <= Offset(wav, i) /\ Offset(wav, i) \in Nat
                /\ c.size \in Nat /\ c.size % 2 \in Nat
            BY <2>5, <2>6, <4>2
          <6> HIDE DEF o, c
          <6>2. QED
            BY <2>2, <6>1
        <5>3. QED
          BY <2>2, <2>5, <5>1, <5>2
      <4>3. QED
        BY <2>4, <4>1, <4>2
    <3>3. TrueDuration(wav) = 0
      BY <3>2, NoDataNoDuration
    <3>4. QED
      BY <2>3, <3>1, <3>3
  <2>8. ASSUME o + 8 <= Window(wav) PROVE k + 1 \in 1..Len(wav) /\ o + 8 <= HeaderBytes
    <3>1. k # Len(wav)
      BY <2>1, <2>2, <2>8, WindowType DEF FileSize
    <3>2. QED
      BY <2>2, <2>4, <2>8, <3>1
  \* The reader goes on at the next chunk, with the rate it now has.
  <2>9. ASSUME NEW rate2 \in Nat, o + 8 <= Window(wav), c.id # "data",
               Turn(wav, r) = ReadsOn(Offset(wav, k + 2), rate2), RateAfter(wav, k + 1, rate2)
        PROVE  Passed(wav, k + 1, Turn(wav, r))
    <3>1. k + 1 <= Len(wav) /\ (k + 1) + 1 = k + 2 /\ o + 8 <= HeaderBytes
      BY <2>8, <2>9
    <3>2. \A i \in 1..(k + 1) : wav[i].id # "data"
      <4>1. \A i \in 1..(k + 1) : i = k + 1 \/ i \in 1..k
        OBVIOUS
      <4>2. QED
        BY <1>2, <2>9, <4>1
    <3>3. QED
      BY <2>9, <3>1, <3>2 DEF Passed
  <2>10. CASE o + 8 <= Window(wav) /\ c.id = "fmt"
    <3>1. Turn(wav, r) = IF o + 24 > Window(wav) \/ ~c.pcm THEN Returns(0) ELSE ReadsOn(o + 8 + c.size, c.rate)
      <4>1. ChunkAt(wav, o) = c
        BY <2>6, <2>8, <2>10
      <4>2. o + 8 <= Window(wav) /\ ChunkAt(wav, o).id = "fmt"
        BY <2>10, <4>1
      <4>3. Turn(wav, r) = IF o + 24 > Window(wav) \/ ~ChunkAt(wav, o).pcm THEN Returns(0)
                           ELSE ReadsOn(o + 8 + ChunkAt(wav, o).size, ChunkAt(wav, o).rate)
        BY <1>2, <2>2, <4>2, TurnAtChunk
      <4> HIDE DEF o, c
      <4>4. QED
        BY <4>1, <4>3
    <3>2. c.size >= 16 /\ c.size % 2 = 0
      BY <2>8, <2>10 DEF WellFormed
    <3>3. CASE o + 24 > Window(wav)
      <4>1. o + 24 > HeaderBytes
        <5>1. o + 24 <= FileSize(wav)
          <6>1. \A x, y, z, f \in Nat : y >= 16 /\ x + 8 + y + z <= f => x + 24 <= f
            OBVIOUS
          <6>2. o + 8 + c.size + (c.size % 2) <= FileSize(wav) /\ c.size \in Nat /\ c.size % 2 \in Nat
            BY ONLY <2>6, <2>8, <2>10
          <6>3. o \in Nat /\ FileSize(wav) \in Nat
            BY <2>2, FileSizeType
          <6> HIDE DEF o, c
          <6>4. QED
            BY ONLY <3>2, <6>1, <6>2, <6>3, Zenon
        <5>2. Window(wav) = HeaderBytes \/ Window(wav) = FileSize(wav)
          BY WindowType
        <5> HIDE DEF o, c
        <5>3. o \in Nat /\ Window(wav) \in Nat /\ HeaderBytes \in Nat /\ FileSize(wav) \in Nat
          BY <2>2, FileSizeType
        <5>4. \A x, w, h, f \in Nat : x + 24 <= f /\ (w = h \/ w = f) /\ x + 24 > w => x + 24 > h
          OBVIOUS
        <5>5. QED
          BY ONLY <3>3, <5>1, <5>2, <5>3, <5>4, Zenon
      <4>2. \A i \in DataChunks(wav) : i # k + 1
        BY <2>10 DEF DataChunks
      <4>3. \A i \in DataChunks(wav) : Offset(wav, i) + 8 > HeaderBytes
        <5> SUFFICES ASSUME NEW i \in DataChunks(wav) PROVE Offset(wav, i) + 8 > HeaderBytes
          OBVIOUS
        <5>1. o + 8 + c.size + (c.size % 2) <= Offset(wav, i) /\ Offset(wav, i) \in Nat
              /\ c.size \in Nat
          BY <2>5, <2>6, <2>8, <2>10, <4>2
        <5> HIDE DEF o, c
        <5>2. QED
          BY <2>2, <3>2, <4>1, <5>1
      <4>4. QED
        BY <2>3, <3>1, <3>3, <4>3, NoDataNoDuration
    <3>4. CASE ~(o + 24 > Window(wav)) /\ ~c.pcm
      <4>1. TrueDuration(wav) = 0
        BY <2>8, <2>10, <3>4, DurationNeedsPcm
      <4>2. QED
        BY <2>3, <3>1, <3>4, <4>1
    <3>5. CASE ~(o + 24 > Window(wav)) /\ c.pcm
      <4>1. Turn(wav, r) = ReadsOn(Offset(wav, k + 2), c.rate)
        BY <2>2, <2>6, <2>8, <2>10, <3>1, <3>2, <3>5
      <4>2. RateAfter(wav, k + 1, c.rate)
        BY <2>10, <3>5 DEF RateAfter
      <4>3. c.rate \in Nat /\ c.id # "data"
        BY <2>6, <2>8, <2>10
      <4>4. QED
        BY <2>9, <2>10, <4>1, <4>2, <4>3
    <3>6. QED
      BY <3>3, <3>4, <3>5
  <2>11. CASE o + 8 <= Window(wav) /\ c.id = "data"
    <3>1. Turn(wav, r) = Returns(IF rate = 0 THEN 0 ELSE Seconds(c.size, rate))
      BY <1>2, <2>2, <2>6, <2>8, <2>11, TurnAtChunk
    <3>2. (k + 1) - 1 = k
      OBVIOUS
    <3>3. TrueDuration(wav) = IF rate = 0 THEN 0 ELSE Seconds(c.size, rate)
      BY <1>2, <2>8, <2>11, <3>2, DurationOfFirstData
    <3>4. QED
      BY <2>3, <3>1, <3>3
  <2>12. CASE o + 8 <= Window(wav) /\ c.id = "other"
    <3>1. Turn(wav, r) = ReadsOn(AfterOther(o, c.size), rate)
      BY <1>2, <2>2, <2>6, <2>8, <2>12, TurnAtChunk
    <3>2. AfterOther(o, c.size) = Offset(wav, k + 2)
      BY <2>6, <2>8, <2>12 DEF AfterOther
    <3>3. RateAfter(wav, k + 1, rate)
      <4>1. \A i \in 1..k : i \in 1..(k + 1)
        OBVIOUS
      <4>2. \A i \in 1..(k + 1) : i = k + 1 \/ i \in 1..k
        OBVIOUS
      <4>3. QED
        BY <1>2, <2>12, <4>1, <4>2 DEF RateAfter
    <3>4. QED
      BY <2>9, <2>12, <3>1, <3>2, <3>3
  <2>13. QED
    BY <2>2, <2>6, <2>7, <2>8, <2>10, <2>11, <2>12, SMTT(30)
<1>3. QED
  BY <1>1, <1>2 DEF Passed

\* The loop of getWavDuration finds the duration of every well-formed file.
LEMMA LoopFindsDuration ==
    ASSUME NEW wav \in Seq(Chunks), WellFormed(wav)
    PROVE  WavDuration(wav) = TrueDuration(wav)
<1>1. PICK reader : /\ reader[0] = ReadsOn(12, 0)
                    /\ \A k \in 1..HeaderBytes : reader[k] = Turn(wav, reader[k - 1])
                    /\ WavDuration(wav) = reader[HeaderBytes].duration
  BY LoopFacts
<1>2. HeaderBytes \in Nat /\ HeaderBytes >= 12 /\ Len(wav) \in Nat
  BY RecordingsPageAssumption
<1> DEFINE Bad == {k \in 0..HeaderBytes : ~Passed(wav, k, reader[k])}
<1>3. Bad = {}
  <2> SUFFICES ASSUME Bad # {} PROVE FALSE
    OBVIOUS
  <2>1. PICK k \in Bad : \A j \in Bad : k <= j
    <3>1. Bad \subseteq Nat
      BY <1>2
    <3> HIDE DEF Bad
    <3>2. QED
      BY <3>1, LeastElement
  <2>2. k # 0
    <3>1. Offset(wav, 1) = 12 /\ 0 + 1 = 1 /\ 0 \in Nat /\ 0 <= Len(wav) /\ ~(0 > 0)
      BY <1>2, OffsetFacts
    <3>2. \A i \in 1..0 : FALSE
      OBVIOUS
    <3>3. RateAfter(wav, 0, 0)
      BY <3>2 DEF RateAfter
    <3>4. Passed(wav, 0, ReadsOn(12, 0))
      BY <3>1, <3>2, <3>3 DEF Passed
    <3>5. QED
      BY <1>1, <2>1, <3>4
  <2>3. k - 1 \in Nat /\ k - 1 \in 0..HeaderBytes /\ k \in 1..HeaderBytes /\ (k - 1) + 1 = k /\ ~(k <= k - 1)
    BY <1>2, <2>1, <2>2
  <2>4. Passed(wav, k - 1, reader[k - 1])
    BY <2>1, <2>3
  <2>5. Passed(wav, k, Turn(wav, reader[k - 1]))
    BY <2>3, <2>4, TurnPasses
  <2>6. QED
    BY <1>1, <2>1, <2>3, <2>5
<1>4. Passed(wav, HeaderBytes, reader[HeaderBytes])
  BY <1>2, <1>3
<1>5. HeaderBytes <= Len(wav) => ~(Offset(wav, HeaderBytes) + 8 <= HeaderBytes)
  <2>1. SUFFICES ASSUME HeaderBytes <= Len(wav) PROVE ~(Offset(wav, HeaderBytes) + 8 <= HeaderBytes)
    OBVIOUS
  <2>2. HeaderBytes \in 1..(Len(wav) + 1)
    BY <1>2, <2>1
  <2>3. Offset(wav, HeaderBytes) >= HeaderBytes /\ Offset(wav, HeaderBytes) \in Nat
    BY <2>2, OffsetsGrow, OffsetFacts
  <2>4. QED
    BY <1>2, <2>3
<1>6. reader[HeaderBytes] = Returns(TrueDuration(wav))
  <2>1. HeaderBytes > 0
    BY <1>2
  <2>2. QED
    BY <1>4, <1>5, <2>1 DEF Passed
<1>7. QED
  BY <1>1, <1>6 DEF Returns

-----------------------------------------------------------------------------

LEMMA DurationInit == PageInit => DurationInv
BY DEF PageInit, DurationInv, DurationIsOfAStoredFile

\* A step that leaves an item's result or its duration as it was.
LEMMA DurationKept ==
    ASSUME DurationInv, faults \in Nat, faults' \in Nat, faults' >= faults,
           NEW n \in Names, step'[n] = "done",
           step[n] = "done", result'[n] = result[n], since[n] \subseteq since'[n]
    PROVE  \/ \E wav \in since'[n] : result'[n].duration = TrueDuration(wav)
           \/ faults' > 0 /\ result'[n].duration = 0
BY DEF DurationInv, DurationIsOfAStoredFile

LEMMA DurationItem ==
    ASSUME PageTypeOK, DurationInv, NEW n \in Names, NEW url, NEW duration, NEW next \in {"header", "done"},
           step[n] # "none", ItemIs(n, url, duration, next),
           faults \in Nat, faults' \in Nat, faults' >= faults,
           next = "done" => \/ \E wav \in since[n] : duration = TrueDuration(wav)
                            \/ faults' > 0 /\ duration = 0
    PROVE  DurationInv'
<1>1. /\ step' = [step EXCEPT ![n] = next] /\ UNCHANGED <<bucket, since>>
      /\ step \in [Names -> {"none", "url", "header", "done"}] /\ DOMAIN result = Names
  BY DEF ItemIs, PageTypeOK
<1>2. result'[n].duration = duration /\ \A m \in Names : m # n => result'[m] = result[m]
  BY <1>1 DEF ItemIs
<1>3. ASSUME NEW m \in Names, step'[m] = "done"
      PROVE  \/ \E wav \in since'[m] : result'[m].duration = TrueDuration(wav)
             \/ faults' > 0 /\ result'[m].duration = 0
  <2>1. CASE m = n
    BY <1>1, <1>2, <1>3, <2>1
  <2>2. CASE m # n
    <3>1. step[m] = "done" /\ result'[m] = result[m] /\ since[m] \subseteq since'[m]
      BY <1>1, <1>2, <1>3, <2>2
    <3>2. QED
      BY <1>3, <3>1, DurationKept
  <2>3. QED
    BY <2>1, <2>2
<1>4. \A m \in Names : step'[m] # "none" => bucket'[m] # None /\ bucket'[m].wav \in since'[m]
  BY <1>1 DEF DurationInv
<1>5. QED
  BY <1>3, <1>4 DEF DurationInv, DurationIsOfAStoredFile

\* Any other step leaves results alone, forgets no file and lets what is listed
\* be stored.
LEMMA DurationOthers ==
    ASSUME PageTypeOK, DurationInv, faults \in Nat, faults' \in Nat, faults' >= faults, result' = result,
           \A n \in Names : step'[n] = "done" => step[n] = "done" /\ since[n] \subseteq since'[n],
           \A n \in Names : step'[n] # "none" => bucket'[n] # None /\ bucket'[n].wav \in since'[n]
    PROVE  DurationInv'
<1>1. ASSUME NEW n \in Names, step'[n] = "done"
      PROVE  \/ \E wav \in since'[n] : result'[n].duration = TrueDuration(wav)
             \/ faults' > 0 /\ result'[n].duration = 0
  BY <1>1, DurationKept
<1>2. QED
  BY <1>1 DEF DurationInv, DurationIsOfAStoredFile

LEMMA DurationStep ==
    ASSUME WellFormedFiles, PageTypeOK, DurationInv, [PageNext]_pageVars PROVE DurationInv'
<1>1. faults \in Nat /\ MaxFaults \in Nat
  BY RecordingsPageAssumption DEF PageTypeOK
<1>2. Fails => faults' \in Nat /\ faults' >= faults /\ faults' > 0
  BY <1>1 DEF Fails
<1>3. faults' = faults => faults' \in Nat /\ faults' >= faults
  BY <1>1
<1>4. \A n \in Names : step[n] # "none" => bucket[n] # None /\ bucket[n].wav \in since[n]
  BY DEF DurationInv
<1>5. ASSUME NEW n \in Names, NEW wav \in Wavs, Upload(n, wav) PROVE DurationInv'
  <2>1. /\ faults' = faults /\ result' = result /\ step' = step
        /\ bucket' = [bucket EXCEPT ![n] = [wav |-> wav, modified |-> clock']]
        /\ since' = [since EXCEPT ![n] = @ \union {wav}]
    BY <1>5 DEF Upload, request
  <2>2. \A m \in Names : since[m] \subseteq since'[m]
    BY <2>1 DEF PageTypeOK
  <2>3. bucket'[n] # None /\ bucket'[n].wav = wav /\ wav \in since'[n]
    <3>1. bucket'[n] = [wav |-> wav, modified |-> clock']
      BY <2>1 DEF PageTypeOK
    <3>2. [wav |-> wav, modified |-> clock'] # None
      BY DEF None
    <3>3. QED
      BY <2>1, <3>1, <3>2 DEF PageTypeOK
  <2>4. \A m \in Names : m # n => bucket'[m] = bucket[m]
    BY <2>1 DEF PageTypeOK
  <2>5. \A m \in Names : step'[m] # "none" => bucket'[m] # None /\ bucket'[m].wav \in since'[m]
    BY <1>4, <2>1, <2>2, <2>3, <2>4
  <2>6. QED
    BY <1>1, <1>3, <2>1, <2>2, <2>5, DurationOthers
<1>6. CASE ListEnds
  <2>1. /\ faults' = faults /\ result' = result /\ bucket' = bucket
        /\ step' = [n \in Names |-> IF n \in Listed THEN "url" ELSE "none"]
        /\ since' = [n \in Names |-> IF bucket[n] = None THEN {} ELSE {bucket[n].wav}]
    BY <1>6 DEF ListEnds
  <2>2. \A n \in Names : step'[n] # "done"
    BY <2>1
  <2>3. \A n \in Names : step'[n] # "none" => n \in Listed
    BY <2>1
  <2>4. \A n \in Listed : n \in Names /\ bucket[n] # None
    BY DEF Listed
  <2>5. \A n \in Names : step'[n] # "none" => bucket'[n] # None /\ bucket'[n].wav \in since'[n]
    BY <2>1, <2>3, <2>4
  <2>6. QED
    BY <1>1, <1>3, <2>1, <2>2, <2>5, DurationOthers
<1>7. ASSUME NEW n \in Names, Presigned(n) PROVE DurationInv'
  <2>1. faults' = faults \/ Fails
    BY <1>7 DEF Presigned
  <2>2. step[n] # "none" /\ \E url \in BOOLEAN : ItemIs(n, url, 0, "header")
    BY <1>7 DEF Presigned
  <2>3. QED
    BY <1>1, <1>2, <1>3, <2>1, <2>2, DurationItem
<1>8. ASSUME NEW n \in Names, HeaderFails(n) PROVE DurationInv'
  <2>1. step[n] # "none" /\ ItemIs(n, result[n].url, 0, "done") /\ Fails
    BY <1>8 DEF HeaderFails
  <2>2. QED
    BY <1>1, <1>2, <2>1, DurationItem
<1>9. ASSUME NEW n \in Names, HeaderRead(n) PROVE DurationInv'
  <2>1. /\ step[n] # "none" /\ faults' = faults
        /\ ItemIs(n, result[n].url, WavDuration(bucket[n].wav), "done")
    BY <1>9 DEF HeaderRead
  <2>2. bucket[n].wav \in since[n] /\ bucket[n].wav \in Wavs
    BY <1>4, <2>1 DEF PageTypeOK
  <2>3. WavDuration(bucket[n].wav) = TrueDuration(bucket[n].wav)
    BY <2>2, LoopFindsDuration, RecordingsPageAssumption DEF WellFormedFiles
  <2>4. \E wav \in since[n] : WavDuration(bucket[n].wav) = TrueDuration(wav)
    BY <2>2, <2>3
  <2>5. QED
    BY <1>1, <1>3, <2>1, <2>4, DurationItem
<1>10. CASE PageAsked \/ ListFails \/ PageAnswered \/ UNCHANGED pageVars
  <2>1. faults' = faults \/ Fails
    BY <1>10 DEF PageAsked, ListFails, PageAnswered, pageVars
  <2>2. result' = result /\ step' = step /\ since' = since /\ bucket' = bucket
    BY <1>10 DEF PageAsked, ListFails, PageAnswered, pageVars
  <2>3. QED
    BY <1>1, <1>2, <1>3, <1>4, <2>1, <2>2, DurationOthers
<1>11. QED
  BY <1>5, <1>6, <1>7, <1>8, <1>9, <1>10 DEF PageNext

\* The duration the page shows is that of a file stored under the name since the
\* listing, whatever is put over it while its header is read, or 0 when a request
\* failed: the loop of getWavDuration finds the first data chunk and the format
\* before it in any file of the WAV format, and 0 when they are beyond the bytes
\* that are read.
THEOREM DurationAlwaysOfAStoredFile ==
    ASSUME WellFormedFiles PROVE PageSpec => []DurationIsOfAStoredFile
<1>1. DurationInv => DurationIsOfAStoredFile
  BY DEF DurationInv
<1>2. PageInv => PageTypeOK
  BY DEF PageInv
<1>3. PageTypeOK /\ DurationInv /\ [PageNext]_pageVars => DurationInv'
  BY DurationStep
<1>4. QED
  BY <1>1, <1>2, <1>3, DurationInit, PageInvariance, PTL DEF PageSpec
=============================================================================
