--------------------------- MODULE MidpointImport ---------------------------
(***************************************************************************)
(* The import loop of the auth service (backend/auth/src/auth.service.ts): *)
(* at start-up it puts two roles and an object template into midPoint,     *)
(* deleting and posting each, then looks for the seed users, posts them    *)
(* when one is missing, and starts again every 30 s until every user is    *)
(* there.                                                                  *)
(*                                                                         *)
(* A step is one HTTP request.  midPoint's answers other than the expected *)
(* one, lost answers and failed file reads are faults, counted; what a     *)
(* request changed in midPoint is known to midPoint only.  midPoint keeps  *)
(* its data, the auth service restarts with nothing.                       *)
(*                                                                         *)
(* httpRequest settles with a whole answer, an error of the request, or    *)
(* after 30 s without traffic.  An answer cut off in its body is none of   *)
(* these: the loop then waits for it until the process restarts.           *)
(***************************************************************************)
EXTENDS Integers

CONSTANTS
    Configs,         \* number of config files (3 in the code)
    Users,           \* number of seed users (4)
    ConfigAttempts,  \* attempts for a config (3)
    UserAttempts,    \* attempts for a user (5)
    MaxFaults        \* bound: faults injected

ASSUME ImportAssumption ==
    /\ Configs \in Nat \ {0} /\ Users \in Nat \ {0}
    /\ ConfigAttempts \in Nat \ {0} /\ UserAttempts \in Nat \ {0}
    /\ MaxFaults \in Nat

VARIABLES
    resource,  \* midPoint: is the DB resource there?
    config,    \* midPoint: [1..Configs -> is the object there?]
    seed,      \* midPoint: [1..Users -> is the user there?]
    pc,        \* the request the loop is at
    item,      \* the config or user it is about
    attempts,  \* attempts used up for the item, this one included
    gaveUp,    \* configs the current pass gave up (history)
    misread,   \* users whose GET was answered neither 200 nor 404 (history)
    faults

midpoint == <<resource, config, seed>>
history  == <<gaveUp, misread>>
vars     == <<midpoint, pc, item, attempts, history, faults>>

ConfigPc == {"deleteConfig", "postConfig"}
UserPc   == {"getUser", "postUser"}
Requests == {"probe", "wait", "deleteResource"} \cup ConfigPc \cup UserPc
Pcs      == Requests \cup {"sleep", "ended", "hung"}

TypeOK ==
    /\ resource \in BOOLEAN
    /\ config \in [1..Configs -> BOOLEAN]
    /\ seed \in [1..Users -> BOOLEAN]
    /\ pc \in Pcs
    /\ item \in Nat \ {0}
    /\ pc \in ConfigPc => item <= Configs
    /\ pc \in UserPc => item <= Users
    /\ attempts \in Nat
    /\ gaveUp \subseteq 1..Configs
    /\ misread \subseteq 1..Users
    /\ faults \in 0..MaxFaults

\* midPoint is empty but for what an earlier run of the service left there.
Init ==
    /\ resource \in BOOLEAN
    /\ config \in [1..Configs -> BOOLEAN]
    /\ seed \in [1..Users -> BOOLEAN]
    /\ pc = "probe" /\ item = 1 /\ attempts = 0
    /\ gaveUp = {} /\ misread = {}
    /\ faults = 0

Fault   == faults < MaxFaults /\ faults' = faults + 1
NoFault == UNCHANGED faults

\* The next request, about item i, with n attempts used up.
Goto(request, i, n) == pc' = request /\ item' = i /\ attempts' = n

-----------------------------------------------------------------------------
(* backgroundImport and ensureMidpointImport.                              *)

\* One request tells whether midPoint is up; if not, this pass is over.
Probe ==
    /\ pc = "probe"
    /\ \/ Goto("wait", 1, 0) /\ NoFault
       \/ Goto("sleep", 1, 0) /\ Fault
    /\ gaveUp' = {} /\ misread' = {}
    /\ UNCHANGED midpoint

\* waitForMidpoint: at most 120 more probes, then the import goes on anyway.
WaitForMidpoint ==
    /\ pc = "wait"
    /\ Goto("deleteResource", 1, 0)
    /\ UNCHANGED <<midpoint, history, faults>>

\* The error of this DELETE, if any, is dropped.
DeleteResource ==
    /\ pc = "deleteResource"
    /\ \/ resource' = FALSE /\ NoFault
       \/ Fault /\ UNCHANGED resource
    /\ Goto("deleteConfig", 1, 1)
    /\ UNCHANGED <<config, seed, history>>

\* 30 s later, the next pass.
Sleep ==
    /\ pc = "sleep"
    /\ Goto("probe", 1, 0)
    /\ UNCHANGED <<midpoint, history, faults>>

-----------------------------------------------------------------------------
(* importMidpointConfigs, for one config.                                  *)

NextConfig ==
    IF item < Configs THEN Goto("deleteConfig", item + 1, 1) ELSE Goto("getUser", 1, 0)

RetryConfig ==
    IF attempts < ConfigAttempts
      THEN Goto("deleteConfig", item, attempts + 1) /\ UNCHANGED gaveUp
      ELSE NextConfig /\ gaveUp' = gaveUp \cup {item}

\* The object is deleted, so that it can be posted again; an error is dropped.
\* The file cannot be read: the attempt fails before any request.
DeleteConfig ==
    /\ pc = "deleteConfig"
    /\ \/ /\ config' = [config EXCEPT ![item] = FALSE]
          /\ Goto("postConfig", item, attempts)
          /\ NoFault /\ UNCHANGED gaveUp
       \/ /\ Fault /\ Goto("postConfig", item, attempts)
          /\ UNCHANGED <<config, gaveUp>>
       \/ /\ Fault /\ RetryConfig
          /\ UNCHANGED config
    /\ UNCHANGED <<resource, seed, misread>>

\* The POST is answered 201, or 409 when the object is still there, an error
\* like any other but 500 and 503: the loop breaks.  500, 503 and a lost answer
\* are tried again, from the DELETE on.
PostConfig ==
    /\ pc = "postConfig"
    /\ \/ /\ config' = [config EXCEPT ![item] = TRUE]
          /\ NextConfig /\ NoFault /\ UNCHANGED gaveUp
       \/ /\ Fault /\ NextConfig /\ gaveUp' = gaveUp \cup {item}
          /\ UNCHANGED config
       \/ /\ Fault /\ RetryConfig
          /\ \/ UNCHANGED config
             \/ config' = [config EXCEPT ![item] = TRUE]
    /\ UNCHANGED <<resource, seed, misread>>

-----------------------------------------------------------------------------
(* The users: the check of ensureMidpointImport, then importMidpointUsers. *)

\* Mutant of AfterUser: the loop goes on when every user was found.
AfterUserAgain(request) ==
    IF item < Users THEN Goto(request, item + 1, 0) ELSE Goto("sleep", 1, 0)

AfterUser(request) ==
    IF item < Users THEN Goto(request, item + 1, 0)
    ELSE Goto(IF request = "getUser" THEN "ended" ELSE "sleep", 1, 0)

\* 404 starts the import of all users; an exception ends the pass; any other
\* status, an error's too, counts as "the user is there".
GetUser ==
    /\ pc = "getUser"
    /\ \/ seed[item] /\ AfterUser("getUser") /\ NoFault /\ UNCHANGED misread
       \/ ~seed[item] /\ Goto("postUser", 1, 1) /\ NoFault /\ UNCHANGED misread
       \/ Fault /\ AfterUser("getUser") /\ misread' = misread \cup {item}
       \/ Fault /\ Goto("sleep", 1, 0) /\ UNCHANGED misread
    /\ UNCHANGED <<midpoint, gaveUp>>

\* Mutant of NextUser: the users are not looked for again after the import.
NextUserThenEnd ==
    IF item < Users THEN Goto("postUser", item + 1, 1) ELSE Goto("ended", 1, 0)

NextUser == IF item < Users THEN Goto("postUser", item + 1, 1) ELSE Goto("sleep", 1, 0)

\* 201, or 409 when the user is there; the role synchronisation that follows
\* is in module AuthService.  500, 503, 404 and a lost answer are tried again,
\* another status ends the attempts for this user.
PostUser ==
    /\ pc = "postUser"
    /\ \/ /\ seed' = [seed EXCEPT ![item] = TRUE]
          /\ NextUser /\ NoFault
       \/ /\ Fault
          /\ \/ NextUser
             \/ attempts < UserAttempts /\ Goto("postUser", item, attempts + 1)
          /\ \/ UNCHANGED seed
             \/ seed' = [seed EXCEPT ![item] = TRUE]
    /\ UNCHANGED <<resource, config, history>>

-----------------------------------------------------------------------------

\* What midPoint has done of the request the loop is at.
Executed ==
    /\ resource' = (resource /\ pc # "deleteResource")
    /\ config' = IF pc \in ConfigPc THEN [config EXCEPT ![item] = (pc = "postConfig")] ELSE config
    /\ seed' = IF pc = "postUser" THEN [seed EXCEPT ![item] = TRUE] ELSE seed

\* The connection is lost in the body of the answer: neither 'end' of the answer
\* nor 'error' or 'timeout' of the request comes, and the promise never settles.
AnswerCutOff ==
    /\ pc \in Requests /\ Fault
    /\ Executed \/ UNCHANGED midpoint
    /\ Goto("hung", 1, 0)
    /\ UNCHANGED history

\* The container restarts, in the middle of a pass or after the last one.
Restart ==
    /\ Fault
    /\ Goto("probe", 1, 0)
    /\ gaveUp' = {} /\ misread' = {}
    /\ UNCHANGED midpoint

Import == Probe \/ WaitForMidpoint \/ DeleteResource \/ Sleep
            \/ DeleteConfig \/ PostConfig \/ GetUser \/ PostUser

\* backgroundImport has returned, or waits for good.
Ended == pc \in {"ended", "hung"} /\ UNCHANGED vars

Next == Import \/ AnswerCutOff \/ Restart \/ Ended

Spec == Init /\ [][Next]_vars

\* A request is answered, fails or times out after 30 s, and timers fire, so the
\* loop goes on, unless an answer was cut off.
FairSpec == Spec /\ WF_vars(Import)

-----------------------------------------------------------------------------
(* Properties.                                                             *)

\* When the loop has ended, a config that is not in midPoint is one the last
\* pass gave up, and a user that is not there is one whose GET was answered
\* with an error: deleting before posting, lost answers, retries, and restarts
\* between the two requests lose nothing else.
EndedMeansImported ==
    pc = "ended" =>
        /\ \A c \in 1..Configs : config[c] \/ c \in gaveUp
        /\ \A u \in 1..Users : seed[u] \/ u \in misread

\* What the pass under way has done so far, which makes it inductive.
PassSoFar ==
    /\ pc \in ConfigPc => \A c \in 1..Configs : c < item => config[c] \/ c \in gaveUp
    /\ pc \in UserPc => \A c \in 1..Configs : config[c] \/ c \in gaveUp
    /\ pc = "getUser" => \A u \in 1..Users : u < item => seed[u] \/ u \in misread

ImportInv == TypeOK /\ PassSoFar /\ EndedMeansImported

\* The requests left until the pass under way ends or, when it imports the users,
\* the one after it.
Pass == Users + 2 * Configs + 3
ToTheEnd(request, i) ==
    CASE request \in {"ended", "hung"} -> 0
      [] request = "getUser"        -> Users - i + 1
      [] request = "postConfig"     -> Users + 2 * (Configs - i) + 1
      [] request = "deleteConfig"   -> Users + 2 * (Configs - i) + 2
      [] request = "deleteResource" -> Pass - 2
      [] request = "wait"           -> Pass - 1
      [] request = "probe"          -> Pass
      [] request = "sleep"          -> Pass + 1
      [] request = "postUser"       -> (Users - i + 1) + (Pass + 1)

\* A user that will be found missing costs an import and another pass.
Missing == \E u \in 1..Users : ~seed[u] /\ (pc = "postUser" => u < item)
OneImport == Users + Pass + 1
RequestsLeft == ToTheEnd(pc, item) + IF Missing THEN OneImport ELSE 0

\* A failure, and a restart, may cost all of that once more.
StepsLeft == RequestsLeft + (MaxFaults - faults) * (2 * OneImport + 1)

\* Every request, every failure and every restart brings the loop nearer to its
\* end: it never loops for its own reasons, deleting and posting what is there
\* or looking again for users that it has just posted.
EveryStepCounts ==
    [][Import \/ AnswerCutOff \/ Restart => StepsLeft' \in 0..(StepsLeft - 1)]_vars

\* After any finite number of failures the loop ends, and stays ended; unless the
\* answer to its last request was cut off, on which it waits for good.
ImportEnds == <>[](pc = "ended") \/ <>[](pc = "hung")
=============================================================================
