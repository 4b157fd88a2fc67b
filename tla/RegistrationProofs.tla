--------------------------- MODULE RegistrationProofs ---------------------------
(* Proofs about registration, from what is proved of the auth service and of *)
(* provisioning: the sections of pjsip.conf hold what the table users has,   *)
(* and whoever logged in registers, for any users, logins and other calls.   *)
EXTENDS Registration, TLAPS

AuthP == INSTANCE AuthServiceProofs WITH
    Calls <- Logins, Kinds <- {"login", "register"}, SyncRole <- "Admin", MaxFaults <- 0,
    kind <- authKind, step <- authStep, answer <- told, faults <- authFaults

SipP == INSTANCE ProvisioningProofs WITH
    Calls <- Logins \cup Others, Kinds <- {"create", "register", "remove"}

-----------------------------------------------------------------------------
(* The two services and the modules of their proofs.                        *)

LEMMA AuthHolds == AuthP!AuthAssumption
BY RegistrationAssumption DEF Auth!AuthAssumption, AuthP!AuthAssumption, Auth!Row, AuthP!Row, Auth!Roles, AuthP!Roles,
   Auth!NoSip, AuthP!NoSip, Auth!IsFiniteSet, AuthP!IsFiniteSet

LEMMA SipHolds == SipP!ProvisioningAssumption
BY RegistrationAssumption DEF Sip!ProvisioningAssumption, SipP!ProvisioningAssumption

LEMMA AuthInitIs == Auth!Init => AuthP!Init
BY DEF Auth!Init, AuthP!Init, Auth!Known, AuthP!Known, Auth!SeedRow, AuthP!SeedRow, Auth!NoSip,
   AuthP!NoSip, Auth!Roles, AuthP!Roles

LEMMA SipInitIs == Sip!Init => SipP!Init
BY DEF Sip!Init, SipP!Init, Sip!Types, SipP!Types, Sip!Blank, SipP!Blank

LEMMA AuthNextIs == Auth!Next <=> AuthP!Next
BY DEF Auth!Next, AuthP!Next, Auth!Call, AuthP!Call, Auth!Login, AuthP!Login, Auth!LoginFind,
   AuthP!LoginFind, Auth!MidpointAccepts, AuthP!MidpointAccepts, Auth!LocalAuthentication,
   AuthP!LocalAuthentication, Auth!LoginSave, AuthP!LoginSave, Auth!Save, AuthP!Save,
   Auth!Reject, AuthP!Reject, Auth!Register, AuthP!Register,
   Auth!RegisterFind, AuthP!RegisterFind, Auth!RegisterMax, AuthP!RegisterMax,
   Auth!RegisterInsert, AuthP!RegisterInsert, Auth!Sync, AuthP!Sync, Auth!SyncFind,
   AuthP!SyncFind, Auth!SyncSave, AuthP!SyncSave, Auth!MidpointChanges, AuthP!MidpointChanges,
   Auth!Done, AuthP!Done, Auth!Goto, AuthP!Goto, Auth!End, AuthP!End, Auth!Fault, AuthP!Fault,
   Auth!NoFault, AuthP!NoFault, Auth!Known, AuthP!Known, Auth!Extension, AuthP!Extension,
   Auth!NextExt, AuthP!NextExt, Auth!TextMax, AuthP!TextMax, Auth!TextLess, AuthP!TextLess,
   Auth!Padded, AuthP!Padded, Auth!Completed, AuthP!Completed, Auth!Roles, AuthP!Roles,
   Auth!NoRole, AuthP!NoRole, Auth!NoSip, AuthP!NoSip, Auth!calls, AuthP!calls, Auth!vars,
   AuthP!vars

LEMMA SipNextIs == Sip!Next <=> SipP!Next
BY DEF Sip!Next, SipP!Next, Sip!Request, SipP!Request, Sip!Command, SipP!Command, Sip!Check,
   SipP!Check, Sip!AppendBlock, SipP!AppendBlock, Sip!SedRead, SipP!SedRead, Sip!SedRename,
   SipP!SedRename, Sip!Reload, SipP!Reload, Sip!SshFails, SipP!SshFails, Sip!SshCut,
   SipP!SshCut, Sip!GatewayTimeout, SipP!GatewayTimeout, Sip!AsteriskReads, SipP!AsteriskReads,
   Sip!Done, SipP!Done, Sip!MayBegin, SipP!MayBegin, Sip!Ended, SipP!Ended, Sip!Goto,
   SipP!Goto, Sip!Told, SipP!Told, Sip!Fault, SipP!Fault, Sip!ExecutedOrNot,
   SipP!ExecutedOrNot, Sip!ConfigBlock, SipP!ConfigBlock, Sip!Endpoint, SipP!Endpoint,
   Sip!Auth, SipP!Auth, Sip!Aor, SipP!Aor, Sip!Blank, SipP!Blank, Sip!HasHeader,
   SipP!HasHeader, Sip!InRange, SipP!InRange, Sip!SedDelete, SipP!SedDelete, Sip!Copies,
   SipP!Copies, Sip!Cardinality, SipP!Cardinality, Sip!ToSet, SipP!ToSet, Sip!Types,
   SipP!Types, Sip!OfType, SipP!OfType, Sip!Doubled, SipP!Doubled, Sip!Reloaded, SipP!Reloaded,
   Sip!Started, SipP!Started, Sip!service, SipP!service, Sip!vars, SipP!vars

-----------------------------------------------------------------------------
(* A step of registration is a step of the two services.                    *)

LEMMA AuthSteps == [Next]_vars => [AuthP!Next]_(AuthP!vars)
<1> SUFFICES ASSUME [Next]_vars PROVE [AuthP!Next]_(AuthP!vars)
  OBVIOUS
<1>1. AuthServes \/ UNCHANGED authVars
  BY DEF Next, RegisterSip, RemoveExtension, CreateExtension, RegisterTyped, AsteriskServes, AsteriskReads, vars
<1>2. CASE AuthServes
  BY <1>2, AuthNextIs DEF AuthServes
<1>3. CASE UNCHANGED authVars
  BY <1>3 DEF authVars, AuthP!vars, AuthP!calls
<1>4. QED
  BY <1>1, <1>2, <1>3

LEMMA RowNumbers ==
    ASSUME AuthP!UsersInv, NEW c \in Logins, LoggedIn(c)
    PROVE  user[c] \in AuthP!Known /\ row[user[c]].ext \in Nat /\ authStep[c] = "ended"
<1>1. AuthP!Answered(c)
  BY DEF LoggedIn, Auth!Answered, AuthP!Answered
<1>2. user[c] \in AuthP!Known
  BY <1>1 DEF AuthP!UsersInv, AuthP!AnswersAreStored, AuthP!AnsweredIsStored
<1>3. row[user[c]] \in AuthP!Row
  BY <1>2 DEF AuthP!UsersInv, AuthP!TypeOK, AuthP!Known
<1>4. authStep[c] = "ended"
  BY <1>1 DEF AuthP!UsersInv, AuthP!EntityOfRow, AuthP!Answered
<1>5. QED
  BY <1>2, <1>3, <1>4 DEF AuthP!Row

LEMMA SipSteps == AnyExtension /\ AuthP!UsersInv /\ [Next]_vars => [SipP!Next]_(SipP!vars)
<1> SUFFICES ASSUME AnyExtension, AuthP!UsersInv, [Next]_vars PROVE [SipP!Next]_(SipP!vars)
  OBVIOUS
<1>1. ASSUME NEW c \in Logins, RegisterSip(c) PROVE Sip!Next
  <2>1. row[user[c]].ext \in Exts
    BY <1>1, RowNumbers DEF RegisterSip, AnyExtension
  <2> QED
    BY <1>1, <2>1 DEF RegisterSip, Sip!Next
<1>2. ASSUME NEW c \in Others, NEW e \in Exts, RemoveExtension(c, e) \/ CreateExtension(c, e)
      PROVE  Sip!Next
  BY <1>2 DEF RemoveExtension, CreateExtension, Sip!Next
<1>7. ASSUME NEW c \in Others, NEW login \in Logins, RegisterTyped(c, login) PROVE Sip!Next
  <2>1. row[user[login]].ext \in Exts
    BY <1>7, RowNumbers DEF RegisterTyped, AnyExtension
  <2> QED
    BY <1>7, <2>1 DEF RegisterTyped, Sip!Next
<1>3. ASSUME NEW c \in Logins \cup Others, AsteriskServes(c) PROVE Sip!Next
  BY <1>3 DEF AsteriskServes, Sip!Next
<1>4. CASE AsteriskReads
  BY <1>4, SipNextIs DEF AsteriskReads, Sip!Next
<1>5. CASE AuthServes \/ UNCHANGED vars
  BY <1>5 DEF AuthServes, vars, sipVars, SipP!vars, SipP!service
<1>6. QED
  BY <1>1, <1>2, <1>3, <1>4, <1>5, <1>7, SipNextIs DEF Next

LEMMA AuthServed == [Next]_vars => [Auth!Next]_(Auth!vars)
BY AuthSteps, AuthNextIs DEF AuthP!vars, AuthP!calls, Auth!vars, Auth!calls

LEMMA SipServed == AnyExtension /\ AuthP!UsersInv /\ [Next]_vars => [Sip!Next]_(Sip!vars)
BY SipSteps, SipNextIs DEF SipP!vars, SipP!service, Sip!vars, Sip!service

-----------------------------------------------------------------------------
(* A register-sip is about the extension its login was told.                *)

RegistrationInv == AuthP!UsersInv /\ CallsInv

LEMMA RegistrationBegins == Init => RegistrationInv
<1> SUFFICES ASSUME Init PROVE RegistrationInv
  OBVIOUS
<1>1. AuthP!UsersInv
  BY AuthHolds, AuthInitIs, AuthP!InitInv DEF Init
<1>2. CallsInv
  BY DEF Init, Sip!Init, CallsInv
<1>3. QED
  BY <1>1, <1>2 DEF RegistrationInv

LEMMA RegistrationStep == RegistrationInv /\ [Next]_vars => RegistrationInv'
<1> SUFFICES ASSUME RegistrationInv, [Next]_vars PROVE RegistrationInv'
  OBVIOUS
<1> USE DEF RegistrationInv
<1>1. AuthP!UsersInv'
  BY AuthHolds, AuthSteps, AuthP!NextInv
<1>2. /\ \A d \in Logins : authStep[d] = "ended" => AuthP!SameCall(d)
      /\ \A u \in AuthP!Known : row'[u] # NoRow /\ row'[u].ext = row[u].ext
  BY AuthHolds, AuthSteps, AuthP!EndedAndRowsKept
\* What was told, and the extension of its row, stays.
<1>3. ASSUME NEW c \in Logins, LoggedIn(c), authStep[c] = "ended"
      PROVE  LoggedIn(c)' /\ authStep'[c] = "ended" /\ row'[user'[c]].ext = row[user[c]].ext
  BY <1>2, <1>3, RowNumbers DEF LoggedIn, Auth!Answered, AuthP!SameCall
\* Asked for once, an extension stays a call's.
<1>4. ASSUME kind' = kind, ext' = ext PROVE CallsInv'
  BY <1>3, <1>4 DEF CallsInv
<1>5. ASSUME NEW c \in Logins, RegisterSip(c) PROVE CallsInv'
  <2>1. /\ LoggedIn(c) /\ authStep[c] = "ended" /\ UNCHANGED authVars
        /\ kind' = [kind EXCEPT ![c] = "register"]
        /\ ext' = [ext EXCEPT ![c] = row[user[c]].ext]
    BY <1>5, RowNumbers DEF RegisterSip, Sip!Request
  <2>2. \A d \in Logins : LoggedIn(d)' = LoggedIn(d)
    BY <2>1 DEF LoggedIn, Auth!Answered, authVars
  <2>3. /\ kind' \in [Logins \cup Others -> {"none", "create", "register", "remove"}]
        /\ ext' = [d \in Logins \cup Others |-> ext'[d]]
        /\ \A d \in Logins \cup Others :
              /\ kind'[d] = IF d = c THEN "register" ELSE kind[d]
              /\ ext'[d] = IF d = c THEN row[user[c]].ext ELSE ext[d]
    BY <2>1 DEF CallsInv
  <2>4. row' = row /\ user' = user /\ authStep' = authStep
    BY <2>1 DEF authVars
  <2> QED
    BY <2>1, <2>2, <2>3, <2>4 DEF CallsInv
\* The other calls leave those of the logins.
<1>6. ASSUME NEW c \in Others, NEW k \in {"create", "register", "remove"}, NEW e,
             Sip!Request(c, k, e), UNCHANGED authVars
      PROVE  CallsInv'
  <2>1. kind' = [kind EXCEPT ![c] = k] /\ ext' = [ext EXCEPT ![c] = e]
    BY <1>6 DEF Sip!Request
  <2>2. \A d \in Logins : LoggedIn(d)' = LoggedIn(d)
    BY <1>6 DEF LoggedIn, Auth!Answered, authVars
  <2>3. /\ kind' \in [Logins \cup Others -> {"none", "create", "register", "remove"}]
        /\ ext' = [d \in Logins \cup Others |-> ext'[d]]
        /\ \A d \in Logins \cup Others : d # c => kind'[d] = kind[d] /\ ext'[d] = ext[d]
    BY <2>1 DEF CallsInv
  <2>4. c \notin Logins
    BY RegistrationAssumption
  <2>5. row' = row /\ user' = user /\ authStep' = authStep
    BY <1>6 DEF authVars
  <2> QED
    BY <2>2, <2>3, <2>4, <2>5 DEF CallsInv
<1>7. \/ kind' = kind /\ ext' = ext
      \/ \E c \in Logins : RegisterSip(c)
      \/ \E c \in Others, e \in Exts : RemoveExtension(c, e) \/ CreateExtension(c, e)
      \/ \E c \in Others, login \in Logins : RegisterTyped(c, login)
  BY DEF Next, AsteriskServes, Sip!Command, Sip!Check, Sip!AppendBlock, Sip!SedRead, Sip!SedRename,
     Sip!Reload, Sip!SshFails, Sip!SshCut, AsteriskReads, Sip!AsteriskReads, Sip!service, AuthServes,
     sipVars, vars
<1>8. ASSUME NEW c \in Others, NEW e \in Exts, RemoveExtension(c, e) \/ CreateExtension(c, e)
      PROVE  CallsInv'
  BY <1>6, <1>8 DEF RemoveExtension, CreateExtension
<1>9. ASSUME NEW c \in Others, NEW login \in Logins, RegisterTyped(c, login) PROVE CallsInv'
  BY <1>6, <1>9 DEF RegisterTyped
<1>10. QED
  BY <1>1, <1>4, <1>5, <1>7, <1>8, <1>9

\* The inductive invariant of logins and register-sip together.
THEOREM RegistrationInvariance == Spec => []RegistrationInv
BY RegistrationBegins, RegistrationStep, PTL DEF Spec

\* Logins and registrations under way together with register-sip are a behaviour
\* of the auth service: nothing the asterisk service does is felt there.
THEOREM RegistrationImplementsUsers == Spec => Auth!Spec
<1>1. Init => Auth!Init
  BY DEF Init
<1>2. QED
  BY <1>1, AuthServed, PTL DEF Spec, Auth!Spec

\* The register-sip calls that the gateway makes of what the logins stored, and
\* the calls made by hand, are a behaviour of provisioning: an extension that it is asked
\* for is always one there may be, so what holds of provisioning holds here.
THEOREM RegistrationImplementsProvisioning == ASSUME AnyExtension PROVE Spec => Sip!Spec
<1>1. Init => Sip!Init
  BY DEF Init
<1>2. RegistrationInv /\ [Next]_vars => [Sip!Next]_(Sip!vars)
  BY SipServed DEF RegistrationInv
<1>3. QED
  BY <1>1, <1>2, RegistrationInvariance, PTL DEF Spec, Sip!Spec

\* What a user's row has of a login that was answered.
LEMMA ToldIsStored ==
    ASSUME AuthP!UsersInv, NEW c \in Logins, Auth!Answered(c)
    PROVE  /\ user[c] \in AuthP!Known /\ told[c].ext = row[user[c]].ext
           /\ Auth!HasSip(user[c]) => ToldStored(c)
BY DEF AuthP!UsersInv, AuthP!AnswersAreStored, AuthP!AnsweredIsStored, AuthP!Answered,
   Auth!Answered, Auth!HasSip, ToldStored

\* The sections of pjsip.conf and their calls.
SectionsInv == RegistrationInv /\ SipP!FileInv /\ SipP!RemovalInv /\ SipP!AuthsOfCreations

LEMMA SectionsStep == AnyExtension /\ SectionsInv /\ [Next]_vars => SectionsInv'
<1> SUFFICES ASSUME AnyExtension, SectionsInv, [Next]_vars PROVE SectionsInv'
  OBVIOUS
<1>1. [SipP!Next]_(SipP!vars)
  BY SipSteps DEF SectionsInv, RegistrationInv
<1>2. SipP!FileInv' /\ SipP!RemovalInv' /\ SipP!AuthsOfCreations'
  BY <1>1, SipHolds, SipP!NextFile, SipP!RemovalsKept, SipP!CreationsKept DEF SectionsInv
<1>3. QED
  BY <1>2, RegistrationStep DEF SectionsInv

LEMMA SectionsBegin == Init => SectionsInv
BY RegistrationBegins, SipHolds, SipInitIs, SipP!InitFile, SipP!RemovalsBegin, SipP!CreationsBegin
   DEF Init, SectionsInv

\* Every auth section, in pjsip.conf or in Asterisk, holds the SIP password of the
\* row that has the extension, or what was sent by hand for it (POST extensions, a
\* password typed for register-sip), whatever logins, registrations, removals,
\* failures and lost connections there were.
THEOREM SectionsHoldTheStored == ASSUME AnyExtension PROVE Spec => []ProvisionedIsStored
<1>1. SectionsInv => ProvisionedIsStored
  <2> SUFFICES ASSUME SectionsInv,
                      NEW section \in Sip!OfType(conf, "auth") \cup loaded["auth"]
               PROVE  LET c == section.password
                      IN /\ section.ext = ext[c]
                         /\ c \notin ByHand => /\ c \in Logins /\ row[user[c]].ext = section.ext
                                               /\ Auth!HasSip(user[c]) => ToldStored(c)
    BY DEF ProvisionedIsStored
  <2> DEFINE c == section.password
  <2>1. section.type = "auth" /\ SipP!OfCreation(section, kind, ext)
    <3>1. ASSUME section \in Sip!OfType(conf, "auth")
          PROVE  section.type = "auth" /\ SipP!OfCreation(section, kind, ext)
      <4>1. PICK i \in DOMAIN conf : section = conf[i]
        BY <3>1 DEF Sip!OfType, Sip!ToSet
      <4>2. section.type = "auth" /\ DOMAIN conf = 1..Len(conf)
        BY <3>1 DEF Sip!OfType, SectionsInv, SipP!FileInv, SipP!TypeOK
      <4>3. QED
        BY <4>1, <4>2 DEF SectionsInv, SipP!AuthsOfCreations
    <3>2. ASSUME section \in loaded["auth"]
          PROVE  section.type = "auth" /\ SipP!OfCreation(section, kind, ext)
      BY <3>2 DEF SectionsInv, SipP!AuthsOfCreations, SipP!Types
    <3>3. QED
      BY <3>1, <3>2
  <2>2. c \in Logins \cup Others /\ ext[c] = section.ext /\ kind[c] \in {"create", "register"}
    BY <2>1 DEF SipP!OfCreation
  <2>3. ASSUME c \notin ByHand
        PROVE  /\ c \in Logins /\ row[user[c]].ext = section.ext
               /\ Auth!HasSip(user[c]) => ToldStored(c)
    <3>1. c \in Logins
      BY <2>2, <2>3 DEF ByHand
    <3>2. LoggedIn(c) /\ ext[c] = row[user[c]].ext
      BY <2>2, <3>1 DEF SectionsInv, RegistrationInv, CallsInv
    <3>3. QED
      BY <2>2, <3>1, <3>2, ToldIsStored DEF SectionsInv, RegistrationInv, LoggedIn
  <2>4. QED
    BY <2>2, <2>3
<1>2. QED
  BY <1>1, SectionsBegin, SectionsStep, PTL DEF Spec

-----------------------------------------------------------------------------
(* Whoever logged in registers.                                             *)

LoginsInv == RegistrationInv /\ SipP!UndisturbedInv

LEMMA LoginsStep == AnyExtension /\ LoginsInv /\ [Next]_vars => LoginsInv'
<1> SUFFICES ASSUME AnyExtension, LoginsInv, [Next]_vars PROVE LoginsInv'
  OBVIOUS
<1>1. SipP!UndisturbedInv'
  BY SipHolds, SipSteps, SipP!UndisturbedStep DEF LoginsInv, RegistrationInv
<1>2. QED
  BY <1>1, RegistrationStep DEF LoginsInv

LEMMA LoginsBegin == Init => LoginsInv
BY RegistrationBegins, SipHolds, SipInitIs, SipP!UndisturbedBegins DEF Init, LoginsInv

LEMMA LoginsRegister ==
    ASSUME LoginsInv, Sip!TakeTurns, faults = 0, \A c \in Logins \cup Others : Sip!Ended(c),
           NEW c \in Logins, answer[c] = "ok", Auth!HasSip(user[c]),
           \A d \in ByHand : ext[d] # ext[c]
    PROVE  \E d \in Logins : /\ Auth!Answered(d) /\ told[d].sip = told[c].sip
                             /\ Sip!Registers(told[c].ext, d)
<1> USE DEF LoginsInv, RegistrationInv
<1>1. SipP!CallTypes /\ step[c] # "idle"
  BY DEF SipP!UndisturbedInv, SipP!CreationInv
<1>3. SipP!TakeTurns /\ \A d \in Logins \cup Others : SipP!Ended(d)
  BY DEF Sip!TakeTurns, Sip!NoRemoval, SipP!TakeTurns, SipP!NoRemoval, Sip!Ended, SipP!Ended
<1>4. PICK d \in Logins \cup Others :
           SipP!Created(d) /\ ext[d] = ext[c] /\ SipP!Registers(ext[c], d)
  BY <1>1, <1>3, SipHolds, SipP!UndisturbedUsable
<1>2. d \notin Others
  BY <1>4 DEF SipP!Created, ByHand
<1>5. d \in Logins /\ kind[d] = "register" /\ kind[c] = "register"
  <2>1. d \in Logins /\ kind[d] \in {"none", "create", "register", "remove"}
    BY <1>1, <1>2 DEF SipP!CallTypes
  <2>2. kind[d] \in {"create", "register"} /\ kind[c] # "none"
    BY <1>1, <1>4 DEF SipP!Created, SipP!CallTypes, CallsInv
  <2>3. QED
    BY <2>1, <2>2 DEF CallsInv
<1>6. /\ LoggedIn(c) /\ ext[c] = row[user[c]].ext
      /\ LoggedIn(d) /\ ext[d] = row[user[d]].ext
  BY <1>5 DEF CallsInv
<1>7. /\ user[c] \in AuthP!Known /\ told[c].ext = ext[c] /\ ToldStored(c)
      /\ user[d] \in AuthP!Known /\ (Auth!HasSip(user[d]) => ToldStored(d))
  BY <1>5, <1>6, ToldIsStored DEF LoggedIn
<1>8. user[d] = user[c]
  BY <1>4, <1>6, <1>7 DEF AuthP!UsersInv, AuthP!UniqueExtensions
<1>9. told[d].sip = told[c].sip
  BY <1>7, <1>8 DEF ToldStored
<1>10. Sip!Registers(told[c].ext, d)
  BY <1>4, <1>7 DEF Sip!Registers, SipP!Registers, Sip!Endpoint, SipP!Endpoint, Sip!Aor, SipP!Aor,
     Sip!Auth, SipP!Auth
<1>11. QED
  BY <1>5, <1>6, <1>9, <1>10 DEF LoggedIn

\* Whoever logged in and was answered by register-sip registers with what the
\* login told, also when register-sip met the section of an earlier login: while
\* nobody removes an extension or sends another password for this one,
\* register-sip of one extension are not sent at once and nothing fails, of rows
\* with a password.
THEOREM LoggedInPhonesRegister == ASSUME AnyExtension PROVE Spec => []LoggedInRegisters
<1>1. LoginsInv => LoggedInRegisters
  BY LoginsRegister DEF LoggedInRegisters
<1>2. QED
  BY <1>1, LoginsBegin, LoginsStep, PTL DEF Spec
=============================================================================
