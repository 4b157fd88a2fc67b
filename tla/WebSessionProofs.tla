-------------------------- MODULE WebSessionProofs --------------------------
(* Proofs about the browser's session: its inductive invariant, for any      *)
(* users, any number of flows and any of the races.                          *)
EXTENDS WebSession, TLAPS

\* What the passwords are.
LEMMA PasswordTypes ==
    (\A u \in Users : Sip(u) \in Passwords /\ Web(u) \in Passwords) /\ Typed \in Passwords
BY DEF Passwords

LEMMA InitInv == Init => SessionInv
<1> SUFFICES ASSUME Init PROVE SessionInv
  OBVIOUS
<1>1. TypeOK
  BY DEF Init, TypeOK, Waiting, Registering
<1>2. LoggedOutHasNoPhone /\ TokenIsProfile /\ SectionsHoldStored
  BY DEF Init, LoggedOutHasNoPhone, TokenIsProfile, SectionsHoldStored
<1>3. PasswordsStored /\ LoginPageIsBare /\ RestoreIsAlone /\ OneUser
  BY DEF Init, PasswordsStored, LoginPageIsBare, RestoreIsAlone, OneUser, Registering
<1>4. QED
  BY <1>1, <1>2, <1>3 DEF SessionInv

\* The page is loaded again: the flows of the old one are gone.
LEMMA PageLoadsInv ==
    ASSUME SessionInv, NEW f \in Flows, PageLoads(f), UNCHANGED given
    PROVE  SessionInv'
<1> USE DEF SessionInv, given, rows, PageLoads, server
<1>1. TypeOK'
  <2>1. pass' \in [Flows -> Passwords \cup {None}] /\ who' \in [Flows -> Users \cup {None}]
    BY PasswordTypes DEF TypeOK
  <2>2. \A g \in Flows : (Waiting(g) => who[g] \in Users)' /\ ~Registering(g)'
    BY DEF TypeOK, Waiting, Registering
  <2>3. QED
    BY <2>1, <2>2 DEF TypeOK
<1>2. LoggedOutHasNoPhone'
  BY DEF LoggedOutHasNoPhone, LoginPageIsBare, TypeOK, Waiting, Registering, Pending,
     LateLogout, Free
<1>3. TokenIsProfile'
  BY DEF TokenIsProfile, RestoreIsAlone, TypeOK, SlowRestore, Free
<1>4. PasswordsStored'
  BY DEF PasswordsStored, Passed, RowAnswers, Typing, TypeOK, Waiting, Registering, Sip, Free
<1>5. LoginPageIsBare'
  BY DEF LoginPageIsBare, TypeOK, Waiting, Registering, Pending, LateLogout, Free
<1>6. RestoreIsAlone'
  BY DEF RestoreIsAlone, TypeOK, Waiting, SlowRestore, Free
<1>7. OneUser'
  BY DEF OneUser, LoginPageIsBare, LoggedOutHasNoPhone, RestoreIsAlone, TypeOK, Waiting,
     Registering, LateLogout, TwoLogins, SlowRestore, Free
<1>8. SectionsHoldStored'
  BY DEF SectionsHoldStored, Passed, Typing, LateLogout, TwoLogins, SlowRestore, Registering
<1>9. QED
  BY <1>1, <1>2, <1>3, <1>4, <1>5, <1>6, <1>7, <1>8

\* The stored token is good: the form shows its user's extension.
LEMMA RestoreAnsweredInv ==
    ASSUME SessionInv, NEW f \in Flows, RestoreAnswered(f), UNCHANGED given
    PROVE  SessionInv'
<1> USE DEF SessionInv, given, rows, RestoreAnswered, End, server
<1>1. TypeOK'
  <2>1. who[f] \in Users
    BY DEF TypeOK, Waiting
  <2>2. RowAnswers(f) \subseteq Passwords \cup {None}
    BY PasswordTypes DEF TypeOK, RowAnswers
  <2>3. fields # None => fields.pass \in Passwords \cup {None}
    BY DEF TypeOK
  <2>4. fields' \in [user : Users, pass : Passwords \cup {None}] \cup {None}
    BY <2>1, <2>2, <2>3 DEF TypeOK
  <2>5. /\ at' \in [Flows -> {"idle", "login", "profile", "register", "form"}]
        /\ who' \in [Flows -> Users \cup {None}] /\ pass' \in [Flows -> Passwords \cup {None}]
        /\ \A g \in Flows : (Waiting(g) => who[g] \in Users)' /\ (Registering(g) => pass[g] \in Passwords)'
    BY DEF TypeOK, Waiting, Registering
  <2>6. sipForm' \in BOOLEAN
    BY DEF TypeOK
  <2>7. QED
    BY <2>1, <2>4, <2>5, <2>6 DEF TypeOK
<1>2. LoggedOutHasNoPhone'
  BY DEF LoggedOutHasNoPhone, LoginPageIsBare, TypeOK, Waiting, Registering, Pending, LateLogout
<1>3. TokenIsProfile'
  BY DEF TokenIsProfile, RestoreIsAlone, TypeOK, SlowRestore
<1>4. PasswordsStored'
  BY DEF PasswordsStored, Passed, RowAnswers, Typing, TypeOK, Waiting, Registering, Sip
<1>5. LoginPageIsBare'
  BY DEF LoginPageIsBare, TypeOK, Waiting, Registering, Pending, LateLogout
<1>6. RestoreIsAlone'
  BY DEF RestoreIsAlone, TypeOK, Waiting, SlowRestore
<1>7. OneUser'
  BY DEF OneUser, LoginPageIsBare, LoggedOutHasNoPhone, RestoreIsAlone, TypeOK, Waiting,
     Registering, LateLogout, TwoLogins, SlowRestore
<1>8. SectionsHoldStored'
  BY DEF SectionsHoldStored, Passed, Typing, LateLogout, TwoLogins, SlowRestore, Registering
<1>9. QED
  BY <1>1, <1>2, <1>3, <1>4, <1>5, <1>6, <1>7, <1>8

\* The stored token is forgotten.
LEMMA RestoreFailsInv ==
    ASSUME SessionInv, NEW f \in Flows, RestoreFails(f), UNCHANGED given
    PROVE  SessionInv'
<1> USE DEF SessionInv, given, rows, RestoreFails, End, page, server
<1>1. TypeOK'
  BY SessionAssumption DEF TypeOK, Passwords, Sip, Web, Typed, RowAnswers, Waiting, Registering
<1>2. TokenIsProfile'
  BY DEF TokenIsProfile, RestoreIsAlone, TypeOK, SlowRestore
<1>3. PasswordsStored'
  BY DEF PasswordsStored, Passed, RowAnswers, Typing, TypeOK, Waiting, Registering, Sip
<1>4. LoginPageIsBare'
  BY DEF LoginPageIsBare, TypeOK, Waiting, Registering, Pending, LateLogout
<1>5. RestoreIsAlone'
  BY DEF RestoreIsAlone, TypeOK, Waiting, SlowRestore
<1>6. OneUser'
  BY DEF OneUser, LoginPageIsBare, LoggedOutHasNoPhone, RestoreIsAlone, TypeOK, Waiting,
     Registering, LateLogout, TwoLogins, SlowRestore
<1>7. LoggedOutHasNoPhone' /\ SectionsHoldStored'
  BY DEF LoggedOutHasNoPhone, SectionsHoldStored, Passed, Typing, LateLogout, TwoLogins, SlowRestore, Registering
<1>8. QED
  BY <1>1, <1>2, <1>3, <1>4, <1>5, <1>6, <1>7

\* Logging out leaves a bare login page.
LEMMA LogoutInv ==
    ASSUME SessionInv, Logout, UNCHANGED given
    PROVE  SessionInv'
<1> USE DEF SessionInv, given, rows, Logout, flow, server
<1>1. TypeOK'
  BY SessionAssumption DEF TypeOK, Passwords, Sip, Web, Typed, RowAnswers, Waiting, Registering
<1>2. LoggedOutHasNoPhone'
  BY DEF LoggedOutHasNoPhone, LoginPageIsBare, TypeOK, Waiting, Registering, Pending, LateLogout
<1>3. TokenIsProfile'
  BY DEF TokenIsProfile, RestoreIsAlone, TypeOK, SlowRestore
<1>4. PasswordsStored'
  BY DEF PasswordsStored, Passed, RowAnswers, Typing, TypeOK, Waiting, Registering, Sip
<1>5. LoginPageIsBare'
  BY DEF LoginPageIsBare, TypeOK, Waiting, Registering, Pending, LateLogout
<1>6. RestoreIsAlone'
  BY DEF RestoreIsAlone, TypeOK, Waiting, SlowRestore
<1>7. OneUser'
  BY SMTT(60) DEF OneUser, LoginPageIsBare, LoggedOutHasNoPhone, RestoreIsAlone, TypeOK,
     Waiting, Registering, Pending, LateLogout, TwoLogins, SlowRestore
<1>8. SectionsHoldStored'
  BY DEF SectionsHoldStored, Passed, Typing, LateLogout, TwoLogins, SlowRestore, Registering
<1>9. QED
  BY <1>1, <1>2, <1>3, <1>4, <1>5, <1>6, <1>7, <1>8

\* A login begins.
LEMMA WebLoginInv ==
    ASSUME SessionInv, NEW f \in Flows, NEW u \in Users, WebLogin(f, u), UNCHANGED given
    PROVE  SessionInv'
<1> USE DEF SessionInv, given, rows, WebLogin, Begin, globals, page, server
<1>1. TypeOK'
  BY SessionAssumption DEF TypeOK, Passwords, Sip, Web, Typed, RowAnswers, Waiting, Registering, Free
<1>2. PasswordsStored'
  BY DEF PasswordsStored, Passed, RowAnswers, Typing, TypeOK, Waiting, Registering, Sip, Free
<1>3. LoginPageIsBare'
  BY DEF LoginPageIsBare, TypeOK, Waiting, Registering, Pending, LateLogout, Free
<1>4. RestoreIsAlone'
  BY DEF RestoreIsAlone, TypeOK, Waiting, SlowRestore, Free
<1>5. OneUser'
  BY DEF OneUser, LoginPageIsBare, LoggedOutHasNoPhone, RestoreIsAlone, TypeOK, Waiting,
     Registering, LateLogout, TwoLogins, SlowRestore, Free
<1>6. LoggedOutHasNoPhone' /\ TokenIsProfile' /\ SectionsHoldStored'
  BY DEF LoggedOutHasNoPhone, TokenIsProfile, SectionsHoldStored, Passed, Typing, LateLogout, TwoLogins,
     SlowRestore, Registering
<1>7. QED
  BY <1>1, <1>2, <1>3, <1>4, <1>5, <1>6

\* A login of a user without an extension is answered, and that is all.
LEMMA LoginEndsInv ==
    ASSUME SessionInv, NEW f \in Flows, LoginAnswered(f), UNCHANGED given, who[f] \in lacking
    PROVE  SessionInv'
<1> USE DEF SessionInv, given, rows, server, LoginAnswered, End
<1>1. TypeOK'
  BY DEF TypeOK, Waiting, Registering
<1>2. LoggedOutHasNoPhone' /\ LoginPageIsBare'
  BY DEF LoggedOutHasNoPhone, LoginPageIsBare
<1>3. TokenIsProfile'
  BY DEF TokenIsProfile
<1>6. RestoreIsAlone'
  BY DEF RestoreIsAlone, TypeOK, Waiting, SlowRestore
<1>7. OneUser'
  BY DEF OneUser, LoginPageIsBare, LoggedOutHasNoPhone, RestoreIsAlone, TypeOK, Waiting,
     Registering, LateLogout, TwoLogins, SlowRestore
<1>8. PasswordsStored'
  BY SessionAssumption DEF PasswordsStored, Passed, Typing, TypeOK, Waiting
<1>9. SectionsHoldStored'
  BY DEF SectionsHoldStored, Passed, Typing
<1>10. QED
  BY <1>1, <1>2, <1>3, <1>6, <1>7, <1>8, <1>9

\* What a login passes on is still that after others.
LEMMA PassedGrows ==
    ASSUME fellBack \subseteq fellBack'
    PROVE  \A u \in Users : Passed(u) \subseteq Passed(u)'
BY DEF Passed

\* A login is answered, and register-sip asked with the password it brings, or
\* with the web password.
LEMMA LoginRegistersInv ==
    ASSUME SessionInv, NEW f \in Flows, LoginAnswered(f), UNCHANGED given, who[f] \notin lacking
    PROVE  SessionInv'
<1> USE DEF SessionInv, given, rows
<1>0. PICK sip \in RowAnswers(f) : RegisterAfterLogin(f, sip)
  BY DEF LoginAnswered
<1> DEFINE password == IF sip = None THEN Web(who[f]) ELSE sip
           asked == [user |-> who[f], pass |-> password, absent |-> FALSE]
<1>a. /\ at[f] = "login" /\ who[f] \in Users /\ who' = who /\ stored' = stored
      /\ at' = [at EXCEPT ![f] = "register"] /\ pass' = [pass EXCEPT ![f] = password]
      /\ section' = section /\ stalled' = stalled \ {f}
      /\ request' = [request EXCEPT ![f] = IF who[f] \in {None} \cup lacking THEN None ELSE asked]
      /\ fellBack' = IF sip = None THEN fellBack \cup {who[f]} ELSE fellBack
  BY <1>0 DEF LoginAnswered, RegisterAfterLogin, AskRegisterSip, TypeOK, Waiting
<1>b. password \in Passwords
  BY <1>a, PasswordTypes DEF RowAnswers, TypeOK
<1>c. sip \in {Sip(who[f]), None}
  BY <1>a DEF RowAnswers, PasswordsStored
<1>d. \A u \in Users : Passed(u) \subseteq Passed(u)'
  <2>1. fellBack \subseteq fellBack'
    BY <1>a
  <2>2. QED
    BY <2>1, PassedGrows
<1>e. password \in Passed(who[f])'
  BY <1>a, <1>c DEF Passed
<1>f. /\ token' = who[f] /\ profile' = who[f] /\ memory' = who[f]
      /\ webForm' = FALSE /\ logoutBtn' = TRUE
      /\ UNCHANGED <<phone, isReady, sipForm, callSection, fields>>
  BY DEF LoginAnswered
<1>g. asked \in [user : Users, pass : Passwords, absent : BOOLEAN]
  BY <1>a, <1>b
<1>h. asked.user = who[f] /\ asked.pass = password
  OBVIOUS
<1> HIDE DEF password, asked
<1>1. TypeOK'
  <2>1. request' \in [Flows -> [user : Users, pass : Passwords, absent : BOOLEAN] \cup {None}]
    BY <1>a, <1>g DEF TypeOK
  <2>2. fellBack' \subseteq Users
    BY <1>a DEF TypeOK
  <2>3. at' \in [Flows -> {"idle", "login", "profile", "register", "form"}]
        /\ pass' \in [Flows -> Passwords \cup {None}]
    BY <1>a, <1>b DEF TypeOK
  <2>4. \A g \in Flows : (Waiting(g) => who[g] \in Users)' /\ (Registering(g) => pass[g] \in Passwords)'
    BY <1>a, <1>b DEF TypeOK, Waiting, Registering
  <2>5. QED
    BY <1>a, <1>f, <2>1, <2>2, <2>3, <2>4 DEF TypeOK
<1>2. LoggedOutHasNoPhone' /\ LoginPageIsBare'
  BY <1>a, <1>f DEF LoggedOutHasNoPhone, LoginPageIsBare
<1>3. TokenIsProfile'
  BY <1>a, <1>f DEF TokenIsProfile
<1>6. RestoreIsAlone'
  BY <1>a, <1>f DEF RestoreIsAlone, TypeOK, Waiting, SlowRestore
<1>7. OneUser'
  BY <1>a, <1>f DEF OneUser, LoginPageIsBare, LoggedOutHasNoPhone, RestoreIsAlone, TypeOK, Waiting,
     Registering, LateLogout, TwoLogins, SlowRestore
<1>8. PasswordsStored'
  <2>1. memory' # None
    BY <1>a, <1>f, SessionAssumption
  <2>2. \A g \in Flows : at'[g] \in {"login", "profile"} => pass'[g] \in {Sip(who'[g]), None}
    BY <1>a DEF PasswordsStored, TypeOK
  <2>3. ASSUME NEW g \in Flows, (at[g] = "register")' PROVE (pass[g] \in Passed(who[g]))'
    <3>1. CASE g = f
      BY <1>a, <1>e, <3>1 DEF TypeOK, Passed
    <3>2. CASE g # f
      <4>1. pass[g] \in Passed(who[g]) /\ who[g] \in Users
        BY <1>a, <2>3, <3>2 DEF PasswordsStored, TypeOK, Waiting
      <4>2. pass'[g] = pass[g] /\ who'[g] = who[g] /\ fellBack \subseteq fellBack'
        BY <1>a, <3>2 DEF TypeOK
      <4>3. QED
        BY <4>1, <4>2 DEF Passed
    <3>3. QED
      BY <3>1, <3>2
  <2>4. ASSUME ~Typing, NEW g \in Flows, (request[g] # None)'
        PROVE  (request[g].pass \in Passed(request[g].user))'
    <3>1. CASE g = f
      <4>1. request'[f] = asked
        BY <1>a, <2>4, <3>1 DEF TypeOK
      <4>2. QED
        BY <4>1, <1>e, <1>h, <3>1, <1>a DEF Passed
    <3>2. CASE g # f
      <4>1. request'[g] = request[g] /\ fellBack \subseteq fellBack'
        BY <1>a, <3>2 DEF TypeOK
      <4>2. request[g].pass \in Passed(request[g].user) /\ request[g].user \in Users
        BY <2>4, <4>1 DEF PasswordsStored, TypeOK
      <4>3. QED
        BY <4>1, <4>2 DEF Passed
    <3>3. QED
      BY <3>1, <3>2
  <2>5. QED
    BY <2>1, <2>2, <2>3, <2>4 DEF PasswordsStored, Typing, Passed
<1>9. SectionsHoldStored'
  BY <1>a, <1>d DEF SectionsHoldStored, Typing, Passed
<1>10. QED
  BY <1>1, <1>2, <1>3, <1>6, <1>7, <1>8, <1>9

LEMMA LoginAnsweredInv ==
    ASSUME SessionInv, NEW f \in Flows, LoginAnswered(f), UNCHANGED given
    PROVE  SessionInv'
BY LoginEndsInv, LoginRegistersInv

\* A login fails.
LEMMA LoginFailsInv ==
    ASSUME SessionInv, NEW f \in Flows, LoginFails(f), UNCHANGED given
    PROVE  SessionInv'
<1> USE DEF SessionInv, given, rows, LoginFails, End, globals, page, server
<1>1. TypeOK'
  BY SessionAssumption DEF TypeOK, Passwords, Sip, Web, Typed, RowAnswers, Waiting, Registering
<1>2. PasswordsStored'
  BY DEF PasswordsStored, Passed, RowAnswers, Typing, TypeOK, Waiting, Registering, Sip
<1>3. LoginPageIsBare'
  BY DEF LoginPageIsBare, TypeOK, Waiting, Registering, Pending, LateLogout
<1>4. RestoreIsAlone'
  BY DEF RestoreIsAlone, TypeOK, Waiting, SlowRestore
<1>5. OneUser'
  BY DEF OneUser, LoginPageIsBare, LoggedOutHasNoPhone, RestoreIsAlone, TypeOK, Waiting,
     Registering, LateLogout, TwoLogins, SlowRestore
<1>6. LoggedOutHasNoPhone' /\ TokenIsProfile' /\ SectionsHoldStored'
  BY DEF LoggedOutHasNoPhone, TokenIsProfile, SectionsHoldStored, Passed, Typing, LateLogout, TwoLogins,
     SlowRestore, Registering
<1>7. QED
  BY <1>1, <1>2, <1>3, <1>4, <1>5, <1>6

\* register-sip answers, and a phone is connected.
LEMMA RegisterAnsweredInv ==
    ASSUME SessionInv, NEW f \in Flows, RegisterAnswered(f), UNCHANGED given
    PROVE  SessionInv'
<1> USE DEF SessionInv, given, rows, RegisterAnswered, End, Connect, page, server
<1>1. TypeOK'
  BY SessionAssumption DEF TypeOK, Passwords, Sip, Web, Typed, RowAnswers, Waiting, Registering
<1>2. LoggedOutHasNoPhone'
  BY DEF LoggedOutHasNoPhone, LoginPageIsBare, TypeOK, Waiting, Registering, Pending, LateLogout
<1>3. PasswordsStored'
  BY DEF PasswordsStored, Passed, RowAnswers, Typing, TypeOK, Waiting, Registering, Sip
<1>4. LoginPageIsBare'
  BY DEF LoginPageIsBare, TypeOK, Waiting, Registering, Pending, LateLogout
<1>5. RestoreIsAlone'
  BY DEF RestoreIsAlone, TypeOK, Waiting, SlowRestore
<1>6. OneUser'
  BY DEF OneUser, LoginPageIsBare, LoggedOutHasNoPhone, RestoreIsAlone, TypeOK, Waiting,
     Registering, LateLogout, TwoLogins, SlowRestore
<1>7. TokenIsProfile' /\ SectionsHoldStored'
  BY DEF TokenIsProfile, SectionsHoldStored, Passed, Typing, LateLogout, TwoLogins, SlowRestore, Registering
<1>8. QED
  BY <1>1, <1>2, <1>3, <1>4, <1>5, <1>6, <1>7

\* register-sip fails: the form is shown, or tries the phone all the same.
LEMMA RegisterFailsInv ==
    ASSUME SessionInv, NEW f \in Flows, RegisterFails(f), UNCHANGED given
    PROVE  SessionInv'
<1> USE DEF SessionInv, given, rows, RegisterFails, End, Connect, server
<1>1. TypeOK'
  <2>1. /\ at' \in [Flows -> {"idle", "login", "profile", "register", "form"}]
        /\ who' \in [Flows -> Users \cup {None}] /\ pass' \in [Flows -> Passwords \cup {None}]
        /\ \A g \in Flows : (Waiting(g) => who[g] \in Users)' /\ (Registering(g) => pass[g] \in Passwords)'
    BY DEF TypeOK, Waiting, Registering
  <2>2. who[f] \in Users /\ pass[f] \in Passwords
    BY DEF TypeOK, Waiting, Registering
  <2>3. CASE at[f] = "register"
    BY <2>1, <2>2, <2>3 DEF TypeOK
  <2>4. CASE at[f] # "register"
    BY <2>1, <2>2, <2>4 DEF TypeOK
  <2>5. QED
    BY <2>3, <2>4
<1>2. LoggedOutHasNoPhone'
  BY DEF LoggedOutHasNoPhone, LoginPageIsBare, TypeOK, Waiting, Registering, Pending, LateLogout
<1>3. PasswordsStored'
  BY DEF PasswordsStored, Passed, RowAnswers, Typing, TypeOK, Waiting, Registering, Sip
<1>4. LoginPageIsBare'
  BY DEF LoginPageIsBare, TypeOK, Waiting, Registering, Pending, LateLogout
<1>5. RestoreIsAlone'
  BY DEF RestoreIsAlone, TypeOK, Waiting, SlowRestore
<1>6. OneUser'
  BY DEF OneUser, LoginPageIsBare, LoggedOutHasNoPhone, RestoreIsAlone, TypeOK, Waiting,
     Registering, LateLogout, TwoLogins, SlowRestore
<1>7. TokenIsProfile' /\ SectionsHoldStored'
  BY DEF TokenIsProfile, SectionsHoldStored, Passed, Typing, LateLogout, TwoLogins, SlowRestore, Registering
<1>8. QED
  BY <1>1, <1>2, <1>3, <1>4, <1>5, <1>6, <1>7

\* The form connects with the remembered password.
LEMMA SipRegisterInv ==
    ASSUME SessionInv, SipRegister, UNCHANGED given
    PROVE  SessionInv'
<1> USE DEF SessionInv, given, rows, SipRegister, Connect, page, flow, server
<1>1. TypeOK'
  BY SessionAssumption DEF TypeOK, Passwords, Sip, Web, Typed, RowAnswers, Waiting, Registering
<1>2. LoggedOutHasNoPhone'
  BY DEF LoggedOutHasNoPhone, LoginPageIsBare, TypeOK, Waiting, Registering, Pending, LateLogout
<1>3. OneUser'
  BY DEF OneUser, LoginPageIsBare, LoggedOutHasNoPhone, RestoreIsAlone, TypeOK, Waiting,
     Registering, LateLogout, TwoLogins, SlowRestore
<1>4. TokenIsProfile' /\ SectionsHoldStored' /\ PasswordsStored' /\ LoginPageIsBare' /\ RestoreIsAlone'
  BY DEF TokenIsProfile, SectionsHoldStored, Passed, Typing, PasswordsStored, LoginPageIsBare, RestoreIsAlone,
     LateLogout, TwoLogins, SlowRestore, Registering
<1>5. QED
  BY <1>1, <1>2, <1>3, <1>4

\* The form asks register-sip with the page's token.
LEMMA SipRegisterAsksInv ==
    ASSUME SessionInv, NEW f \in Flows, SipRegisterAsks(f), UNCHANGED given
    PROVE  SessionInv'
<1> USE DEF SessionInv, given, rows, SipRegisterAsks, Begin, AskRegisterSip, globals, page
<1>1. TypeOK'
  BY SessionAssumption DEF TypeOK, Passwords, Sip, Web, Typed, RowAnswers, Waiting, Registering, Free
<1>2. PasswordsStored'
  BY DEF PasswordsStored, Passed, RowAnswers, Typing, TypeOK, Waiting, Registering, Sip, Free
<1>3. LoginPageIsBare'
  BY DEF LoginPageIsBare, TypeOK, Waiting, Registering, Pending, LateLogout, Free
<1>4. RestoreIsAlone'
  BY DEF RestoreIsAlone, TypeOK, Waiting, SlowRestore, Free
<1>5. OneUser'
  BY DEF OneUser, LoginPageIsBare, LoggedOutHasNoPhone, RestoreIsAlone, TypeOK, Waiting,
     Registering, LateLogout, TwoLogins, SlowRestore, Free
<1>6. LoggedOutHasNoPhone' /\ TokenIsProfile' /\ SectionsHoldStored'
  BY DEF LoggedOutHasNoPhone, TokenIsProfile, SectionsHoldStored, Passed, Typing, LateLogout, TwoLogins,
     SlowRestore, Registering
<1>7. QED
  BY <1>1, <1>2, <1>3, <1>4, <1>5, <1>6

\* The form is skipped.
LEMMA SipSkipInv ==
    ASSUME SessionInv, SipSkip, UNCHANGED given
    PROVE  SessionInv'
<1> USE DEF SessionInv, given, rows, SipSkip, globals, flow, server
<1>1. TypeOK'
  BY SessionAssumption DEF TypeOK, Passwords, Sip, Web, Typed, RowAnswers, Waiting, Registering
<1>2. LoginPageIsBare'
  BY DEF LoginPageIsBare, TypeOK, Waiting, Registering, Pending, LateLogout
<1>3. RestoreIsAlone'
  BY DEF RestoreIsAlone, TypeOK, Waiting, SlowRestore
<1>4. OneUser'
  BY DEF OneUser, LoginPageIsBare, LoggedOutHasNoPhone, RestoreIsAlone, TypeOK, Waiting,
     Registering, LateLogout, TwoLogins, SlowRestore
<1>5. LoggedOutHasNoPhone' /\ TokenIsProfile' /\ SectionsHoldStored' /\ PasswordsStored'
  BY DEF LoggedOutHasNoPhone, TokenIsProfile, SectionsHoldStored, Passed, Typing, PasswordsStored, LateLogout,
     TwoLogins, SlowRestore, Registering
<1>6. QED
  BY <1>1, <1>2, <1>3, <1>4, <1>5

\* The phone is connected.
LEMMA RegisteredInv ==
    ASSUME SessionInv, Registered, UNCHANGED given
    PROVE  SessionInv'
<1> USE DEF SessionInv, given, rows, Registered, flow, server
<1>1. TypeOK'
  BY SessionAssumption DEF TypeOK, Passwords, Sip, Web, Typed, RowAnswers, Waiting, Registering
<1>2. LoggedOutHasNoPhone'
  BY DEF LoggedOutHasNoPhone, LoginPageIsBare, TypeOK, Waiting, Registering, Pending, LateLogout
<1>3. LoginPageIsBare'
  BY DEF LoginPageIsBare, TypeOK, Waiting, Registering, Pending, LateLogout
<1>4. RestoreIsAlone'
  BY DEF RestoreIsAlone, TypeOK, Waiting, SlowRestore
<1>5. OneUser'
  BY DEF OneUser, LoginPageIsBare, LoggedOutHasNoPhone, RestoreIsAlone, TypeOK, Waiting,
     Registering, LateLogout, TwoLogins, SlowRestore
<1>6. TokenIsProfile' /\ SectionsHoldStored' /\ PasswordsStored'
  BY DEF TokenIsProfile, SectionsHoldStored, Passed, Typing, PasswordsStored, LateLogout, TwoLogins,
     SlowRestore, Registering
<1>7. QED
  BY <1>1, <1>2, <1>3, <1>4, <1>5, <1>6

\* The phone is not connected.
LEMMA ConnectFailsInv ==
    ASSUME SessionInv, ConnectFails, UNCHANGED given
    PROVE  SessionInv'
<1> USE DEF SessionInv, given, rows, ConnectFails, page, flow, server
<1>1. TypeOK'
  BY SessionAssumption DEF TypeOK, Passwords, Sip, Web, Typed, RowAnswers, Waiting, Registering
<1>2. LoggedOutHasNoPhone'
  BY DEF LoggedOutHasNoPhone, LoginPageIsBare, TypeOK, Waiting, Registering, Pending, LateLogout
<1>3. OneUser'
  BY DEF OneUser, LoginPageIsBare, LoggedOutHasNoPhone, RestoreIsAlone, TypeOK, Waiting,
     Registering, LateLogout, TwoLogins, SlowRestore
<1>4. TokenIsProfile' /\ SectionsHoldStored' /\ PasswordsStored' /\ LoginPageIsBare' /\ RestoreIsAlone'
  BY DEF TokenIsProfile, SectionsHoldStored, Passed, Typing, PasswordsStored, LoginPageIsBare, RestoreIsAlone,
     LateLogout, TwoLogins, SlowRestore, Registering
<1>5. QED
  BY <1>1, <1>2, <1>3, <1>4

\* The asterisk service looks for the section.
LEMMA CreateReadsInv ==
    ASSUME SessionInv, NEW f \in Flows, CreateReads(f), UNCHANGED given
    PROVE  SessionInv'
<1> USE DEF SessionInv, given, rows, CreateReads, globals, page, flow
<1>1. TypeOK'
  <2>1. request[f] \in [user : Users, pass : Passwords, absent : BOOLEAN]
    BY DEF TypeOK
  <2>2. [request[f] EXCEPT !.absent = TRUE] \in [user : Users, pass : Passwords, absent : BOOLEAN]
    BY <2>1
  <2>3. request' \in [Flows -> [user : Users, pass : Passwords, absent : BOOLEAN] \cup {None}]
    BY <2>2 DEF TypeOK
  <2>4. QED
    BY <2>3 DEF TypeOK, Waiting, Registering
<1>2. PasswordsStored'
  BY DEF PasswordsStored, Passed, RowAnswers, Typing, TypeOK, Waiting, Registering, Sip
<1>3. LoggedOutHasNoPhone' /\ TokenIsProfile' /\ SectionsHoldStored' /\ LoginPageIsBare' /\ RestoreIsAlone' /\ OneUser'
  BY DEF LoggedOutHasNoPhone, TokenIsProfile, SectionsHoldStored, Passed, Typing, LoginPageIsBare,
     RestoreIsAlone, OneUser, LateLogout, TwoLogins, SlowRestore, Registering
<1>4. QED
  BY <1>1, <1>2, <1>3

\* It appends the section.
LEMMA CreateAppendsInv ==
    ASSUME SessionInv, NEW f \in Flows, CreateAppends(f), UNCHANGED given
    PROVE  SessionInv'
<1> USE DEF SessionInv, given, rows, CreateAppends, globals, page, flow
<1>1. TypeOK'
  BY SessionAssumption DEF TypeOK, Passwords, Sip, Web, Typed, RowAnswers, Waiting, Registering
<1>2. SectionsHoldStored'
  BY DEF SectionsHoldStored, Passed, Typing, PasswordsStored, Passed, Typing, TypeOK
<1>3. PasswordsStored'
  BY DEF PasswordsStored, Passed, RowAnswers, Typing, TypeOK, Waiting, Registering, Sip
<1>4. LoggedOutHasNoPhone' /\ TokenIsProfile' /\ LoginPageIsBare' /\ RestoreIsAlone' /\ OneUser'
  BY DEF LoggedOutHasNoPhone, TokenIsProfile, LoginPageIsBare, RestoreIsAlone, OneUser,
     LateLogout, TwoLogins, SlowRestore, Registering
<1>5. QED
  BY <1>1, <1>2, <1>3, <1>4

\* It fails.
LEMMA CreateFailsInv ==
    ASSUME SessionInv, NEW f \in Flows, CreateFails(f), UNCHANGED given
    PROVE  SessionInv'
<1> USE DEF SessionInv, given, rows, CreateFails, globals, page, flow
<1>1. TypeOK'
  BY SessionAssumption DEF TypeOK, Passwords, Sip, Web, Typed, RowAnswers, Waiting, Registering
<1>2. PasswordsStored'
  BY DEF PasswordsStored, Passed, RowAnswers, Typing, TypeOK, Waiting, Registering, Sip
<1>3. LoggedOutHasNoPhone' /\ TokenIsProfile' /\ SectionsHoldStored' /\ LoginPageIsBare' /\ RestoreIsAlone' /\ OneUser'
  BY DEF LoggedOutHasNoPhone, TokenIsProfile, SectionsHoldStored, Passed, Typing, LoginPageIsBare,
     RestoreIsAlone, OneUser, LateLogout, TwoLogins, SlowRestore, Registering
<1>4. QED
  BY <1>1, <1>2, <1>3

\* The user types into the form.
LEMMA TypesInv ==
    ASSUME SessionInv, NEW u \in Users, Types(u), UNCHANGED given
    PROVE  SessionInv'
<1> USE DEF SessionInv, given, rows, Types, globals, flow, server
<1>1. TypeOK'
  BY SessionAssumption DEF TypeOK, Passwords, Typed, Waiting, Registering
<1>2. PasswordsStored'
  BY DEF PasswordsStored, Passed, Typing
<1>3. OneUser'
  BY DEF OneUser, Typing, Registering
<1>4. LoggedOutHasNoPhone' /\ TokenIsProfile' /\ SectionsHoldStored' /\ LoginPageIsBare' /\ RestoreIsAlone'
  BY DEF LoggedOutHasNoPhone, TokenIsProfile, SectionsHoldStored, Passed, Typing, LoginPageIsBare,
     RestoreIsAlone, LateLogout, SlowRestore, Registering
<1>5. QED
  BY <1>1, <1>2, <1>3, <1>4

\* A row is given its SIP password.
LEMMA DrawsInv ==
    ASSUME SessionInv, NEW u \in Users, Draws(u), UNCHANGED given
    PROVE  SessionInv'
<1> USE DEF SessionInv, given, Draws, globals, page, flow
<1>1. TypeOK'
  BY DEF TypeOK, Waiting, Registering
<1>2. PasswordsStored' /\ OneUser'
  BY DEF PasswordsStored, Passed, Typing, OneUser, Registering
<1>3. LoggedOutHasNoPhone' /\ TokenIsProfile' /\ SectionsHoldStored' /\ LoginPageIsBare' /\ RestoreIsAlone'
  BY DEF LoggedOutHasNoPhone, TokenIsProfile, SectionsHoldStored, Passed, Typing, LoginPageIsBare,
     RestoreIsAlone, LateLogout, SlowRestore, Registering
<1>4. QED
  BY <1>1, <1>2, <1>3

\* The body of an answer stalls.
LEMMA BodyStallsInv ==
    ASSUME SessionInv, NEW f \in Flows, BodyStalls(f), UNCHANGED given
    PROVE  SessionInv'
<1> USE DEF SessionInv, given, rows, BodyStalls, globals, page, server
<1>1. TypeOK'
  BY DEF TypeOK, Waiting, Registering
<1>2. PasswordsStored' /\ OneUser'
  BY DEF PasswordsStored, Passed, Typing, OneUser, Registering
<1>3. LoggedOutHasNoPhone' /\ TokenIsProfile' /\ SectionsHoldStored' /\ LoginPageIsBare' /\ RestoreIsAlone'
  BY DEF LoggedOutHasNoPhone, TokenIsProfile, SectionsHoldStored, Passed, Typing, LoginPageIsBare,
     RestoreIsAlone, LateLogout, SlowRestore, Registering
<1>4. QED
  BY <1>1, <1>2, <1>3

LEMMA StutterInv == SessionInv /\ UNCHANGED vars => SessionInv'
<1> SUFFICES ASSUME SessionInv, UNCHANGED vars PROVE SessionInv'
  OBVIOUS
<1> USE DEF SessionInv, given, rows, vars, globals, page, flow, server, LateLogout, TwoLogins, SlowRestore, Registering
<1>1. TypeOK'
  BY DEF TypeOK, Waiting
<1>2. LoggedOutHasNoPhone' /\ TokenIsProfile' /\ SectionsHoldStored' /\ LoginPageIsBare'
  BY DEF LoggedOutHasNoPhone, TokenIsProfile, SectionsHoldStored, Passed, Typing, LoginPageIsBare
<1>3. PasswordsStored' /\ RestoreIsAlone' /\ OneUser'
  BY DEF PasswordsStored, Passed, RowAnswers, Typing, RestoreIsAlone, OneUser
<1>4. QED
  BY <1>1, <1>2, <1>3

\* The inductive invariant of the session: the types, the properties below, and
\* what the flows, the forms and the page know of each other.
THEOREM SessionInvariance == Spec => []SessionInv
<1>1. ASSUME SessionInv, [Next]_vars PROVE SessionInv'
  <2>1. ASSUME NEW f \in Flows, Settles(f), UNCHANGED given PROVE SessionInv'
    BY <1>1, <2>1, RestoreAnsweredInv, RestoreFailsInv, LoginAnsweredInv, LoginFailsInv,
       RegisterAnsweredInv, RegisterFailsInv DEF Settles
  <2>2. ASSUME NEW f \in Flows, Creates(f), UNCHANGED given PROVE SessionInv'
    BY <1>1, <2>2, CreateReadsInv, CreateAppendsInv, CreateFailsInv DEF Creates
  <2>3. QED
    BY <1>1, <2>1, <2>2, PageLoadsInv, SipRegisterAsksInv, WebLoginInv, RegisteredInv,
       ConnectFailsInv,
       SipRegisterInv, SipSkipInv, LogoutInv, TypesInv, DrawsInv, BodyStallsInv, StutterInv DEF Next, Connects
<1>2. QED
  BY <1>1, InitInv, PTL DEF Spec

\* The types, for any users and flows.
THEOREM SessionTypes == Spec => []TypeOK
BY SessionInvariance, PTL DEF SessionInv

\* Unless somebody logs out while a flow is under way, a page that asks for a
\* login has no phone (app.js logout, autoRegisterSip).
THEOREM LoggedOutIsQuiet == Spec => []LoggedOutHasNoPhone
BY SessionInvariance, PTL DEF SessionInv

\* The page is one user's: without races its phone is that of its profile, and
\* unless a login overlaps the restored session, so is its token.
THEOREM PageOfOneUser == Spec => []PageIsOneUsers
<1>1. SessionInv => PageIsOneUsers
  BY DEF SessionInv, OneUser, PageIsOneUsers, PhoneIsProfile
<1>2. QED
  BY <1>1, SessionInvariance, PTL

\* Whatever races, the section of an extension has the SIP password stored for
\* its user, or two requests left two sections.
THEOREM SectionsAreStored == Spec => []SectionsHoldStored
BY SessionInvariance, PTL DEF SessionInv
=============================================================================
