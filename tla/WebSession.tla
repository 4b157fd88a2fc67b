----------------------------- MODULE WebSession -----------------------------
(***************************************************************************)
(* The browser's session (backend/gateway/frontend/js/app.js): web login,  *)
(* the login a page load restores, the registration that follows a login,  *)
(* the SIP form and logout; with what register-sip does behind them        *)
(* (gateway app.controller.ts, asterisk.service.ts).  The other writers of *)
(* pjsip.conf are in Provisioning and Registration.                        *)
(*                                                                         *)
(* Each of these async functions runs beside the others: a call of one is  *)
(* a flow, which waits for one answer at a time and then goes on with      *)
(* whatever the page's globals have become.  An answer comes, or           *)
(* apiRequest gives up after 15 s, while the gateway may still be at work: *)
(* it allows each of register-sip's two requests 10 s.  The 15 s end with  *)
(* the answer's headers: a body that stalls after them is waited for as    *)
(* long as it takes.                                                       *)
(***************************************************************************)
EXTENDS Integers, FiniteSets

CONSTANTS
    Users,       \* users, and their extensions
    Flows,       \* bound: calls of the async functions at once
    None,        \* nobody, nothing
    Races,       \* the sets of races that may happen together, see below
    Unusual      \* [Races -> bound: users without an extension, or a SIP password at first]

ASSUME SessionAssumption ==
    /\ None \notin Users
    /\ Races \subseteq SUBSET {"LateLogout", "TwoLogins", "SlowRestore", "Typing", "SlowBody"}
    /\ Unusual \in [Races -> Nat]

VARIABLES
    races,       \* the one of Races that may happen in this behaviour (constant)
    lacking,     \* users without an extension; nothing gives them one (constant)
    token,       \* accessToken, also in localStorage: whose it is
    profile,     \* userProfile: whose it is
    memory,      \* webPasswordMemory: whose web password it is
    phone,       \* simpleUser: [user, pass, state], or None
    isReady,
    webForm,     \* is the web login form shown?
    sipForm,     \* is the SIP form shown?
    callSection, \* is the dial pad shown?
    logoutBtn,   \* is the logout button shown?
    fields,      \* the SIP form's fields: [user, pass], or None
    at,          \* [Flows -> answer it waits for, "form": register-sip's to the SIP form]
    who,         \* [Flows -> the user it is about, or None]
    pass,        \* [Flows -> the password it passes on; of a login and a restored session
                 \*  the SIP password of the user's row when it was asked for, or None]
    stalled,     \* flows whose answer has come without its body
    request,     \* [Flows -> its register-sip in the gateway: [user, pass, step], or None]
    section,     \* [Users -> password of the extension's section in pjsip.conf]
    stored,      \* users whose row has a SIP password
    fellBack     \* history: users to whom a login was answered without one

globals == <<token, profile, memory, phone, isReady>>
page    == <<webForm, sipForm, callSection, logoutBtn, fields>>
flow    == <<at, who, pass, stalled>>
rows    == <<stored, fellBack>>
server  == <<request, section, rows>>
given   == <<races, lacking>>
vars    == <<given, globals, page, flow, server>>

LateLogout  == "LateLogout" \in races   \* logging out before a flow has ended
TwoLogins   == "TwoLogins" \in races    \* Enter in the web form while a login waits
SlowRestore == "SlowRestore" \in races  \* a login while the stored one is being restored
Typing      == "Typing" \in races       \* another extension or password in the SIP form
SlowBody    == "SlowBody" \in races     \* an answer's body that stalls after its headers

\* The SIP password of a user's row, and the password of the web login.
Sip(u) == [kind |-> "sip", of |-> u]
Web(u) == [kind |-> "web", of |-> u]
\* Another one, typed into the SIP form.
Typed == [kind |-> "typed", of |-> None]
Passwords == {Sip(u) : u \in Users} \cup {Web(u) : u \in Users} \cup {Typed}
Doubled == [kind |-> "doubled", of |-> None]

Waiting(f) == at[f] # "idle"
Free(f)    == ~Waiting(f) /\ request[f] = None
Registering(f) == at[f] \in {"register", "form"}
Pending    == {f \in Flows : Waiting(f)}

\* The SIP passwords f's answer may bring: the row is read at any moment since f
\* asked for it.
RowAnswers(f) == {pass[f]} \cup {Sip(u) : u \in stored \cap {who[f]}}

\* What a login passes on for u: the stored SIP password; without one, where
\* Midpoint did not confirm the login, the web password.
Passed(u) == {Sip(u)} \cup (IF u \in fellBack THEN {Web(u)} ELSE {})

TypeOK ==
    /\ races \in Races /\ lacking \subseteq Users
    /\ {token, profile, memory} \subseteq Users \cup {None}
    /\ phone \in [user : Users, pass : Passwords, state : {"connecting", "up", "failed"}] \cup {None}
    /\ {isReady, webForm, sipForm, callSection, logoutBtn} \subseteq BOOLEAN
    /\ fields \in [user : Users, pass : Passwords \cup {None}] \cup {None}
    /\ at \in [Flows -> {"idle", "login", "profile", "register", "form"}]
    /\ who \in [Flows -> Users \cup {None}]
    /\ pass \in [Flows -> Passwords \cup {None}]
    /\ \A f \in Flows : Waiting(f) => who[f] \in Users
    /\ \A f \in Flows : Registering(f) => pass[f] \in Passwords
    /\ request \in [Flows -> [user : Users, pass : Passwords, absent : BOOLEAN] \cup {None}]
    /\ section \in [Users -> Passwords \cup {Doubled, None}]
    /\ stored \subseteq Users /\ fellBack \subseteq Users
    /\ stalled \subseteq Flows

\* A page loaded with nothing stored.
Init ==
    /\ races \in Races /\ lacking \in SUBSET Users /\ stored \in SUBSET Users
    /\ Cardinality(lacking) + Cardinality(Users \ stored) <= Unusual[races]
    /\ token = None /\ profile = None /\ memory = None /\ phone = None /\ isReady = FALSE
    /\ webForm = TRUE /\ sipForm = FALSE /\ callSection = TRUE /\ logoutBtn = FALSE
    /\ fields = None
    /\ at = [f \in Flows |-> "idle"]
    /\ who = [f \in Flows |-> None] /\ pass = [f \in Flows |-> None]
    /\ request = [f \in Flows |-> None]
    /\ section = [u \in Users |-> None]
    /\ fellBack = {} /\ stalled = {}

-----------------------------------------------------------------------------
(* What the flows have in common.                                          *)

Begin(f, u, answer) ==
    /\ Free(f)
    /\ at' = [at EXCEPT ![f] = answer]
    /\ who' = [who EXCEPT ![f] = u]

End(f) ==
    /\ at' = [at EXCEPT ![f] = "idle"]
    /\ who' = [who EXCEPT ![f] = None]
    /\ pass' = [pass EXCEPT ![f] = None]
    /\ stalled' = stalled \ {f}

\* POST register-sip with the password and u's token; the gateway refuses without
\* a token, and a user without an extension.
AskRegisterSip(f, u, password) ==
    /\ pass' = [pass EXCEPT ![f] = password]
    /\ request' = [request EXCEPT ![f] = IF u \in {None} \cup lacking THEN None
                       ELSE [user |-> u, pass |-> password, absent |-> FALSE]]
    /\ UNCHANGED section

\* sipRegisterWithCreds: the new SimpleUser takes the place of the old one.
\* isReady stays as it is.
Connect(u, password) == phone' = [user |-> u, pass |-> password, state |-> "connecting"]

-----------------------------------------------------------------------------
(* The page.                                                               *)

\* The page is loaded again: only the stored token is left, and the flows of the
\* old page are gone.  checkExistingSession asks for the profile.
PageLoads(f) ==
    /\ Free(f)
    /\ profile' = None /\ memory' = None /\ phone' = None /\ isReady' = FALSE
    /\ webForm' = TRUE /\ sipForm' = FALSE /\ callSection' = TRUE /\ logoutBtn' = FALSE
    /\ fields' = None
    /\ at' = [g \in Flows |-> IF g = f /\ token # None THEN "profile" ELSE "idle"]
    /\ who' = [g \in Flows |-> IF g = f THEN token ELSE None]
    /\ pass' = [g \in Flows |-> IF g = f /\ token \in stored THEN Sip(token) ELSE None]
    /\ stalled' = {}
    /\ UNCHANGED <<token, server>>

\* The SIP form is shown to a user with an extension; its password field is
\* filled only from a row with a password.
RestoreAnswered(f) ==
    /\ at[f] = "profile"
    /\ profile' = who[f]
    /\ webForm' = FALSE /\ logoutBtn' = TRUE
    /\ IF who[f] \in lacking THEN UNCHANGED <<sipForm, fields>>
         ELSE /\ sipForm' = TRUE
              /\ \E password \in RowAnswers(f) :
                    fields' = [user |-> who[f],
                               pass |-> IF password = None /\ fields # None
                                          THEN fields.pass ELSE password]
    /\ End(f)
    /\ UNCHANGED <<token, memory, phone, isReady, callSection, server>>

\* Whatever the error, the token is forgotten.
RestoreFails(f) ==
    /\ at[f] = "profile"
    /\ token' = None
    /\ End(f)
    /\ UNCHANGED <<profile, memory, phone, isReady, page, server>>

\* Mutant of Logout: the profile is left.
LogoutKeepsProfile ==
    /\ logoutBtn /\ (LateLogout \/ Pending = {})
    /\ token' = None /\ memory' = None /\ phone' = None /\ isReady' = FALSE
    /\ webForm' = TRUE /\ sipForm' = FALSE /\ callSection' = FALSE /\ logoutBtn' = FALSE
    /\ UNCHANGED <<profile, fields, flow, server>>

\* Mutant of Logout: the SimpleUser is left.
LogoutKeepsPhone ==
    /\ logoutBtn /\ (LateLogout \/ Pending = {})
    /\ token' = None /\ profile' = None /\ memory' = None /\ isReady' = FALSE
    /\ webForm' = TRUE /\ sipForm' = FALSE /\ callSection' = FALSE /\ logoutBtn' = FALSE
    /\ UNCHANGED <<phone, fields, flow, server>>

Logout ==
    /\ logoutBtn /\ (LateLogout \/ Pending = {})
    /\ token' = None /\ profile' = None /\ memory' = None /\ phone' = None /\ isReady' = FALSE
    /\ webForm' = TRUE /\ sipForm' = FALSE /\ callSection' = FALSE /\ logoutBtn' = FALSE
    /\ UNCHANGED <<fields, flow, server>>

-----------------------------------------------------------------------------
(* webLogin and autoRegisterSip.                                           *)

WebLogin(f, u) ==
    /\ webForm
    /\ TwoLogins \/ \A g \in Flows : at[g] # "login"
    /\ SlowRestore \/ \A g \in Flows : at[g] # "profile"
    /\ Begin(f, u, "login")
    /\ pass' = [pass EXCEPT ![f] = IF u \in stored THEN Sip(u) ELSE None]
    /\ UNCHANGED <<globals, page, stalled, server>>

\* register-sip is asked with the SIP password the login's answer brings, or
\* with the web password where it brings none (null).
RegisterAfterLogin(f, sipPassword) ==
    /\ at' = [at EXCEPT ![f] = "register"]
    /\ AskRegisterSip(f, who[f], IF sipPassword = None THEN Web(who[f]) ELSE sipPassword)
    /\ fellBack' = IF sipPassword = None THEN fellBack \cup {who[f]} ELSE fellBack
    /\ stalled' = stalled \ {f}
    /\ UNCHANGED <<who, stored>>

\* Mutant of LoginAnswered: register-sip is given the web password.
LoginRegistersWeb(f) ==
    /\ at[f] = "login"
    /\ token' = who[f] /\ profile' = who[f] /\ memory' = who[f]
    /\ webForm' = FALSE /\ logoutBtn' = TRUE
    /\ at' = [at EXCEPT ![f] = "register"]
    /\ AskRegisterSip(f, who[f], Web(who[f]))
    /\ stalled' = stalled \ {f}
    /\ UNCHANGED <<phone, isReady, sipForm, callSection, fields, who, rows>>

\* The login's answer.  Without an extension there is nothing to register, and
\* the message saying so is in the web form, which has just been hidden.
LoginAnswered(f) ==
    /\ at[f] = "login"
    /\ token' = who[f] /\ profile' = who[f] /\ memory' = who[f]
    /\ webForm' = FALSE /\ logoutBtn' = TRUE
    /\ IF who[f] \in lacking THEN End(f) /\ UNCHANGED server
         ELSE \E sipPassword \in RowAnswers(f) : RegisterAfterLogin(f, sipPassword)
    /\ UNCHANGED <<phone, isReady, sipForm, callSection, fields>>

LoginFails(f) ==
    /\ at[f] = "login"
    /\ End(f)
    /\ UNCHANGED <<globals, page, server>>

\* register-sip has answered, which it does also when createExtension failed.
RegisterAnswered(f) ==
    /\ Registering(f)
    /\ Connect(who[f], pass[f])
    /\ End(f)
    /\ UNCHANGED <<token, profile, memory, isReady, page, server>>

\* Mutant of RegisterFails: after a login the SIP form is not shown.
RegisterFailsSilently(f) ==
    /\ Registering(f)
    /\ IF at[f] = "register" THEN UNCHANGED phone ELSE Connect(who[f], pass[f])
    /\ End(f)
    /\ UNCHANGED <<token, profile, memory, isReady, page, server>>

\* An error, or 15 s without an answer.  After a login the SIP form is shown,
\* filled in; the SIP form itself goes on with the default server.
RegisterFails(f) ==
    /\ Registering(f)
    /\ IF at[f] = "register"
         THEN /\ fields' = [user |-> who[f], pass |-> pass[f]]
              /\ sipForm' = TRUE
              /\ UNCHANGED phone
         ELSE Connect(who[f], pass[f]) /\ UNCHANGED <<fields, sipForm>>
    /\ End(f)
    /\ UNCHANGED <<token, profile, memory, isReady, webForm, callSection, logoutBtn, server>>

-----------------------------------------------------------------------------
(* The SIP form and SIP.js.                                                *)

\* The user types into the form: any extension, another password.
Types(extension) ==
    /\ Typing /\ sipForm
    /\ fields' = [user |-> extension, pass |-> Typed]
    /\ UNCHANGED <<globals, webForm, sipForm, callSection, logoutBtn, flow, server>>

\* sipRegister while the web password is remembered: it is used in place of the
\* field's, and register-sip is not asked.
SipRegister ==
    /\ sipForm /\ fields # None /\ memory # None
    /\ Connect(fields.user, Web(memory))
    /\ UNCHANGED <<token, profile, memory, isReady, page, flow, server>>

\* sipRegister otherwise, with both fields filled: register-sip is asked first.
SipRegisterAsks(f) ==
    /\ sipForm /\ fields # None /\ memory = None
    /\ fields.pass # None
    /\ Begin(f, fields.user, "form")
    /\ AskRegisterSip(f, token, fields.pass)
    /\ UNCHANGED <<globals, page, stalled, rows>>

SipSkip ==
    /\ sipForm
    /\ sipForm' = FALSE /\ callSection' = TRUE
    /\ UNCHANGED <<globals, webForm, logoutBtn, fields, flow, server>>

\* onServerConnect: the REGISTER is sent.
Registered ==
    /\ phone # None /\ phone.state = "connecting"
    /\ phone' = [phone EXCEPT !.state = "up"]
    /\ isReady' = TRUE /\ callSection' = TRUE /\ sipForm' = FALSE
    /\ UNCHANGED <<token, profile, memory, webForm, logoutBtn, fields, flow, server>>

\* connect() is rejected: a message, and nothing else.
ConnectFails ==
    /\ phone # None /\ phone.state = "connecting"
    /\ phone' = [phone EXCEPT !.state = "failed"]
    /\ UNCHANGED <<token, profile, memory, isReady, page, flow, server>>

-----------------------------------------------------------------------------
(* register-sip in the gateway and the asterisk service: the user is the   *)
(* one of the token, the password the one of the request.                  *)

\* The section exists, and nothing is written; or the file was read without it.
CreateReads(f) ==
    /\ request[f] # None /\ ~request[f].absent
    /\ request' = [request EXCEPT ![f] =
            IF section[@.user] # None THEN None ELSE [@ EXCEPT !.absent = TRUE]]
    /\ UNCHANGED <<globals, page, flow, section, rows>>

\* createExtension appends its section to what the file has become.
CreateAppends(f) ==
    /\ request[f] # None /\ request[f].absent
    /\ request' = [request EXCEPT ![f] = None]
    /\ section' = [section EXCEPT ![request[f].user] = IF @ = None THEN request[f].pass ELSE Doubled]
    /\ UNCHANGED <<globals, page, flow, rows>>

\* One of the services fails, or its answer is lost.
CreateFails(f) ==
    /\ request[f] # None
    /\ request' = [request EXCEPT ![f] = None]
    /\ UNCHANGED <<globals, page, flow, section, rows>>

-----------------------------------------------------------------------------

\* A login that Midpoint confirmed, here or from another browser, has saved a
\* drawn SIP password in a row without one.
Draws(u) ==
    /\ stored' = stored \cup {u}
    /\ UNCHANGED <<globals, page, flow, request, section, fellBack>>

\* The headers of f's answer have come, and with them the 15 s have ended, but
\* its body does not.
BodyStalls(f) ==
    /\ SlowBody /\ Waiting(f)
    /\ stalled' = stalled \cup {f}
    /\ UNCHANGED <<globals, page, at, who, pass, server>>

Settles(f) == RestoreAnswered(f) \/ RestoreFails(f) \/ LoginAnswered(f) \/ LoginFails(f)
                \/ RegisterAnswered(f) \/ RegisterFails(f)
Creates(f) == CreateReads(f) \/ CreateAppends(f) \/ CreateFails(f)
Connects   == Registered \/ ConnectFails

Next ==
    /\ \/ \E f \in Flows : \/ PageLoads(f) \/ SipRegisterAsks(f)
                           \/ Settles(f) \/ Creates(f) \/ BodyStalls(f)
       \/ \E f \in Flows, u \in Users : WebLogin(f, u)
       \/ \E u \in Users : Types(u) \/ Draws(u)
       \/ Connects \/ SipRegister \/ SipSkip \/ Logout
    /\ UNCHANGED given

Spec == Init /\ [][Next]_vars

\* apiRequest gives up after 15 s on an answer whose headers have not come, SIP.js's
\* transport on a connection after 5 s.  Nothing ends the wait for a stalled body.
FairSpec ==
    /\ Spec
    /\ \A f \in Flows : WF_vars(f \notin stalled /\ Settles(f) /\ UNCHANGED given)
    /\ WF_vars(Connects /\ UNCHANGED given)

-----------------------------------------------------------------------------
(* Properties.                                                             *)

\* A page that asks for a login has no phone: nobody who logged out is called,
\* or calls, under the old extension.  It holds unless somebody logs out while
\* the registration is still being prepared: autoRegisterSip then goes on and
\* connects a phone on the login page.
LoggedOutHasNoPhone == ~LateLogout => (webForm => phone = None /\ ~isReady)

\* The phone is the extension of the user the page shows, unless a login, its
\* registration or the restored session overlaps with another one's, or the user
\* types another extension.
PhoneIsProfile == races \subseteq {"SlowBody"} /\ phone # None /\ profile # None => phone.user = profile

\* The requests of a page carry the token of the user it shows, whoever logs in
\* and out: only a stored token that is refused after a new login has been
\* answered takes the token of the new login away.
TokenIsProfile == ~SlowRestore /\ profile # None => token = profile

\* Both: the page is one user's.
PageIsOneUsers == PhoneIsProfile /\ TokenIsProfile

\* Unless somebody types a password, whatever races, reloads and failures there
\* were, the section that register-sip leaves in pjsip.conf for an extension has
\* the SIP password of that extension's own user, which later logins register
\* with, or two requests that overlapped left two.  It has the user's web password
\* only after a login that brought no SIP password: the row had none, and Midpoint
\* did not confirm the login.
SectionsHoldStored ==
    ~Typing => \A u \in Users : section[u] \in Passed(u) \cup {None, Doubled}

\* What makes the above inductive.  Whatever races: register-sip is given what a
\* login passes on, by the form too, which without a remembered login has the
\* fields of the restored session and its token.
PasswordsStored ==
    /\ \A f \in Flows : at[f] \in {"login", "profile"} => pass[f] \in {Sip(who[f]), None}
    /\ \A f \in Flows : at[f] = "register" => pass[f] \in Passed(who[f])
    /\ ~Typing =>
          /\ \A f \in Flows : request[f] # None => request[f].pass \in Passed(request[f].user)
          /\ memory = None /\ token # None =>
                /\ \A f \in Flows : at[f] = "profile" => who[f] = token
                /\ fields # None => fields.user = token /\ fields.pass \in {Sip(token), None}
                /\ \A f \in Flows : at[f] # "register"

\* The login page is only that.
LoginPageIsBare ==
    ~LateLogout => (webForm => ~sipForm /\ \A f \in Flows : ~Registering(f))

\* Nothing happens beside the restoring of a session.
RestoreIsAlone ==
    ~SlowRestore => \A f \in Flows : at[f] = "profile" =>
        /\ who[f] = token /\ profile = None
        /\ ~logoutBtn /\ ~sipForm
        /\ \A g \in Flows \ {f} : at[g] = "idle"

\* Without races a login is the only one, and all the rest is about its user.
OneUser ==
    races \subseteq {"SlowBody"} =>
        /\ \A f \in Flows : at[f] \in {"login", "profile"} => webForm
        /\ \A f, g \in Flows : at[f] = "login" /\ f # g => at[g] \notin {"login", "profile"}
        /\ \A f \in Flows : Registering(f) => who[f] = profile
        /\ sipForm /\ fields # None => fields.user = profile
        /\ phone # None => phone.user = profile

SessionInv ==
    /\ TypeOK
    /\ LoggedOutHasNoPhone /\ TokenIsProfile /\ SectionsHoldStored
    /\ PasswordsStored /\ LoginPageIsBare /\ RestoreIsAlone /\ OneUser

\* A page without a login form and a dial pad does not stay so, whichever
\* answers fail or never come, unless it is the connection to Asterisk that
\* failed, the body of register-sip's answer that stalled, or the user has no
\* extension: nothing then offers another try but logging out.
BlankPageEnds ==
    (~webForm /\ ~sipForm /\ ~callSection)
        ~> \/ webForm \/ sipForm \/ callSection
           \/ phone # None /\ phone.state = "failed"
           \/ \E f \in stalled : Registering(f)
           \/ profile \in lacking
=============================================================================
