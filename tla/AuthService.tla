---------------------------- MODULE AuthService -----------------------------
(***************************************************************************)
(* Users of the auth service (backend/auth/src/auth.service.ts): login     *)
(* against midPoint with the local hash as fallback, register with the     *)
(* next SIP extension, and the import's role synchronisation.  Each of     *)
(* them reads the table users, awaits something, and writes what it read   *)
(* back; a call is a step per await.                                       *)
(*                                                                         *)
(* A row is what the calls tell apart: the extension, the role, the SIP    *)
(* password (named after the call that drew it), and whether there is a    *)
(* password hash.  Whether a password is right is decided when the call    *)
(* starts (midPoint) or when bcrypt is asked (the local hash).             *)
(***************************************************************************)
EXTENDS Integers, FiniteSets, FiniteSetsExt

CONSTANTS
    Users,       \* user names
    Calls,       \* bound: calls made to the service
    Kinds,       \* subset of {"login", "register", "sync"}
    Taken,       \* extensions of the other rows of the table
    SeedRows,    \* users that have a row from the start
    SeedExts,    \* the extensions these rows may have
    SyncRole,    \* role the import's list gives its users
    MaxFaults,   \* bound: failures, and changes made in midPoint
    NoRow,       \* model values: no row of the table,
    NoAnswer,    \* a call not answered yet (or nobody waits for it),
    Failed       \* and one answered with an error

Roles  == {"Admin", "AgenteCallCenter"}
NoRole == "none"
NoSip  == "null"
Row == [ext : Nat, role : Roles, sip : Calls \cup {"seed", NoSip}, hash : BOOLEAN]

ASSUME AuthAssumption ==
    /\ Kinds \subseteq {"login", "register", "sync"}
    /\ Taken \subseteq Nat /\ SeedExts \subseteq Nat
    /\ \A e \in Taken \cup SeedExts : 1000 <= e /\ e <= 99999
    /\ Taken # {} /\ Taken \cap SeedExts = {}
    /\ SeedRows \subseteq Users
    /\ SyncRole \in Roles
    /\ MaxFaults \in Nat
    /\ IsFiniteSet(Users) /\ {"seed", NoSip} \cap Calls = {}
    /\ Failed # NoAnswer /\ {NoRow, NoAnswer, Failed} \cap Row = {}

VARIABLES
    row,       \* [Users -> row of table users, or NoRow]
    seedHasSip,\* do the rows of the start have a SIP password and a hash? (constant)
    midpoint,  \* [Users -> role midPoint reports, NoRole for none, "absent" for no account]
    kind,      \* [Calls -> operation]
    user,      \* [Calls -> user it is about]
    right,     \* [Calls -> is the password midPoint's?]
    step,      \* [Calls -> the await the call is at]
    entity,    \* [Calls -> the entity it read or built]
    answer,    \* [Calls -> NoAnswer, Failed, or the user the answer describes]
    faults

calls == <<kind, user, right, step, entity, answer>>
vars  == <<seedHasSip, row, midpoint, calls, faults>>

-----------------------------------------------------------------------------
(* Extension numbers: sip_extension is a VARCHAR.                          *)

\* The order of MAX(sip_extension), on the four- and five-digit numbers: digit
\* by digit, and a prefix comes first.
Padded(n) == IF n < 10000 THEN 10 * n ELSE n
TextLess(m, n) == Padded(m) < Padded(n) \/ (Padded(m) = Padded(n) /\ m < n)
TextMax(S) == CHOOSE m \in S : \A n \in S \ {m} : TextLess(n, m)

Known     == {u \in Users : row[u] # NoRow}
Extension == Taken \cup {row[u].ext : u \in Known}

\* Mutant of NextExt: the number of rows is counted.
ExtByCount == Min(Extension) + Cardinality(Extension)

\* Mutant of NextExt: no + 1.
SameExt == TextMax(Extension)

NextExt   == TextMax(Extension) + 1

-----------------------------------------------------------------------------

TypeOK ==
    /\ row \in [Users -> Row \cup {NoRow}]
    /\ seedHasSip \in BOOLEAN
    /\ midpoint \in [Users -> Roles \cup {NoRole, "absent"}]
    /\ kind \in [Calls -> Kinds \cup {"none"}]
    /\ user \in [Calls -> Users \cup {"none"}]
    /\ right \in [Calls -> BOOLEAN]
    /\ step \in [Calls -> {"idle", "find", "ask", "max", "insert", "save", "ended"}]
    /\ entity \in [Calls -> Row \cup {NoRow}]
    /\ answer \in [Calls -> Row \cup {NoAnswer, Failed}]
    /\ faults \in 0..MaxFaults

\* A row of init.sql, or one inserted without passwords, for the first login
\* to complete.
SeedRow(e) ==
    [ext |-> e, role |-> "AgenteCallCenter",
     sip |-> IF seedHasSip THEN "seed" ELSE NoSip, hash |-> seedHasSip]

Init ==
    /\ seedHasSip \in BOOLEAN
    /\ row \in [Users -> {NoRow} \cup {SeedRow(e) : e \in SeedExts}]
    /\ Known = SeedRows
    /\ \A u, v \in SeedRows : u # v => row[u].ext # row[v].ext
    /\ midpoint \in [Users -> {"absent"} \cup Roles]
    /\ kind = [c \in Calls |-> "none"]
    /\ user = [c \in Calls |-> "none"]
    /\ right = [c \in Calls |-> FALSE]
    /\ step = [c \in Calls |-> "idle"]
    /\ entity = [c \in Calls |-> NoRow]
    /\ answer = [c \in Calls |-> NoAnswer]
    /\ faults = 0

Fault   == faults < MaxFaults /\ faults' = faults + 1
NoFault == UNCHANGED faults

\* A statement is executed, or it is not, and its promise rejects: the connection
\* may be lost before the statement has been executed or after.
Reject(executed) == Fault /\ (executed \/ UNCHANGED row)

Goto(c, s) == step' = [step EXCEPT ![c] = s]

End(c, result) ==
    /\ Goto(c, "ended")
    /\ answer' = [answer EXCEPT ![c] = result]

-----------------------------------------------------------------------------

\* A client calls login or register, or the import reaches the user.
Call(c, k, u) ==
    /\ step[c] = "idle"
    /\ kind' = [kind EXCEPT ![c] = k]
    /\ user' = [user EXCEPT ![c] = u]
    /\ \E b \in IF k = "login" THEN BOOLEAN ELSE {FALSE} : right' = [right EXCEPT ![c] = b]
    /\ Goto(c, "find")
    /\ UNCHANGED <<row, midpoint, entity, answer, faults>>

\* In midPoint, an account is made or its role changes.
MidpointChanges(u, r) ==
    /\ Fault
    /\ midpoint' = [midpoint EXCEPT ![u] = r]
    /\ UNCHANGED <<row, calls>>

-----------------------------------------------------------------------------
(* login.                                                                  *)

\* findOne: without a row the login ends, before midPoint has been asked.
LoginFind(c) ==
    /\ kind[c] = "login" /\ step[c] = "find"
    /\ IF user[c] \in Known
         THEN /\ entity' = [entity EXCEPT ![c] = row[user[c]]]
              /\ Goto(c, "ask")
              /\ UNCHANGED answer
         ELSE End(c, Failed) /\ UNCHANGED entity
    /\ UNCHANGED <<row, midpoint, kind, user, right, faults>>

\* Mutant of Completed: each login draws a SIP password.
CompletedAnew(e, c, r) ==
    [e EXCEPT !.sip  = c,
              !.hash = TRUE,
              !.role = IF r = NoRole THEN e.role ELSE r]

\* The entity completed where it has gaps, with midPoint's role, if it names one.
Completed(e, c, r) ==
    [e EXCEPT !.sip  = IF e.sip = NoSip THEN c ELSE e.sip,
              !.hash = TRUE,
              !.role = IF r = NoRole THEN e.role ELSE r]

\* Mutant of MidpointAccepts: a role is taken even when midPoint names none.
MidpointRoleUnchecked(c) ==
    /\ kind[c] = "login" /\ step[c] = "ask"
    /\ right[c] /\ midpoint[user[c]] # "absent"
    /\ entity' = [entity EXCEPT ![c] = [@ EXCEPT !.role = midpoint[user[c]]]]
    /\ Goto(c, "save")
    /\ UNCHANGED <<row, midpoint, kind, user, right, answer, faults>>

\* midPoint answers 2xx: the entity is completed.
MidpointAccepts(c) ==
    /\ kind[c] = "login" /\ step[c] = "ask"
    /\ right[c] /\ midpoint[user[c]] # "absent"
    /\ entity' = [entity EXCEPT ![c] = Completed(entity[c], c, midpoint[user[c]])]
    /\ Goto(c, "save")
    /\ UNCHANGED <<row, midpoint, kind, user, right, answer, faults>>

\* midPoint refuses, or is not reached: the local hash decides, nothing is
\* written.
LocalAuthentication(c) ==
    /\ kind[c] = "login" /\ step[c] = "ask"
    /\ \/ (~right[c] \/ midpoint[user[c]] = "absent") /\ NoFault
       \/ Fault
    /\ \/ entity[c].hash /\ End(c, entity[c])
       \/ End(c, Failed)
    /\ UNCHANGED <<row, midpoint, kind, user, right, entity>>

\* Mutant of LoginSave: the drawn SIP password is not among the saved columns.
LoginSaveWithoutSip(c) ==
    /\ kind[c] = "login" /\ step[c] = "save"
    /\ \/ row' = [row EXCEPT ![user[c]] = [entity[c] EXCEPT !.sip = row[user[c]].sip]]
          /\ End(c, entity[c]) /\ NoFault
       \/ Reject(FALSE) /\ End(c, Failed)
    /\ UNCHANGED <<midpoint, kind, user, right, entity>>

\* save(user): the row becomes what the entity is, also in the columns another
\* call has written since this one read it.
Save(c) == row' = [row EXCEPT ![user[c]] = entity[c]]

\* Nobody is told of a save that rejects, one that was executed either.
LoginSave(c) ==
    /\ kind[c] = "login" /\ step[c] = "save"
    /\ \/ Save(c) /\ End(c, entity[c]) /\ NoFault
       \/ Reject(Save(c)) /\ End(c, Failed)
    /\ UNCHANGED <<midpoint, kind, user, right, entity>>

-----------------------------------------------------------------------------
(* register.                                                               *)

RegisterFind(c) ==
    /\ kind[c] = "register" /\ step[c] = "find"
    /\ IF user[c] \in Known THEN End(c, Failed) ELSE Goto(c, "max") /\ UNCHANGED answer
    /\ UNCHANGED <<row, midpoint, kind, user, right, entity, faults>>

\* SELECT MAX(sip_extension), parseInt, + 1; then bcrypt is awaited.
RegisterMax(c) ==
    /\ kind[c] = "register" /\ step[c] = "max"
    /\ entity' = [entity EXCEPT ![c] =
          [ext |-> NextExt, role |-> "AgenteCallCenter", sip |-> c, hash |-> TRUE]]
    /\ Goto(c, "insert")
    /\ UNCHANGED <<row, midpoint, kind, user, right, answer, faults>>

\* Mutant of RegisterInsert: no UNIQUE constraint on sip_extension.
RegisterInsertAnyExt(c) ==
    /\ kind[c] = "register" /\ step[c] = "insert"
    /\ IF user[c] \in Known
         THEN End(c, Failed) /\ UNCHANGED row
         ELSE row' = [row EXCEPT ![user[c]] = entity[c]] /\ End(c, entity[c])
    /\ UNCHANGED <<midpoint, kind, user, right, entity, faults>>

\* save(user) of a new entity: an INSERT, which the UNIQUE constraints on
\* username and sip_extension may refuse.
RegisterInsert(c) ==
    /\ kind[c] = "register" /\ step[c] = "insert"
    /\ \/ /\ user[c] \notin Known /\ entity[c].ext \notin Extension
          /\ Save(c) /\ End(c, entity[c]) /\ NoFault
       \/ /\ user[c] \in Known \/ entity[c].ext \in Extension
          /\ End(c, Failed) /\ NoFault /\ UNCHANGED row
       \/ Reject(user[c] \notin Known /\ entity[c].ext \notin Extension /\ Save(c))
          /\ End(c, Failed)
    /\ UNCHANGED <<midpoint, kind, user, right, entity>>

-----------------------------------------------------------------------------
(* The role synchronisation of importMidpointUsers, after 2xx or 409.      *)

SyncFind(c) ==
    /\ kind[c] = "sync" /\ step[c] = "find"
    /\ IF user[c] \in Known /\ row[user[c]].role # SyncRole
         THEN /\ entity' = [entity EXCEPT ![c] = [row[user[c]] EXCEPT !.role = SyncRole]]
              /\ Goto(c, "save")
              /\ UNCHANGED answer
         ELSE End(c, NoAnswer) /\ UNCHANGED entity
    /\ UNCHANGED <<row, midpoint, kind, user, right, faults>>

SyncSave(c) ==
    /\ kind[c] = "sync" /\ step[c] = "save"
    /\ (Save(c) /\ NoFault) \/ Reject(Save(c))
    /\ End(c, NoAnswer)
    /\ UNCHANGED <<midpoint, kind, user, right, entity>>

-----------------------------------------------------------------------------

Login(c)    == LoginFind(c) \/ MidpointAccepts(c) \/ LocalAuthentication(c) \/ LoginSave(c)
Register(c) == RegisterFind(c) \/ RegisterMax(c) \/ RegisterInsert(c)
Sync(c)     == SyncFind(c) \/ SyncSave(c)

Done == (\A c \in Calls : step[c] = "ended") /\ UNCHANGED vars

Next ==
    /\ \/ \E c \in Calls, k \in Kinds, u \in Users : Call(c, k, u)
       \/ \E c \in Calls : Login(c) \/ Register(c) \/ Sync(c)
       \/ \E u \in Users, r \in Roles \cup {NoRole} : MidpointChanges(u, r)
       \/ Done
    /\ UNCHANGED seedHasSip

Spec == Init /\ [][Next]_vars

-----------------------------------------------------------------------------
(* Properties.                                                             *)

Answered(c) == answer[c] \notin {NoAnswer, Failed}

\* No two users share an extension, although register reads the maximum, then
\* awaits bcrypt, then inserts.
UniqueExtensions ==
    /\ \A u, v \in Known : u # v => row[u].ext # row[v].ext
    /\ \A u \in Known : row[u].ext \notin Taken

\* A registration was answered extension e.
Registered(e) == \E d \in Calls : kind[d] = "register" /\ Answered(d) /\ answer[d].ext = e

\* A registration is refused only for a reason its user could be told: without a
\* fault, the user has a row by now, or another registration that raced it for
\* the same extension has won it and was answered.
RefusedLostToAnother ==
    faults = 0 =>
        \A c \in Calls : kind[c] = "register" /\ answer[c] = Failed =>
            user[c] \in Known \/ Registered(entity[c].ext)

\* What a client was answered is what it registers with in Asterisk: the
\* extension and the SIP password are those of the user's row, whatever logins
\* and synchronisations save later.  Of the password it holds for rows that had
\* one before any login, which would else draw one (how-create-user.md:72-74).
AnsweredIsStored ==
    \A c \in Calls : Answered(c) =>
        /\ user[c] \in Known
        /\ row[user[c]].ext = answer[c].ext
        /\ seedHasSip \/ user[c] \notin SeedRows => row[user[c]].sip = answer[c].sip

\* A login of u was answered the SIP password p, or drew it and then saw its save
\* reject.
Accounted(u, p) ==
    \E c \in Calls :
        /\ kind[c] = "login" /\ user[c] = u
        /\ (Answered(c) /\ answer[c].sip = p) \/ (answer[c] = Failed /\ p = c)

Synced(u) == \E c \in Calls : user[c] = u /\ kind[c] = "sync"

\* A row without a SIP password gets one from its first login, and from each
\* login that runs beside it: the one stored in the end is one that a login was
\* answered, or that a login drew and was not answered because its save rejected
\* after all, unless the import's role synchronisation saved the row as well.
StoredWasAnswered ==
    \A u \in Known :
        (\E c \in Calls : kind[c] = "login" /\ user[c] = u /\ Answered(c)) /\ ~Synced(u)
            => Accounted(u, row[u].sip)

\* Both: what clients register with in Asterisk and what is stored agree.
AnswersAreStored == AnsweredIsStored /\ StoredWasAnswered

\* What a call holds between its reading and its writing, which makes the above
\* inductive: the extension of its row, and its SIP password where the row had one.
HasSip(u) == seedHasSip \/ u \notin SeedRows

EntityOfRow(c) ==
    LET u == user[c]
    IN /\ step[c] = "idle" => kind[c] = "none"
       /\ step[c] # "ended" => answer[c] = NoAnswer
       /\ step[c] # "idle" => u \in Users
       /\ step[c] \in {"ask", "save", "insert"} => entity[c] \in Row
       /\ step[c] = "insert" => entity[c].sip = c
       /\ kind[c] \in {"login", "sync"} /\ step[c] \in {"ask", "save"} =>
             /\ u \in Known /\ entity[c].ext = row[u].ext
             /\ HasSip(u) => entity[c].sip = row[u].sip

\* The passwords under way and stored: an entity that a login read, and has not
\* completed, is not older than the one stored since, unless that is accounted
\* for; and but for those of the start and one just drawn, so is each.
ReadOrAnswered(c) ==
    kind[c] = "login" /\ step[c] \in {"ask", "save"} /\ ~Synced(user[c]) =>
        /\ \/ step[c] = "save"
           \/ entity[c].sip = row[user[c]].sip
           \/ Accounted(user[c], row[user[c]].sip)
        /\ \/ HasSip(user[c])
           \/ entity[c].sip = IF step[c] = "ask" THEN NoSip ELSE c
           \/ Accounted(user[c], entity[c].sip)

StoredAccounted(u) ==
    u \in Known /\ ~HasSip(u) /\ ~Synced(u) => row[u].sip = NoSip \/ Accounted(u, row[u].sip)

RowsHaveSip == SeedRows \subseteq Known /\ \A u \in Known : HasSip(u) => row[u].sip # NoSip

UsersInv ==
    /\ TypeOK /\ RowsHaveSip
    /\ \A c \in Calls : EntityOfRow(c) /\ ReadOrAnswered(c)
    /\ \A u \in Users : StoredAccounted(u)
    /\ UniqueExtensions /\ AnswersAreStored

\* The extensions of the start have four digits.  Were 10000 one of them, beside
\* 9999, every registration would take it and be refused.
FourDigits == \A e \in Taken \cup SeedExts : e < 10000

\* What makes RefusedLostToAnother inductive: an extension a registration took
\* and finds in use, and one of five digits, was answered to a registration.
RefusalInv ==
    /\ UsersInv
    /\ faults = 0 =>
          /\ \A u \in Known : row[u].ext < 10000 \/ Registered(row[u].ext)
          /\ \A c \in Calls :
                kind[c] = "register" /\ step[c] = "insert" /\ entity[c].ext \in Extension
                    => Registered(entity[c].ext)
    /\ RefusedLostToAnother

\* What Asterisk knows a user by stays: a row is never lost, its extension never
\* changes, and neither does a SIP password there was before any login, whatever
\* entities logins and synchronisations have read earlier and save later.
IdentityIsKept ==
    [][\A u \in Known :
         /\ row'[u] # NoRow /\ row'[u].ext = row[u].ext
         /\ HasSip(u) => row'[u].sip = row[u].sip]_vars

\* docs/architecture-guide.md:485: register takes the largest extension plus 1.
\* It does so up to 10000, the first extension that as text is not the largest.
RegisterTakesMaxPlusOne ==
    [][\A c \in Calls : RegisterMax(c) /\ Max(Extension) < 10000
          => entity'[c].ext = Max(Extension) + 1]_vars
=============================================================================
