----------------------------- MODULE Registration -----------------------------
(***************************************************************************)
(* From a login to a phone that Asterisk lets register: the auth service   *)
(* (module AuthService) answers a login with the extension and the SIP     *)
(* password of the user's row, the browser passes the password on, and     *)
(* register-sip of the gateway (backend/gateway/src/app.controller.ts)     *)
(* provisions the extension with it (module Provisioning).  Which password *)
(* pjsip.conf holds is then nobody's to change: a section that exists is   *)
(* left, and the failure is not told.                                      *)
(*                                                                         *)
(* A login and the register-sip that follows it are one call; so the auth  *)
(* section named after a login holds the SIP password that login was told. *)
(* Beside them go the calls made by hand: removals, POST extensions, which *)
(* any logged-in user may send for any extension with any password, and    *)
(* register-sip with a password typed into the SIP form.                   *)
(***************************************************************************)
EXTENDS Integers, Sequences, FiniteSets

CONSTANTS
    Users, Taken, SeedRows, SeedExts, MaxFaults, NoRow, NoAnswer, Failed,  \* see AuthService
    Exts,      \* the extensions there may be
    Logins,    \* bound: logins and registrations, with the register-sip that follows
    Others,    \* bound: calls made by hand; also the password such a call brings
    MaxAtOnce  \* bound: calls of the asterisk service under way at once

VARIABLES
    row, seedHasSip, midpoint, authKind, user, right, authStep, entity, told, authFaults,
    turns, conf, loaded, kind, ext, step, temp, cut, answer, faults

\* The auth service; told[c] is its answer.
Auth == INSTANCE AuthService WITH
    Calls <- Logins, Kinds <- {"login", "register"}, SyncRole <- "Admin", MaxFaults <- 0,
    kind <- authKind, step <- authStep, answer <- told, faults <- authFaults

\* Gateway, asterisk service and Asterisk.
Sip == INSTANCE Provisioning WITH
    Calls <- Logins \cup Others, Kinds <- {"create", "register", "remove"}

ASSUME RegistrationAssumption ==
    /\ Logins \cap Others = {}
    /\ SeedExts \subseteq Exts
    /\ Auth!AuthAssumption /\ Sip!ProvisioningAssumption

authVars == <<row, seedHasSip, midpoint, authKind, user, right, authStep, entity, told, authFaults>>
sipVars  == <<turns, conf, loaded, kind, ext, step, temp, cut, answer, faults>>
vars     == <<authVars, sipVars>>

\* Bounds: every user has an account in midPoint with one role, and the auth
\* service has none of the failures that its own runs inject.
Init ==
    /\ Auth!Init /\ Sip!Init
    /\ midpoint = [u \in Users |-> "AgenteCallCenter"]

-----------------------------------------------------------------------------

LoggedIn(c) == authKind[c] = "login" /\ Auth!Answered(c)

\* The browser of a login calls register-sip with the password it was told:
\* auth.profile names the extension.
RegisterSip(c) ==
    /\ LoggedIn(c)
    /\ Sip!Request(c, "register", row[user[c]].ext)
    /\ UNCHANGED <<turns, authVars>>

\* DELETE /api/asterisk/extensions.
RemoveExtension(c, e) ==
    /\ Sip!Request(c, "remove", e)
    /\ UNCHANGED <<turns, authVars>>

\* POST /api/asterisk/extensions.
CreateExtension(c, e) ==
    /\ Sip!Request(c, "create", e)
    /\ UNCHANGED <<turns, authVars>>

\* The SIP form of a user who logged in calls register-sip with what was typed.
RegisterTyped(c, login) ==
    /\ LoggedIn(login)
    /\ Sip!Request(c, "register", row[user[login]].ext)
    /\ UNCHANGED <<turns, authVars>>

\* The asterisk service goes on.  The gateway's timeout, which only tells the
\* client earlier, is left to the run of Provisioning.
AsteriskServes(c) ==
    /\ Sip!Command(c) \/ Sip!SshFails(c) \/ Sip!SshCut(c)
    /\ UNCHANGED <<turns, authVars>>

AsteriskReads == Sip!AsteriskReads /\ UNCHANGED <<turns, authVars>>

AuthServes == Auth!Next /\ UNCHANGED sipVars

Next ==
    \/ \E c \in Logins : RegisterSip(c)
    \/ \E c \in Others, e \in Exts : RemoveExtension(c, e) \/ CreateExtension(c, e)
    \/ \E c \in Others, login \in Logins : RegisterTyped(c, login)
    \/ \E c \in Logins \cup Others : AsteriskServes(c)
    \/ AsteriskReads
    \/ AuthServes

Spec == Init /\ [][Next]_vars

-----------------------------------------------------------------------------
(* Properties.                                                             *)

\* Call c was told the password that its user's row has.
ToldStored(c) == told[c].sip = row[user[c]].sip

\* The calls made by hand that brought a password of their own.
ByHand == {c \in Others : kind[c] \in {"create", "register"}}

\* Every auth section, in pjsip.conf or in Asterisk, holds the SIP password of the
\* row that has the extension, which each later login will be told, or what
\* somebody sent by hand for that extension: whatever logins, registrations,
\* removals, failures and lost connections there were.  It holds of rows that had
\* a password before their first login; of the others two first logins may
\* provision one of the two passwords they draw and store the other.
ProvisionedIsStored ==
    \A section \in Sip!OfType(conf, "auth") \cup loaded["auth"] :
        LET c == section.password
        IN /\ section.ext = ext[c]
           /\ c \notin ByHand => /\ c \in Logins /\ row[user[c]].ext = section.ext
                                 /\ Auth!HasSip(user[c]) => ToldStored(c)

\* Whoever logged in and was answered by register-sip registers, with what the
\* login told, once the asterisk service is done: also when register-sip met the
\* section of an earlier login and hid that from its client.  While nobody
\* removes an extension or sends another password for this one, register-sip of
\* one extension are not sent at once, no command fails, and of rows as above.
LoggedInRegisters ==
    Sip!TakeTurns /\ faults = 0 /\ (\A c \in Logins \cup Others : Sip!Ended(c)) =>
        \A c \in Logins :
            answer[c] = "ok" /\ Auth!HasSip(user[c]) /\ (\A d \in ByHand : ext[d] # ext[c]) =>
                \E d \in Logins : Auth!Answered(d) /\ told[d].sip = told[c].sip
                                    /\ Sip!Registers(told[c].ext, d)

-----------------------------------------------------------------------------
(* What makes these inductive, beside the two services' own invariants: a  *)
(* register-sip is about the extension its login was told, the row's.      *)

CallsInv ==
    /\ kind \in [Logins \cup Others -> {"none", "create", "register", "remove"}]
    /\ ext = [c \in Logins \cup Others |-> ext[c]]
    /\ \A c \in Logins : kind[c] \in {"none", "register"}
    /\ \A c \in Logins : kind[c] = "register" =>
          LoggedIn(c) /\ authStep[c] = "ended" /\ ext[c] = row[user[c]].ext

\* All numbers are extensions there may be.
AnyExtension == Nat \subseteq Exts

=============================================================================
