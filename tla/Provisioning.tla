---------------------------- MODULE Provisioning ----------------------------
(***************************************************************************)
(* SIP extensions: the gateway's extension endpoints                       *)
(* (backend/gateway/src/app.controller.ts), the asterisk service that      *)
(* edits pjsip.conf over SSH (backend/asterisk/src/asterisk.service.ts,    *)
(* ssh.service.ts) and the running Asterisk, which knows what it last      *)
(* loaded.                                                                 *)
(*                                                                         *)
(* Each command is an SSH session of its own, so calls interleave between  *)
(* any two commands.  pjsip.conf is a sequence of sections and blank       *)
(* lines: a blank line is where the sed of removeExtension stops.          *)
(* Asterisk has objects of three types, and loads the sections of a type   *)
(* all together or, when two of them have one name, not at all.            *)
(***************************************************************************)
EXTENDS Integers, Sequences, FiniteSets, SequencesExt

CONSTANTS
    Exts,       \* extension numbers
    Calls,      \* bound: calls made to the asterisk service; also the password a call brings
    Kinds,      \* operations the clients use: subset of {"create", "register", "remove"}
    MaxAtOnce,  \* bound: calls under way at once
    MaxFaults   \* bound: failures injected

ASSUME ProvisioningAssumption ==
    /\ Kinds \subseteq {"create", "register", "remove"}
    /\ MaxAtOnce \in Nat \ {0}
    /\ MaxFaults \in Nat

VARIABLES
    turns,    \* which calls wait for each other: see MayBegin (constant)
    conf,     \* pjsip.conf on the volume: sequence of lines
    loaded,   \* [Types -> objects of Asterisk, the sections it loaded]
    kind,     \* [Calls -> operation, "none" before the call]
    ext,      \* [Calls -> extension]
    step,     \* [Calls -> SSH command the service is at]
    temp,     \* [Calls -> the temporary file of sed -i]
    cut,      \* calls that lost the connection of a command (history)
    answer,   \* [Calls -> what the client has been told]
    faults

service == <<kind, ext, step, temp, cut>>
vars    == <<turns, conf, loaded, service, answer, faults>>

-----------------------------------------------------------------------------
(* pjsip.conf.                                                             *)

Blank         == [type |-> "blank"]
Endpoint(e)   == [type |-> "endpoint", ext |-> e]
Auth(e, pass) == [type |-> "auth", ext |-> e, password |-> pass]
Aor(e)        == [type |-> "aor", ext |-> e]

\* Mutant of ConfigBlock: the auth section comes first.
ConfigBlockAuthFirst(e, pass) == <<Auth(e, pass), Blank, Endpoint(e), Blank, Aor(e)>>

\* configBlock of createExtension: no blank line after its last section.
ConfigBlock(e, pass) == <<Endpoint(e), Blank, Auth(e, pass), Blank, Aor(e)>>

\* The header [ext], which the endpoint and the aor share; [ext-auth] differs.
HasHeader(line, e) == line.type \in {"endpoint", "aor"} /\ line.ext = e

\* sed "/^\[ext\]/,/^$/d": a line is in a range from a header to the next blank
\* line, or to the end; the others are kept, in their order.
InRange(lines, e, i) ==
    \E h \in 1..i : HasHeader(lines[h], e) /\ \A k \in h..(i - 1) : lines[k] # Blank

SedDelete(lines, e) ==
    LET kept[i \in 0..Len(lines)] ==
          IF i = 0 THEN <<>>
          ELSE IF InRange(lines, e, i) THEN kept[i - 1]
          ELSE Append(kept[i - 1], lines[i])
    IN kept[Len(lines)]

Has(lines, type, e) == \E i \in 1..Len(lines) : lines[i].type = type /\ lines[i].ext = e
Copies(lines, type, e) == Cardinality({i \in 1..Len(lines) : lines[i].type = type /\ lines[i].ext = e})

Types == {"endpoint", "auth", "aor"}
OfType(lines, t) == {line \in ToSet(lines) : line.type = t}

\* Two sections of one type and one name: [ext], or [ext-auth].
Doubled(lines, t) == \E e \in Exts : Copies(lines, t, e) > 1

\* res_sorcery_config reading the file again: a type with a doubled section
\* keeps the objects it has, "configuration contains a duplicate object".
Reloaded(lines) == [t \in Types |-> IF Doubled(lines, t) THEN loaded[t] ELSE OfType(lines, t)]

\* Asterisk starting with the file: such a type has no objects.
Started(lines)  == [t \in Types |-> IF Doubled(lines, t) THEN {} ELSE OfType(lines, t)]

-----------------------------------------------------------------------------

Lines == {Blank} \cup {Endpoint(e) : e \in Exts} \cup {Aor(e) : e \in Exts}
           \cup {Auth(e, c) : e \in Exts, c \in Calls}

TypeOK ==
    /\ turns \in {"all", "extension", "none"}
    /\ conf \in Seq(Lines)
    /\ loaded \in [Types -> SUBSET Lines]
    /\ kind \in [Calls -> Kinds \cup {"none"}]
    /\ ext \in [Calls -> Exts \cup {"none"}]
    /\ step \in [Calls -> {"idle", "check", "append", "sed", "rename", "reload", "done", "failed"}]
    /\ temp \in [Calls -> Seq(Lines)]
    /\ cut \subseteq Calls
    /\ answer \in [Calls -> {"none", "ok", "error"}]
    /\ faults \in 0..MaxFaults

\* The shipped pjsip.conf has templates only and ends with blank lines.
Init ==
    /\ turns \in {"all", "extension", "none"}
    /\ conf = <<Blank>>
    /\ loaded = [t \in Types |-> {}]
    /\ kind = [c \in Calls |-> "none"]
    /\ ext = [c \in Calls |-> "none"]
    /\ step = [c \in Calls |-> "idle"]
    /\ temp = [c \in Calls |-> <<>>]
    /\ cut = {}
    /\ answer = [c \in Calls |-> "none"]
    /\ faults = 0

Fault   == faults < MaxFaults /\ faults' = faults + 1
Ended(c) == step[c] \in {"idle", "done", "failed"}

-----------------------------------------------------------------------------
(* The gateway.                                                            *)

\* Bounds: how many calls are under way at once, and whether each waits for all
\* others, for those about its extension, or for none.
MayBegin(e) ==
    LET underWay == {d \in Calls : ~Ended(d)}
    IN /\ Cardinality(underWay) < MaxAtOnce
       /\ turns = "all" => underWay = {}
       /\ turns = "extension" => \A d \in underWay : ext[d] # e

\* Mutant of Request: the extension is not passed on.
RequestWithoutExtension(c, k, e) ==
    /\ step[c] = "idle"
    /\ MayBegin(e)
    /\ kind' = [kind EXCEPT ![c] = k]
    /\ step' = [step EXCEPT ![c] = IF k = "remove" THEN "sed" ELSE "check"]
    /\ UNCHANGED <<conf, loaded, ext, temp, cut, answer, faults>>

\* A client calls POST or DELETE /api/asterisk/extensions, or register-sip
\* (whose auth.profile has already named the extension).
Request(c, k, e) ==
    /\ step[c] = "idle"
    /\ MayBegin(e)
    /\ kind' = [kind EXCEPT ![c] = k]
    /\ ext' = [ext EXCEPT ![c] = e]
    /\ step' = [step EXCEPT ![c] = IF k = "remove" THEN "sed" ELSE "check"]
    /\ UNCHANGED <<conf, loaded, temp, cut, answer, faults>>

\* What the client is told: registerSip turns a failed createExtension into a
\* warning in its log and answers as if it had worked.
Told(c, outcome) == IF outcome = "done" \/ kind[c] = "register" THEN "ok" ELSE "error"

\* The service goes on to s; at its end the answer reaches the client, unless
\* the gateway has answered before.
Goto(c, s) ==
    /\ step' = [step EXCEPT ![c] = s]
    /\ answer' = IF s \in {"done", "failed"} /\ answer[c] = "none"
                   THEN [answer EXCEPT ![c] = Told(c, s)]
                   ELSE answer

\* 10 s pass in sendWithTimeout: the client is answered, the service goes on.
GatewayTimeout(c) ==
    /\ ~Ended(c) /\ answer[c] = "none"
    /\ answer' = [answer EXCEPT ![c] = Told(c, "failed")]
    /\ UNCHANGED <<conf, loaded, service, faults>>

-----------------------------------------------------------------------------
(* createExtension: grep, echo >>, reload.                                 *)

\* Mutant of Check: Asterisk is asked for the extension, not pjsip.conf.
CheckAsterisk(c) ==
    /\ step[c] = "check"
    /\ Goto(c, IF Endpoint(ext[c]) \in loaded["endpoint"] THEN "failed" ELSE "append")
    /\ UNCHANGED <<conf, loaded, kind, ext, temp, cut, faults>>

Check(c) ==
    /\ step[c] = "check"
    /\ Goto(c, IF \E i \in 1..Len(conf) : HasHeader(conf[i], ext[c]) THEN "failed" ELSE "append")
    /\ UNCHANGED <<conf, loaded, kind, ext, temp, cut, faults>>

\* Mutant of AppendBlock: echo > instead of echo >>.
OverwriteFile(c) ==
    /\ step[c] = "append"
    /\ conf' = ConfigBlock(ext[c], c)
    /\ Goto(c, "reload")
    /\ UNCHANGED <<loaded, kind, ext, temp, cut, faults>>

AppendBlock(c) ==
    /\ step[c] = "append"
    /\ conf' = conf \o ConfigBlock(ext[c], c)
    /\ Goto(c, "reload")
    /\ UNCHANGED <<loaded, kind, ext, temp, cut, faults>>

(* removeExtension: sed -i, reload.                                        *)

\* sed -i copies the lines it keeps to a temporary file ...
SedRead(c) ==
    /\ step[c] = "sed"
    /\ temp' = [temp EXCEPT ![c] = SedDelete(conf, ext[c])]
    /\ Goto(c, "rename")
    /\ UNCHANGED <<conf, loaded, kind, ext, cut, faults>>

\* ... and renames it over pjsip.conf.
SedRename(c) ==
    /\ step[c] = "rename"
    /\ conf' = temp[c]
    /\ temp' = [temp EXCEPT ![c] = <<>>]
    /\ Goto(c, "reload")
    /\ UNCHANGED <<loaded, kind, ext, cut, faults>>

\* asterisk -rx "module reload res_pjsip.so".
Reload(c) ==
    /\ step[c] = "reload"
    /\ loaded' = Reloaded(conf)
    /\ Goto(c, "done")
    /\ UNCHANGED <<conf, kind, ext, temp, cut, faults>>

\* Whether or not the command under way was executed, nobody can tell.
ExecutedOrNot(c) ==
    \/ UNCHANGED <<conf, loaded>>
    \/ step[c] = "append" /\ conf' = conf \o ConfigBlock(ext[c], c) /\ UNCHANGED loaded
    \/ step[c] = "rename" /\ conf' = temp[c] /\ UNCHANGED loaded
    \/ step[c] = "reload" /\ loaded' = Reloaded(conf) /\ UNCHANGED conf

\* executeCommand rejects: no connection, an error of it, or an exit code and
\* something on stderr.
SshFails(c) ==
    /\ ~Ended(c) /\ Fault
    /\ ExecutedOrNot(c)
    /\ Goto(c, "failed")
    /\ temp' = [temp EXCEPT ![c] = <<>>]
    /\ UNCHANGED <<kind, ext, cut>>

\* The connection is closed during the command (sshd's container stops): the
\* stream closes without an exit code or stderr, and executeCommand resolves
\* with what was read, nothing.  The service goes on as after a success, and
\* takes an empty answer of grep for NOT_FOUND.
SshCut(c) ==
    /\ ~Ended(c) /\ Fault
    /\ ExecutedOrNot(c)
    /\ Goto(c, CASE step[c] = "check"  -> "append"
                 [] step[c] = "reload" -> "done"
                 [] OTHER              -> "reload")
    /\ temp' = [temp EXCEPT ![c] = <<>>]
    /\ cut' = cut \cup {c}
    /\ UNCHANGED <<kind, ext>>

\* POST /api/asterisk/reload, or a restart of Asterisk, whose configuration is
\* on a volume.
AsteriskReads ==
    /\ Fault
    /\ loaded' \in {Reloaded(conf), Started(conf)}
    /\ UNCHANGED <<conf, service, answer>>

Command(c) == Check(c) \/ AppendBlock(c) \/ SedRead(c) \/ SedRename(c) \/ Reload(c)

Done == (\A c \in Calls : step[c] \in {"done", "failed"}) /\ UNCHANGED vars

Next ==
    /\ \/ \E c \in Calls : Command(c) \/ SshFails(c) \/ SshCut(c) \/ GatewayTimeout(c)
       \/ \E c \in Calls, k \in Kinds, e \in Exts : Request(c, k, e)
       \/ AsteriskReads
       \/ Done
    /\ UNCHANGED turns

Spec == Init /\ [][Next]_vars

-----------------------------------------------------------------------------
(* Properties.                                                             *)

Created(c)       == kind[c] \in {"create", "register"} /\ step[c] = "done"
NoRemoval        == \A c \in Calls : kind[c] # "remove"
Registers(e, pass) ==
    /\ Endpoint(e) \in loaded["endpoint"] /\ Aor(e) \in loaded["aor"]
    /\ Auth(e, pass) \in loaded["auth"]

\* While nobody has removed an extension and no section is doubled, an
\* extension whose creation ended well registers with the password that call
\* brought, and goes on to, however many other creations, failures, reloads,
\* restarts of Asterisk and lost connections overlap with it.  The connections
\* of the creation itself are the exception: a lost one is taken for success.
CreatedStaysUsable ==
    (NoRemoval /\ \A t \in Types : ~Doubled(conf, t)) =>
        \A c \in Calls \ cut : Created(c) => Registers(ext[c], c)

\* An endpoint never stands in pjsip.conf without its auth section: whatever
\* removals cut out of the file and concurrent edits lose, an agent's endpoint
\* is not left without credentials.
EndpointHasAuth == \A e \in Exts : Has(conf, "endpoint", e) => Has(conf, "auth", e)

\* The grep of createExtension keeps the sections of an extension unique when
\* calls do not overlap, whatever was removed, failed or timed out before, and
\* when only calls about different extensions overlap and nothing is removed;
\* as long as no connection of a call was lost.  The auth section is the
\* exception after a removal, which leaves it behind.
SerialCallsKeepUnique ==
    cut = {} /\ (turns = "all" \/ (turns = "extension" /\ NoRemoval)) =>
        /\ ~Doubled(conf, "endpoint") /\ ~Doubled(conf, "aor")
        /\ NoRemoval => ~Doubled(conf, "auth")

\* docs/endpoints-and-credentials.md:200: DELETE removes the extension named,
\* and so no other one, at least when calls do not overlap.
RemovesOnlyItsOwn ==
    [][\A c \in Calls : turns = "all" /\ SedRename(c) =>
          \A e \in Exts \ {ext[c]} : Has(conf, "endpoint", e) => Has(conf', "endpoint", e)]_vars
-----------------------------------------------------------------------------
(* What makes CreatedStaysUsable inductive, and unique sections while       *)
(* nobody removes an extension.                                            *)

Sections(c) == {Endpoint(ext[c]), Auth(ext[c], c), Aor(ext[c])}

CallTypes ==
    /\ turns \in {"all", "extension", "none"}
    /\ kind \in [Calls -> Kinds \cup {"none"}]
    /\ ext \in [Calls -> Exts \cup {"none"}]
    /\ step \in [Calls -> {"idle", "check", "append", "sed", "rename", "reload", "done", "failed"}]
    /\ cut \subseteq Calls
    /\ \A c \in Calls : step[c] = "idle" <=> kind[c] = "none"
    /\ \A c \in Calls : step[c] # "idle" => ext[c] \in Exts

\* Without removals the file only grows, and what a creation appended is there.
BlocksAreKept ==
    NoRemoval =>
        /\ conf \in Seq(Lines)
        /\ \A c \in Calls : step[c] \notin {"sed", "rename"}
        /\ \A c \in Calls \ cut : step[c] \in {"reload", "done"} => Sections(c) \subseteq ToSet(conf)

\* A section's type and name are its own; an auth section's endpoint is there.
Unique(lines) ==
    \A i, j \in 1..Len(lines) :
        lines[i].type \in Types /\ lines[i].type = lines[j].type /\ lines[i].ext = lines[j].ext => i = j
AuthsHaveHeaders(lines) ==
    \A i \in 1..Len(lines) :
        lines[i].type = "auth" => \E j \in 1..Len(lines) : HasHeader(lines[j], lines[i].ext)
IsNew(lines, e) ==
    \A i \in 1..Len(lines) : lines[i].type \in Types => lines[i].ext # e

TakeTurns == NoRemoval /\ cut = {} /\ turns # "none"

SectionsAreUnique ==
    TakeTurns =>
        /\ Unique(conf) /\ AuthsHaveHeaders(conf)
        /\ \A c \in Calls : step[c] = "append" => IsNew(conf, ext[c])
        /\ \A c, d \in Calls : c # d /\ ~Ended(c) /\ ~Ended(d) => ext[c] # ext[d]

CreationInv == CallTypes /\ BlocksAreKept /\ SectionsAreUnique /\ CreatedStaysUsable

\* While nobody removes an extension and nothing fails, every section is of a
\* creation that reloads or ended well, and one that failed has met a section.
SectionsHaveCreations ==
    NoRemoval /\ faults = 0 =>
        /\ cut = {}
        /\ \A i \in 1..Len(conf) : conf[i].type # "blank" =>
              \E d \in Calls : step[d] \in {"reload", "done"} /\ ext[d] = conf[i].ext
        /\ \A c \in Calls : step[c] = "failed" => \E i \in 1..Len(conf) : HasHeader(conf[i], ext[c])

UndisturbedInv ==
    /\ CreationInv /\ SectionsHaveCreations
    /\ answer \in [Calls -> {"none", "ok", "error"}] /\ faults \in Nat
    /\ \A c \in Calls : answer[c] # "none" => step[c] # "idle"

-----------------------------------------------------------------------------
(* What makes EndpointHasAuth and SerialCallsKeepUnique inductive,         *)
(* removals included.                                                      *)

\* The lines that keep an endpoint's auth section out of any range of sed that
\* does not take the endpoint too.
AuthFollows(lines) ==
    \A i \in 1..Len(lines) : lines[i].type = "endpoint" =>
        /\ i + 2 <= Len(lines) /\ lines[i + 1] = Blank
        /\ lines[i + 2].type = "auth" /\ lines[i + 2].ext = lines[i].ext

AuthsFollow == AuthFollows(conf) /\ \A c \in Calls : AuthFollows(temp[c])

HeadersUnique(lines) ==
    \A i, j \in 1..Len(lines) :
        lines[i].type \in {"endpoint", "aor"} /\ lines[i].type = lines[j].type
        /\ lines[i].ext = lines[j].ext => i = j

HeadersAreUnique ==
    turns = "all" /\ cut = {} =>
        /\ HeadersUnique(conf) /\ \A c \in Calls : HeadersUnique(temp[c])
        /\ \A c \in Calls : step[c] = "append" =>
              \A i \in 1..Len(conf) : ~HasHeader(conf[i], ext[c])
        /\ \A c, d \in Calls : ~Ended(c) /\ ~Ended(d) => c = d

FileInv == TypeOK /\ CallTypes /\ AuthsFollow /\ HeadersAreUnique

-----------------------------------------------------------------------------
(* Whose the passwords of the auth sections are.                           *)

\* An auth section is of a creation of its extension, with the password the
\* creation brought.
OfCreation(line, k, x) ==
    line.type = "auth" => /\ line.password \in Calls /\ x[line.password] = line.ext
                          /\ k[line.password] \in {"create", "register"}

AuthsOfCreations ==
    /\ \A i \in 1..Len(conf) : OfCreation(conf[i], kind, ext)
    /\ \A c \in Calls : \A i \in 1..Len(temp[c]) : OfCreation(temp[c][i], kind, ext)
    /\ \A t \in Types : \A line \in loaded[t] : line.type = t /\ OfCreation(line, kind, ext)

-----------------------------------------------------------------------------
(* What a removal takes.                                                   *)

NoHeader(lines, e) == \A i \in 1..Len(lines) : ~HasHeader(lines[i], e)

\* A removal that ends takes its extension out of Asterisk, whatever doubled or
\* stray sections of it there were: after its reload no endpoint and no aor of
\* the extension is loaded, when calls wait for each other and no connection was
\* lost.  removeExtension does not look at what sed has left.
RemovedIsGone ==
    [][\A c \in Calls : turns = "all" /\ cut = {} /\ kind[c] = "remove" /\ Reload(c) =>
          \A line \in loaded'["endpoint"] \cup loaded'["aor"] : ~HasHeader(line, ext[c])]_vars

\* What makes it true: what sed kept for a removal has no header of its
\* extension, and once renamed it stays as it is until the reload.
RemovalInv ==
    /\ \A c \in Calls : kind[c] = "remove" => step[c] \notin {"check", "append"}
    /\ \A c \in Calls : step[c] = "rename" => NoHeader(temp[c], ext[c])
    /\ turns = "all" /\ cut = {} =>
          \A c \in Calls : kind[c] = "remove" /\ step[c] = "reload" => NoHeader(conf, ext[c])
=============================================================================
