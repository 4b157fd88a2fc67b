------------------------- MODULE ProvisioningProofs -------------------------
(***************************************************************************)
(* Proofs about provisioning, for any extensions, calls and faults.  While *)
(* nobody removes an extension, the file keeps every block that was        *)
(* appended, an extension whose creation ended well registers, and the     *)
(* grep keeps sections unique when calls about one extension do not        *)
(* overlap.  With removals, what sed leaves of a file keeps an endpoint's  *)
(* auth section, and endpoints and aors unique when no calls overlap.      *)
(***************************************************************************)
EXTENDS Provisioning, FiniteSetTheorems, NaturalsInduction, WellFoundedInduction, TLAPS

-----------------------------------------------------------------------------
(* A block appended to the file.                                           *)

LEMMA Concatenation ==
    ASSUME NEW S, NEW s \in Seq(S), NEW b \in Seq(S)
    PROVE  /\ s \o b \in Seq(S)
           /\ Len(s) \in Nat /\ Len(s \o b) = Len(s) + Len(b)
           /\ \A i \in 1..Len(s) : (s \o b)[i] = s[i]
           /\ \A i \in 1..Len(b) : (s \o b)[Len(s) + i] = b[i]
OBVIOUS

LEMMA Appended ==
    ASSUME NEW lines \in Seq(Lines), NEW e \in Exts, NEW p \in Calls,
           NEW after, after = lines \o ConfigBlock(e, p)
    PROVE  /\ after \in Seq(Lines)
           /\ Len(lines) \in Nat /\ Len(after) = Len(lines) + 5
           /\ \A i \in 1..Len(lines) : after[i] = lines[i]
           /\ after[Len(lines) + 1] = Endpoint(e) /\ after[Len(lines) + 2] = Blank
           /\ after[Len(lines) + 3] = Auth(e, p) /\ after[Len(lines) + 4] = Blank
           /\ after[Len(lines) + 5] = Aor(e)
<1> DEFINE block == ConfigBlock(e, p)
<1>1. block \in Seq(Lines)
  BY DEF ConfigBlock, Lines
<1>2. /\ Len(block) = 5
      /\ block[1] = Endpoint(e) /\ block[2] = Blank /\ block[3] = Auth(e, p)
      /\ block[4] = Blank /\ block[5] = Aor(e)
  BY DEF ConfigBlock
<1>3. /\ after \in Seq(Lines) /\ Len(lines) \in Nat /\ Len(after) = Len(lines) + Len(block)
      /\ \A i \in 1..Len(lines) : after[i] = lines[i]
      /\ \A i \in 1..Len(block) : after[Len(lines) + i] = block[i]
  BY ONLY <1>1, lines \in Seq(Lines), after = lines \o block, Concatenation
<1>4. {1, 2, 3, 4, 5} \subseteq 1..Len(block)
  BY <1>2
<1>5. QED
  BY <1>2, <1>3, <1>4

\* What an append makes of a file of n lines: they stay, and the block of five
\* lines comes after them.
Longer(after, lines, n) == n \in Nat /\ Len(after) = n + 5 /\ \A i \in 1..n : after[i] = lines[i]
BlockAfter(after, n, e, p) ==
    /\ after[n + 1] = Endpoint(e) /\ after[n + 2] = Blank
    /\ after[n + 3] = Auth(e, p) /\ after[n + 4] = Blank /\ after[n + 5] = Aor(e)

LEMMA AppendedBlock ==
    \A lines \in Seq(Lines), e \in Exts, p \in Calls :
        /\ Longer(lines \o ConfigBlock(e, p), lines, Len(lines))
        /\ BlockAfter(lines \o ConfigBlock(e, p), Len(lines), e, p)
<1> SUFFICES ASSUME NEW lines \in Seq(Lines), NEW e \in Exts, NEW p \in Calls,
                    NEW after, after = lines \o ConfigBlock(e, p)
             PROVE  Longer(after, lines, Len(lines)) /\ BlockAfter(after, Len(lines), e, p)
  BY Zenon
<1>1. /\ Len(lines) \in Nat /\ Len(after) = Len(lines) + 5
      /\ \A i \in 1..Len(lines) : after[i] = lines[i]
  BY Appended
<1>2. after[Len(lines) + 1] = Endpoint(e) /\ after[Len(lines) + 2] = Blank
  BY Appended, SMTT(30)
<1>3. after[Len(lines) + 3] = Auth(e, p) /\ after[Len(lines) + 4] = Blank
  BY Appended, SMTT(30)
<1>4. after[Len(lines) + 5] = Aor(e)
  BY Appended, SMTT(30)
<1>5. QED
  BY ONLY <1>1, <1>2, <1>3, <1>4, Zenon DEF Longer, BlockAfter

\* What the file has it keeps, and the block is in it.
LEMMA AppendKeeps ==
    ASSUME NEW lines \in Seq(Lines), NEW e \in Exts, NEW p \in Calls,
           NEW after, after = lines \o ConfigBlock(e, p)
    PROVE  ToSet(lines) \cup {Endpoint(e), Auth(e, p), Aor(e)} \subseteq ToSet(after)
<1>1. DOMAIN lines = 1..Len(lines) /\ DOMAIN after = 1..Len(after)
  BY Appended
<1>2. ToSet(lines) \subseteq ToSet(after)
  BY <1>1, Appended DEF ToSet
<1>3. {Endpoint(e), Auth(e, p), Aor(e)} \subseteq ToSet(after)
  <2>1. {Len(lines) + 1, Len(lines) + 3, Len(lines) + 5} \subseteq DOMAIN after
    BY <1>1, Appended
  <2>2. /\ after[Len(lines) + 1] = Endpoint(e) /\ after[Len(lines) + 3] = Auth(e, p)
        /\ after[Len(lines) + 5] = Aor(e)
    BY Appended, SMTT(30)
  <2>3. \A i \in DOMAIN after : after[i] \in ToSet(after)
    BY DEF ToSet
  <2> QED
    BY <2>1, <2>2, <2>3
<1>4. QED
  BY <1>2, <1>3

\* A doubled section stays doubled.
LEMMA AppendKeepsDoubled ==
    ASSUME NEW lines \in Seq(Lines), NEW e \in Exts, NEW p \in Calls, NEW t,
           NEW after, after = lines \o ConfigBlock(e, p), Doubled(lines, t)
    PROVE  Doubled(after, t)
<1>1. PICK x \in Exts : Copies(lines, t, x) > 1
  BY DEF Doubled
<1> DEFINE Before == {i \in 1..Len(lines) : lines[i].type = t /\ lines[i].ext = x}
           After  == {i \in 1..Len(after) : after[i].type = t /\ after[i].ext = x}
<1>2. Before \subseteq After
  BY Appended
<1>3. IsFiniteSet(1..Len(after))
  BY Appended, FS_Interval
<1>4. IsFiniteSet(After)
  BY <1>3, FS_Subset
<1>5. /\ Cardinality(Before) <= Cardinality(After)
      /\ Cardinality(Before) \in Nat /\ Cardinality(After) \in Nat
  BY <1>2, <1>4, FS_Subset, FS_CardinalityType
<1>6. Cardinality(Before) > 1
  BY <1>1 DEF Copies
<1> HIDE DEF Before, After
<1>7. Cardinality(After) > 1
  BY <1>5, <1>6
<1>8. QED
  BY <1>7 DEF Doubled, Copies, After

\* In a file of unique sections none is doubled.
LEMMA UniqueIsNotDoubled ==
    ASSUME NEW lines \in Seq(Lines), Unique(lines), NEW t \in Types
    PROVE  ~Doubled(lines, t)
<1> SUFFICES ASSUME NEW x \in Exts PROVE ~(Copies(lines, t, x) > 1)
  BY DEF Doubled
<1> DEFINE S == {i \in 1..Len(lines) : lines[i].type = t /\ lines[i].ext = x}
<1>1. \A i, j \in S : i = j
  BY DEF Unique
<1>2. S = {} \/ \E i \in S : S = {i}
  BY <1>1
<1>3. Cardinality(S) \in {0, 1}
  BY <1>2, FS_EmptySet, FS_Singleton
<1>4. QED
  BY <1>3 DEF Copies

\* A block whose name is new leaves the sections unique.
LEMMA AppendKeepsUnique ==
    ASSUME NEW lines \in Seq(Lines), NEW e \in Exts, NEW p \in Calls,
           NEW after, after = lines \o ConfigBlock(e, p),
           Unique(lines), AuthsHaveHeaders(lines), IsNew(lines, e)
    PROVE  Unique(after) /\ AuthsHaveHeaders(after)
<1> DEFINE n == Len(lines)
<1>1. n \in Nat /\ Len(after) = n + 5 /\ \A i \in 1..n : after[i] = lines[i]
  <2>1. Longer(after, lines, n)
    BY AppendedBlock, Zenon
  <2> QED
    BY ONLY <2>1, Zenon DEF Longer
<1>2. /\ after[n + 1] = Endpoint(e) /\ after[n + 2] = Blank
      /\ after[n + 3] = Auth(e, p) /\ after[n + 4] = Blank /\ after[n + 5] = Aor(e)
  <2>1. BlockAfter(after, n, e, p)
    BY AppendedBlock, Zenon
  <2> QED
    BY ONLY <2>1, Zenon DEF BlockAfter
<1>3. \A i \in 1..Len(after) :
          \/ i \in 1..n
          \/ i = n + 1 \/ i = n + 2 \/ i = n + 3 \/ i = n + 4 \/ i = n + 5
  BY <1>1
<1>4. /\ after[n + 1].type = "endpoint" /\ after[n + 1].ext = e
      /\ after[n + 3].type = "auth" /\ after[n + 3].ext = e
      /\ after[n + 5].type = "aor" /\ after[n + 5].ext = e
      /\ after[n + 2].type = "blank" /\ after[n + 4].type = "blank"
  BY <1>2 DEF Endpoint, Auth, Aor, Blank
<1> HIDE DEF n
<1>5. Unique(after)
  <2> SUFFICES ASSUME NEW i \in 1..Len(after), NEW j \in 1..Len(after),
                      after[i].type \in Types, after[i].type = after[j].type,
                      after[i].ext = after[j].ext
               PROVE  i = j
    BY DEF Unique
  <2>1. CASE i \in 1..n /\ j \in 1..n
    BY <1>1, <2>1 DEF Unique, n
  <2>2. CASE i \in 1..n /\ j \notin 1..n
    <3>1. after[i].ext # e
      BY <1>1, <2>2 DEF IsNew, n
    <3> QED
      BY <1>3, <1>4, <2>2, <3>1 DEF Types
  <2>3. CASE i \notin 1..n /\ j \in 1..n
    <3>1. after[j].ext # e
      BY <1>1, <2>3 DEF IsNew, n
    <3> QED
      BY <1>3, <1>4, <2>3, <3>1 DEF Types
  <2>4. CASE i \notin 1..n /\ j \notin 1..n
    BY <1>3, <1>4, <2>4 DEF Types
  <2> QED
    BY <2>1, <2>2, <2>3, <2>4
<1>6. AuthsHaveHeaders(after)
  <2> SUFFICES ASSUME NEW i \in 1..Len(after), after[i].type = "auth"
               PROVE  \E j \in 1..Len(after) : HasHeader(after[j], after[i].ext)
    BY DEF AuthsHaveHeaders
  <2>1. CASE i \in 1..n
    <3>1. PICK j \in 1..n : HasHeader(lines[j], lines[i].ext)
      BY <1>1, <2>1 DEF AuthsHaveHeaders, n
    <3> QED
      BY <1>1, <2>1, <3>1
  <2>2. CASE i \notin 1..n
    <3>1. i = n + 3
      BY <1>3, <1>4, <2>2
    <3>2. HasHeader(after[n + 1], after[i].ext) /\ n + 1 \in 1..Len(after)
      BY <1>1, <1>4, <3>1 DEF HasHeader
    <3> QED
      BY <3>2
  <2> QED
    BY <2>1, <2>2
<1>7. QED
  BY <1>5, <1>6

\* A name that is new stays so when another one's block is appended.
LEMMA AppendKeepsNew ==
    ASSUME NEW lines \in Seq(Lines), NEW e \in Exts, NEW p \in Calls,
           NEW after, after = lines \o ConfigBlock(e, p),
           NEW x, IsNew(lines, x), x # e
    PROVE  IsNew(after, x)
<1> DEFINE n == Len(lines)
<1>1. \A i \in 1..Len(after) :
          \/ (i \in 1..n /\ after[i] = lines[i])
          \/ i = n + 1 \/ i = n + 2 \/ i = n + 3 \/ i = n + 4 \/ i = n + 5
  <2>1. Longer(after, lines, n)
    BY AppendedBlock, Zenon
  <2> HIDE DEF n
  <2> QED
    BY ONLY <2>1 DEF Longer
<1>2. /\ after[n + 1].ext = e /\ after[n + 3].ext = e /\ after[n + 5].ext = e
      /\ after[n + 2].type = "blank" /\ after[n + 4].type = "blank"
  <2>1. BlockAfter(after, n, e, p)
    BY AppendedBlock, Zenon
  <2> HIDE DEF n
  <2> QED
    BY ONLY <2>1 DEF BlockAfter, Endpoint, Auth, Aor, Blank
<1>3. ASSUME NEW i \in 1..Len(after), after[i].type \in Types PROVE after[i].ext # x
  <2>1. CASE i \in 1..n /\ after[i] = lines[i]
    BY <1>3, <2>1 DEF IsNew
  <2>2. CASE i = n + 1 \/ i = n + 2 \/ i = n + 3 \/ i = n + 4 \/ i = n + 5
    BY <1>2, <1>3, <2>2 DEF Types
  <2> QED
    BY <1>1, <2>1, <2>2
<1>4. QED
  BY <1>3 DEF IsNew

\* The lines that were there stay; the others are blank or the extension's.
LEMMA AppendedLines ==
    \A lines \in Seq(Lines), e \in Exts, p \in Calls :
        LET after == lines \o ConfigBlock(e, p)
        IN /\ \A i \in 1..Len(lines) : i \in 1..Len(after) /\ after[i] = lines[i]
           /\ \A i \in 1..Len(after) :
                 i \in 1..Len(lines) \/ after[i].type = "blank" \/ after[i].ext = e
<1> TAKE lines \in Seq(Lines), e \in Exts, p \in Calls
<1> DEFINE after == lines \o ConfigBlock(e, p)
           n == Len(lines)
<1>1. n \in Nat /\ Len(after) = n + 5 /\ \A i \in 1..n : after[i] = lines[i]
  <2>1. Longer(after, lines, n)
    BY AppendedBlock, Zenon
  <2> QED
    BY ONLY <2>1, Zenon DEF Longer
<1>2. /\ after[n + 1].ext = e /\ after[n + 3].ext = e /\ after[n + 5].ext = e
      /\ after[n + 2].type = "blank" /\ after[n + 4].type = "blank"
  <2>1. BlockAfter(after, n, e, p)
    BY AppendedBlock, Zenon
  <2> HIDE DEF n
  <2> QED
    BY ONLY <2>1 DEF BlockAfter, Endpoint, Auth, Aor, Blank
<1> HIDE DEF n, after
<1>3. \A i \in 1..Len(after) :
          i \in 1..n \/ i = n + 1 \/ i = n + 2 \/ i = n + 3 \/ i = n + 4 \/ i = n + 5
  BY <1>1
<1>4. \A i \in 1..n : i \in 1..Len(after) /\ after[i] = lines[i]
  BY ONLY <1>1
<1>5. \A i \in 1..Len(after) : i \in 1..n \/ after[i].type = "blank" \/ after[i].ext = e
  BY ONLY <1>2, <1>3, Zenon
<1>6. QED
  BY ONLY <1>4, <1>5, Zenon DEF n, after

\* The same, as facts about the file with any block.
LEMMA FileGrows ==
    \A lines \in Seq(Lines), e \in Exts, p \in Calls :
        /\ lines \o ConfigBlock(e, p) \in Seq(Lines)
        /\ ToSet(lines) \cup {Endpoint(e), Auth(e, p), Aor(e)} \subseteq ToSet(lines \o ConfigBlock(e, p))
        /\ \A t : Doubled(lines, t) => Doubled(lines \o ConfigBlock(e, p), t)
        /\ \A x : IsNew(lines, x) /\ x # e => IsNew(lines \o ConfigBlock(e, p), x)
<1> TAKE lines \in Seq(Lines), e \in Exts, p \in Calls
<1> DEFINE after == lines \o ConfigBlock(e, p)
<1>1. after \in Seq(Lines)
  BY Appended
<1>2. ToSet(lines) \cup {Endpoint(e), Auth(e, p), Aor(e)} \subseteq ToSet(after)
  BY AppendKeeps
<1>3. ASSUME NEW t, Doubled(lines, t) PROVE Doubled(after, t)
  BY <1>3, AppendKeepsDoubled
<1>4. ASSUME NEW x, IsNew(lines, x), x # e PROVE IsNew(after, x)
  BY <1>4, AppendKeepsNew
<1>5. QED
  BY <1>1, <1>2, <1>3, <1>4

-----------------------------------------------------------------------------
(* What a step does.                                                       *)

LEMMA TypesKept == CallTypes /\ [Next]_vars => CallTypes'
<1> SUFFICES ASSUME CallTypes, [Next]_vars PROVE CallTypes'
  OBVIOUS
<1> USE ProvisioningAssumption DEF CallTypes
<1>1. ASSUME NEW c \in Calls, Command(c), UNCHANGED turns PROVE CallTypes'
  BY <1>1 DEF Command, Check, AppendBlock, SedRead, SedRename, Reload, Goto
<1>2. ASSUME NEW c \in Calls, SshFails(c) \/ SshCut(c), UNCHANGED turns PROVE CallTypes'
  BY <1>2 DEF SshFails, SshCut, Goto, Ended
<1>3. ASSUME NEW c \in Calls, GatewayTimeout(c), UNCHANGED turns PROVE CallTypes'
  BY <1>3 DEF GatewayTimeout, service
<1>4. ASSUME NEW c \in Calls, NEW k \in Kinds, NEW e \in Exts, Request(c, k, e), UNCHANGED turns
      PROVE  CallTypes'
  BY <1>4 DEF Request
<1>5. CASE ((AsteriskReads \/ Done) /\ UNCHANGED turns) \/ UNCHANGED vars
  BY <1>5 DEF AsteriskReads, Done, vars, service
<1>6. QED
  BY <1>1, <1>2, <1>3, <1>4, <1>5 DEF Next

\* Call c appends its block.
Appends(c) ==
    /\ step[c] = "append" /\ step'[c] # "append"
    /\ conf' = conf \o ConfigBlock(ext[c], c)

\* As long as nobody removes an extension: the file is left, or a block is
\* appended to it; Asterisk reads the file as it is; a creation goes on to the
\* reload with its block in the file, and ends having reloaded.
StepKeeps ==
    /\ NoRemoval /\ cut \subseteq cut' /\ turns' = turns
    /\ \A c \in Calls : step[c] # "idle" => ext'[c] = ext[c] /\ step'[c] # "idle"
    /\ \A c \in Calls : step'[c] \notin {"sed", "rename"}
    /\ conf' = conf \/ (loaded' = loaded /\ \E c \in Calls : Appends(c))
    /\ loaded' = loaded \/ (conf' = conf /\ loaded' \in {Reloaded(conf), Started(conf)})
    /\ \A c \in Calls \ cut' : step'[c] = "reload" => step[c] = "reload" \/ Appends(c)
    /\ \A c \in Calls \ cut' : step'[c] = "done" =>
          step[c] = "done" \/ (step[c] = "reload" /\ conf' = conf /\ loaded' = Reloaded(conf))
    /\ cut' = {} => \A c \in Calls : step'[c] = "append" =>
          \/ step[c] = "append"
          \/ /\ step[c] = "check" /\ conf' = conf
             /\ \A i \in 1..Len(conf) : ~HasHeader(conf[i], ext[c])
    /\ \/ \A c \in Calls : ~Ended(c)' => ~Ended(c) /\ ext'[c] = ext[c]
       \/ \E c \in Calls, e \in Exts :
             /\ MayBegin(e) /\ step[c] = "idle" /\ step'[c] = "check"
             /\ ext' = [ext EXCEPT ![c] = e]
             /\ \A d \in Calls \ {c} : step'[d] = step[d]

LEMMA StepsKeep ==
    ASSUME CallTypes, BlocksAreKept, [Next]_vars, NoRemoval'
    PROVE  StepKeeps
<1> USE ProvisioningAssumption DEF CallTypes, StepKeeps, NoRemoval
<1>1. NoRemoval /\ \A c \in Calls : step[c] \notin {"sed", "rename"}
  <2>1. \A c \in Calls : kind[c] # "remove"
    BY DEF Next, Command, Check, AppendBlock, SedRead, SedRename, Reload, SshFails, SshCut,
       GatewayTimeout, Request, AsteriskReads, Done, vars, service
  <2> QED
    BY <2>1 DEF BlocksAreKept
<1> HIDE DEF NoRemoval
<1>2. ASSUME NEW c \in Calls, Check(c) \/ AppendBlock(c) \/ Reload(c), UNCHANGED turns
      PROVE  StepKeeps
  BY <1>1, <1>2 DEF Check, AppendBlock, Reload, Goto, Appends, Ended
<1>3. ASSUME NEW c \in Calls, SshFails(c), UNCHANGED turns PROVE StepKeeps
  BY <1>1, <1>3 DEF SshFails, ExecutedOrNot, Goto, Appends, Ended
<1>4. ASSUME NEW c \in Calls, SshCut(c), UNCHANGED turns PROVE StepKeeps
  BY <1>1, <1>4 DEF SshCut, ExecutedOrNot, Goto, Appends, Ended
<1>5. ASSUME NEW c \in Calls, GatewayTimeout(c), UNCHANGED turns PROVE StepKeeps
  BY <1>1, <1>5 DEF GatewayTimeout, service, Ended
<1>6. ASSUME NEW c \in Calls, NEW k \in Kinds, NEW e \in Exts, Request(c, k, e), UNCHANGED turns
      PROVE  StepKeeps
  <2>1. kind'[c] = k /\ k # "remove"
    BY <1>6 DEF Request, NoRemoval
  <2> QED
    BY <1>1, <1>6, <2>1 DEF Request, Ended
<1>7. CASE ((AsteriskReads \/ Done) /\ UNCHANGED turns) \/ UNCHANGED vars
  BY <1>1, <1>7 DEF AsteriskReads, Done, vars, service, Ended
<1>8. QED
  BY <1>1, <1>2, <1>3, <1>4, <1>5, <1>6, <1>7 DEF Next, Command, SedRead, SedRename

-----------------------------------------------------------------------------
(* The invariant.                                                          *)

LEMMA BlocksKept ==
    ASSUME CallTypes, BlocksAreKept, StepKeeps
    PROVE  BlocksAreKept'
<1>1. NoRemoval /\ conf \in Seq(Lines)
  BY DEF StepKeeps, BlocksAreKept
<1>2. conf' \in Seq(Lines) /\ ToSet(conf) \subseteq ToSet(conf')
  <2>1. CASE conf' = conf
    BY <1>1, <2>1
  <2>2. CASE \E c \in Calls : Appends(c)
    <3>1. PICK c \in Calls : ext[c] \in Exts /\ conf' = conf \o ConfigBlock(ext[c], c)
      BY <2>2 DEF Appends, CallTypes
    <3> QED
      BY <1>1, <3>1, FileGrows
  <2> QED
    BY <2>1, <2>2 DEF StepKeeps
<1>3. ASSUME NEW c \in Calls \ cut', step'[c] \in {"reload", "done"}
      PROVE  Sections(c)' \subseteq ToSet(conf')
  <2>1. c \notin cut /\ Sections(c)' = Sections(c)
    BY <1>3 DEF StepKeeps, Sections, CallTypes, Appends
  <2>2. CASE step[c] \in {"reload", "done"}
    BY <1>1, <1>2, <1>3, <2>1, <2>2 DEF BlocksAreKept
  <2>3. CASE Appends(c)
    <3>1. ext[c] \in Exts /\ conf' = conf \o ConfigBlock(ext[c], c)
      BY <2>3 DEF Appends, CallTypes
    <3>2. {Endpoint(ext[c]), Auth(ext[c], c), Aor(ext[c])} \subseteq ToSet(conf')
      BY <1>1, <3>1, FileGrows
    <3> QED
      BY <2>1, <3>2 DEF Sections
  <2> QED
    BY <1>3, <2>2, <2>3 DEF StepKeeps
<1>4. QED
  BY <1>2, <1>3 DEF BlocksAreKept, StepKeeps

LEMMA UsableKept ==
    ASSUME CallTypes, BlocksAreKept, StepKeeps, CreatedStaysUsable, BlocksAreKept', CallTypes'
    PROVE  CreatedStaysUsable'
<1> SUFFICES ASSUME NoRemoval', \A t \in Types : ~Doubled(conf', t),
                    NEW c \in Calls \ cut', Created(c)'
             PROVE  Registers(ext[c], c)'
  BY DEF CreatedStaysUsable
<1>1. NoRemoval /\ conf \in Seq(Lines) /\ c \notin cut
  BY DEF StepKeeps, BlocksAreKept
<1>2. step'[c] = "done" /\ ext'[c] = ext[c] /\ ext[c] \in Exts
  BY DEF Created, StepKeeps, CallTypes
<1>3. CASE loaded' = loaded /\ step[c] = "done"
  <2>1. \A t \in Types : ~Doubled(conf, t)
    <3>1. CASE conf' = conf
      BY <3>1
    <3>2. CASE \E d \in Calls : Appends(d)
      <4>1. PICK d \in Calls : ext[d] \in Exts /\ conf' = conf \o ConfigBlock(ext[d], d)
        BY <3>2 DEF Appends, CallTypes
      <4> QED
        BY <1>1, <4>1, FileGrows
    <3> QED
      BY <3>1, <3>2 DEF StepKeeps
  <2>2. Created(c)
    <3>1. kind[c] \in Kinds \cup {"none"} /\ kind[c] # "none" /\ kind[c] # "remove"
      BY <1>1, <1>3 DEF CallTypes, NoRemoval
    <3>2. Kinds \subseteq {"create", "register", "remove"}
      BY ProvisioningAssumption
    <3> QED
      BY <1>3, <3>1, <3>2 DEF Created
  <2> QED
    BY <1>1, <1>2, <1>3, <2>1, <2>2 DEF CreatedStaysUsable, Registers
<1>4. CASE conf' = conf /\ loaded' \in {Reloaded(conf), Started(conf)}
  <2>1. \A t \in Types : loaded'[t] = OfType(conf, t)
    BY <1>4 DEF Reloaded, Started
  <2>2. Sections(c) \subseteq ToSet(conf)
    BY <1>2, <1>4 DEF BlocksAreKept, Sections
  <2> QED
    BY <1>2, <2>1, <2>2 DEF Registers, OfType, Sections, Types, Endpoint, Auth, Aor
<1>5. QED
  BY <1>2, <1>3, <1>4 DEF StepKeeps

LEMMA UniqueKept ==
    ASSUME CallTypes, BlocksAreKept, SectionsAreUnique, StepKeeps, TakeTurns', CallTypes'
    PROVE  SectionsAreUnique'
<1>1. /\ TakeTurns /\ cut' = {} /\ conf \in Seq(Lines)
      /\ Unique(conf) /\ AuthsHaveHeaders(conf)
  BY DEF StepKeeps, TakeTurns, SectionsAreUnique, BlocksAreKept
<1>2. \A c, d \in Calls : c # d /\ ~Ended(c) /\ ~Ended(d) => ext[c] # ext[d]
  BY <1>1 DEF SectionsAreUnique
<1>3. \A c \in Calls : step[c] = "append" => IsNew(conf, ext[c]) /\ ext[c] \in Exts
  BY <1>1 DEF SectionsAreUnique, CallTypes
<1>4. Unique(conf') /\ AuthsHaveHeaders(conf')
  BY <1>1, <1>3, AppendKeepsUnique DEF StepKeeps, Appends
<1>5. ASSUME NEW c \in Calls, step'[c] = "append" PROVE IsNew(conf', ext'[c])
  <2>1. ext'[c] = ext[c] /\ ext[c] \in Exts /\ step[c] \in {"append", "check"} /\ ~Ended(c)
    BY <1>1, <1>5 DEF StepKeeps, CallTypes, Ended
  <2>2. CASE conf' = conf
    <3>1. CASE step[c] = "append"
      BY <1>3, <2>1, <2>2, <3>1
    <3>2. CASE \A i \in 1..Len(conf) : ~HasHeader(conf[i], ext[c])
      BY <1>1, <2>1, <2>2, <3>2 DEF IsNew, AuthsHaveHeaders, HasHeader, Types
    <3> QED
      BY <1>1, <1>5, <3>1, <3>2 DEF StepKeeps
  <2>3. CASE conf' # conf
    <3>1. step[c] = "append"
      BY <1>1, <1>5, <2>3 DEF StepKeeps
    <3>2. PICK d \in Calls : Appends(d)
      BY <2>3 DEF StepKeeps
    <3>3. ext[c] # ext[d] /\ IsNew(conf, ext[c]) /\ ext[d] \in Exts
      BY <1>2, <1>3, <1>5, <2>1, <3>1, <3>2 DEF Appends, Ended
    <3>4. conf' = conf \o ConfigBlock(ext[d], d)
      BY <3>2 DEF Appends
    <3>5. IsNew(conf', ext[c])
      BY <1>1, <3>3, <3>4, FileGrows
    <3> QED
      BY <2>1, <3>5
  <2> QED
    BY <2>2, <2>3
<1>6. ASSUME NEW c \in Calls, NEW d \in Calls, c # d, ~Ended(c)', ~Ended(d)'
      PROVE  ext'[c] # ext'[d]
  <2>1. CASE \A b \in Calls : ~Ended(b)' => ~Ended(b) /\ ext'[b] = ext[b]
    BY <1>2, <1>6, <2>1
  <2>2. CASE \E b \in Calls, e \in Exts :
                /\ MayBegin(e) /\ step[b] = "idle" /\ step'[b] = "check"
                /\ ext' = [ext EXCEPT ![b] = e]
                /\ \A a \in Calls \ {b} : step'[a] = step[a]
    <3>1. PICK b \in Calls, e \in Exts :
              /\ MayBegin(e) /\ ext' = [ext EXCEPT ![b] = e]
              /\ \A a \in Calls \ {b} : step'[a] = step[a]
      BY <2>2
    <3>2. ext'[b] = e /\ \A a \in Calls \ {b} : ext'[a] = ext[a] /\ (~Ended(a)' => ~Ended(a))
      BY <3>1 DEF CallTypes, Ended
    <3>3. \A a \in Calls : ~Ended(a) => ext[a] # e
      BY <1>1, <3>1 DEF MayBegin, TakeTurns, CallTypes
    <3> QED
      BY <1>2, <1>6, <3>2, <3>3
  <2> QED
    BY <2>1, <2>2 DEF StepKeeps
<1>7. QED
  BY <1>4, <1>5, <1>6 DEF SectionsAreUnique

LEMMA InitInv == Init => CreationInv
<1> SUFFICES ASSUME Init PROVE CreationInv
  OBVIOUS
<1> USE DEF Init
<1>1. CallTypes
  BY DEF CallTypes
<1>2. conf \in Seq(Lines) /\ Len(conf) = 1 /\ conf[1].type = "blank"
  BY DEF Lines, Blank
<1>3. BlocksAreKept
  BY <1>2 DEF BlocksAreKept
<1>4. SectionsAreUnique
  BY <1>2 DEF SectionsAreUnique, Unique, AuthsHaveHeaders, Types, Ended
<1>5. CreatedStaysUsable
  BY DEF CreatedStaysUsable, Created
<1>6. QED
  BY <1>1, <1>3, <1>4, <1>5 DEF CreationInv

LEMMA NextInv == CreationInv /\ [Next]_vars => CreationInv'
<1> SUFFICES ASSUME CreationInv, [Next]_vars PROVE CreationInv'
  OBVIOUS
<1> USE DEF CreationInv
<1>1. CallTypes'
  BY TypesKept
<1>2. CASE NoRemoval'
  <2>1. StepKeeps
    BY <1>2, StepsKeep
  <2>2. BlocksAreKept'
    BY <2>1, BlocksKept
  <2>3. CreatedStaysUsable'
    BY <1>1, <2>1, <2>2, UsableKept
  <2>4. SectionsAreUnique'
    BY <1>1, <2>1, UniqueKept DEF SectionsAreUnique
  <2> QED
    BY <1>1, <2>2, <2>3, <2>4
<1>3. CASE ~NoRemoval'
  BY <1>1, <1>3 DEF BlocksAreKept, SectionsAreUnique, TakeTurns, CreatedStaysUsable
<1>4. QED
  BY <1>2, <1>3

-----------------------------------------------------------------------------
(* The theorems.                                                           *)

\* The inductive invariant of creations: what the file keeps of them.
THEOREM CreationInvariance == Spec => []CreationInv
BY InitInv, NextInv, PTL DEF Spec

\* While nobody removes an extension and no section is doubled, an extension
\* whose creation ended well registers with the password that call brought
\* (createExtension), whatever overlaps with it.
THEOREM CreatedRegisters == Spec => []CreatedStaysUsable
<1>1. CreationInv => CreatedStaysUsable
  BY DEF CreationInv
<1>2. QED
  BY <1>1, CreationInvariance, PTL

LEMMA InTurnUsable ==
    ASSUME CreationInv, TakeTurns
    PROVE  /\ \A t \in Types : ~Doubled(conf, t)
           /\ \A c \in Calls : Created(c) => Registers(ext[c], c)
<1>1. NoRemoval /\ cut = {} /\ conf \in Seq(Lines) /\ Unique(conf)
  BY DEF CreationInv, TakeTurns, BlocksAreKept, SectionsAreUnique
<1>2. \A t \in Types : ~Doubled(conf, t)
  BY <1>1, UniqueIsNotDoubled
<1>3. QED
  BY <1>1, <1>2 DEF CreationInv, CreatedStaysUsable

\* While nobody removes an extension and no connection is lost, the grep of
\* createExtension keeps all sections unique if calls about one extension do
\* not overlap; and so the creations that ended well register, without more.
THEOREM CreationsInTurnRegister ==
    Spec => [](TakeTurns => /\ \A t \in Types : ~Doubled(conf, t)
                            /\ \A c \in Calls : Created(c) => Registers(ext[c], c))
BY InTurnUsable, CreationInvariance, PTL

-----------------------------------------------------------------------------
(* Creations that nothing disturbs.                                        *)

LEMMA UndisturbedBegins == Init => UndisturbedInv
<1> SUFFICES ASSUME Init PROVE UndisturbedInv
  OBVIOUS
<1>1. Len(conf) = 1 /\ conf[1].type = "blank"
  BY DEF Init, Blank
<1>2. SectionsHaveCreations
  BY <1>1 DEF Init, SectionsHaveCreations
<1>3. QED
  BY <1>2, InitInv DEF Init, UndisturbedInv

LEMMA FaultsGrow == [Next]_vars => faults' = faults \/ Fault
<1>1. ASSUME NEW c \in Calls, Command(c) \/ SshFails(c) \/ SshCut(c) \/ GatewayTimeout(c)
      PROVE  faults' = faults \/ Fault
  BY <1>1 DEF Command, Check, AppendBlock, SedRead, SedRename, Reload, SshFails, SshCut, GatewayTimeout
<1>2. QED
  BY <1>1 DEF Next, Request, AsteriskReads, Done, vars

\* What a client was answered.
LEMMA AnswersKept ==
    ASSUME UndisturbedInv, [Next]_vars
    PROVE  /\ answer' \in [Calls -> {"none", "ok", "error"}] /\ faults' \in Nat
           /\ \A c \in Calls : answer'[c] # "none" => step'[c] # "idle"
<1> USE DEF UndisturbedInv, CreationInv, CallTypes
<1>1. faults' \in Nat
  BY FaultsGrow DEF Fault
<1>2. ASSUME NEW c \in Calls, NEW s \in {"check", "append", "sed", "rename", "reload", "done", "failed"},
             Goto(c, s)
      PROVE  /\ answer' \in [Calls -> {"none", "ok", "error"}]
             /\ \A d \in Calls : answer'[d] # "none" => step'[d] # "idle"
  BY <1>2 DEF Goto, Told
<1>3. ASSUME NEW c \in Calls, Command(c) \/ SshFails(c) \/ SshCut(c)
      PROVE  \E s \in {"check", "append", "sed", "rename", "reload", "done", "failed"} : Goto(c, s)
  BY <1>3 DEF Command, Check, AppendBlock, SedRead, SedRename, Reload, SshFails, SshCut
<1>4. ASSUME NEW c \in Calls, GatewayTimeout(c)
      PROVE  /\ answer' \in [Calls -> {"none", "ok", "error"}]
             /\ \A d \in Calls : answer'[d] # "none" => step'[d] # "idle"
  BY <1>4 DEF GatewayTimeout, Told, service, Ended
<1>5. ASSUME NEW c \in Calls, NEW k \in Kinds, NEW e \in Exts, Request(c, k, e)
      PROVE  /\ answer' \in [Calls -> {"none", "ok", "error"}]
             /\ \A d \in Calls : answer'[d] # "none" => step'[d] # "idle"
  BY <1>5 DEF Request
<1>6. CASE AsteriskReads \/ Done \/ UNCHANGED vars
  BY <1>1, <1>6 DEF AsteriskReads, Done, vars, service
<1>7. QED
  BY <1>1, <1>2, <1>3, <1>4, <1>5, <1>6 DEF Next

\* Of a step that fails nothing: a section comes with its creation, and a
\* creation is only refused by a section.
LEMMA SectionsKeepCreations ==
    ASSUME UndisturbedInv, [Next]_vars, NoRemoval', faults' = 0
    PROVE  SectionsHaveCreations'
<1> USE DEF UndisturbedInv, CreationInv
<1>1. StepKeeps
  BY StepsKeep
<1>2. faults = 0 /\ ~Fault
  BY FaultsGrow DEF Fault
<1>3. /\ cut = {}
      /\ \A i \in 1..Len(conf) : conf[i].type # "blank" =>
            \E d \in Calls : step[d] \in {"reload", "done"} /\ ext[d] = conf[i].ext
      /\ \A c \in Calls : step[c] = "failed" => \E i \in 1..Len(conf) : HasHeader(conf[i], ext[c])
  BY <1>1, <1>2 DEF SectionsHaveCreations, StepKeeps
<1>4. conf \in Seq(Lines)
  BY <1>1 DEF BlocksAreKept, StepKeeps
\* Only one step writes the file, and only a section refuses a creation.
<1>5. /\ cut' = cut
      /\ \A d \in Calls : step[d] \in {"reload", "done"} => step'[d] \in {"reload", "done"}
      /\ conf' = conf \/ \E c \in Calls : step'[c] = "reload" /\ step[c] = "append"
                                        /\ conf' = conf \o ConfigBlock(ext[c], c)
      /\ \A c \in Calls : step'[c] = "failed" =>
            \/ step[c] = "failed"
            \/ step[c] # "idle" /\ conf' = conf /\ \E i \in 1..Len(conf) : HasHeader(conf[i], ext[c])
  <2> DEFINE Kept ==
        /\ cut' = cut
        /\ \A d \in Calls : step[d] \in {"reload", "done"} => step'[d] \in {"reload", "done"}
        /\ conf' = conf \/ \E c \in Calls : step'[c] = "reload" /\ step[c] = "append"
                                          /\ conf' = conf \o ConfigBlock(ext[c], c)
        /\ \A c \in Calls : step'[c] = "failed" =>
              \/ step[c] = "failed"
              \/ step[c] # "idle" /\ conf' = conf /\ \E i \in 1..Len(conf) : HasHeader(conf[i], ext[c])
  <2>1. ASSUME NEW c \in Calls, Check(c) PROVE Kept
    BY <2>1 DEF Check, Goto, CallTypes
  <2>2. ASSUME NEW c \in Calls, AppendBlock(c) PROVE Kept
    BY <2>2 DEF AppendBlock, Goto, CallTypes
  <2>3. ASSUME NEW c \in Calls, Reload(c) PROVE Kept
    BY <2>3 DEF Reload, Goto, CallTypes
  <2>4. ASSUME NEW c \in Calls PROVE ~SshFails(c) /\ ~SshCut(c) /\ ~SedRead(c) /\ ~SedRename(c)
    <3>1. step[c] \notin {"sed", "rename"}
      BY <1>1 DEF BlocksAreKept, StepKeeps
    <3> QED
      BY <1>2, <3>1 DEF SshFails, SshCut, SedRead, SedRename
  <2>5. ASSUME NEW c \in Calls, GatewayTimeout(c) PROVE Kept
    BY <2>5 DEF GatewayTimeout, service
  <2>6. ASSUME NEW c \in Calls, NEW k \in Kinds, NEW e \in Exts, Request(c, k, e) PROVE Kept
    BY <2>6 DEF Request, CallTypes
  <2>7. ASSUME Done \/ UNCHANGED vars PROVE Kept
    BY <2>7 DEF Done, vars, service
  <2> HIDE DEF Kept
  <2>8. ASSUME NEW c \in Calls, Command(c) PROVE Kept
    BY <2>1, <2>2, <2>3, <2>4, <2>8 DEF Command
  <2>9. ~AsteriskReads
    BY <1>2 DEF AsteriskReads
  <2>10. Kept
    <3>1. \/ \E c \in Calls : Command(c) \/ GatewayTimeout(c)
          \/ \E c \in Calls, k \in Kinds, e \in Exts : Request(c, k, e)
          \/ Done \/ UNCHANGED vars
      BY <2>4, <2>9 DEF Next
    <3> QED
      BY <2>5, <2>6, <2>7, <2>8, <3>1
  <2> QED
    BY <2>10 DEF Kept
<1>6. \A d \in Calls : step[d] # "idle" => ext'[d] = ext[d]
  BY <1>1 DEF StepKeeps
<1>7. ASSUME NEW c \in Calls, step'[c] = "reload", step[c] = "append",
             conf' = conf \o ConfigBlock(ext[c], c)
      PROVE  SectionsHaveCreations'
  <2>1. ext[c] \in Exts /\ ext'[c] = ext[c]
    BY <1>6, <1>7 DEF CallTypes
  <2>2. /\ \A i \in 1..Len(conf) : i \in 1..Len(conf') /\ conf'[i] = conf[i]
        /\ \A i \in 1..Len(conf') : i \in 1..Len(conf) \/ conf'[i].type = "blank" \/ conf'[i].ext = ext[c]
    BY <1>4, <1>7, <2>1, AppendedLines
  <2> QED
    BY <1>3, <1>5, <1>6, <1>7, <2>1, <2>2 DEF SectionsHaveCreations, HasHeader
<1>8. CASE conf' = conf
  BY <1>3, <1>5, <1>6, <1>8 DEF SectionsHaveCreations, HasHeader
<1>9. QED
  BY <1>5, <1>7, <1>8

LEMMA UndisturbedStep == UndisturbedInv /\ [Next]_vars => UndisturbedInv'
<1> SUFFICES ASSUME UndisturbedInv, [Next]_vars PROVE UndisturbedInv'
  OBVIOUS
<1>1. CreationInv'
  BY NextInv DEF UndisturbedInv
<1>2. SectionsHaveCreations'
  BY SectionsKeepCreations DEF SectionsHaveCreations
<1>3. QED
  BY <1>1, <1>2, AnswersKept DEF UndisturbedInv

\* Creations of an extension one after the other, with no removal and no failure:
\* once the service is done, whoever was answered has an extension that
\* registers, with the password of the creation that came first.
LEMMA UndisturbedUsable ==
    ASSUME UndisturbedInv, TakeTurns, faults = 0, NEW c \in Calls,
           step[c] # "idle", \A d \in Calls : Ended(d)
    PROVE  \E d \in Calls : Created(d) /\ ext[d] = ext[c] /\ Registers(ext[c], d)
<1>1. \A d \in Calls : Created(d) => Registers(ext[d], d)
  BY InTurnUsable DEF UndisturbedInv
<1>2. \A d \in Calls : step[d] = "done" => Created(d)
  BY ProvisioningAssumption DEF UndisturbedInv, CreationInv, CallTypes, TakeTurns, NoRemoval, Created
<1>3. \E d \in Calls : step[d] = "done" /\ ext[d] = ext[c]
  <2>1. CASE step[c] = "failed"
    <3>1. PICK i \in 1..Len(conf) : HasHeader(conf[i], ext[c])
      BY <2>1 DEF UndisturbedInv, SectionsHaveCreations, TakeTurns
    <3>2. PICK d \in Calls : step[d] \in {"reload", "done"} /\ ext[d] = conf[i].ext
      BY <3>1 DEF UndisturbedInv, SectionsHaveCreations, TakeTurns, HasHeader
    <3> QED
      BY <3>1, <3>2 DEF HasHeader, Ended
  <2> QED
    BY <2>1 DEF Ended
<1>4. QED
  BY <1>1, <1>2, <1>3

\* While nobody removes an extension, calls about one wait for each other and
\* nothing fails, every extension of an answered call registers once all calls
\* have ended: also when its own creation met the section of an earlier one.
THEOREM UndisturbedCreationsRegister ==
    Spec => [](TakeTurns /\ faults = 0 /\ (\A d \in Calls : Ended(d)) =>
                 \A c \in Calls : answer[c] # "none" =>
                    \E d \in Calls : Created(d) /\ ext[d] = ext[c] /\ Registers(ext[c], d))
<1> DEFINE Usable ==
        TakeTurns /\ faults = 0 /\ (\A d \in Calls : Ended(d)) =>
            \A c \in Calls : answer[c] # "none" =>
                \E d \in Calls : Created(d) /\ ext[d] = ext[c] /\ Registers(ext[c], d)
<1>1. UndisturbedInv => Usable
  BY UndisturbedUsable DEF UndisturbedInv
<1>2. QED
  BY <1>1, UndisturbedBegins, UndisturbedStep, PTL DEF Spec

-----------------------------------------------------------------------------
(* The ranges of sed, by induction over the lines.                         *)

\* A set of natural numbers has a least element: what stands here for induction.
LEMMA LeastElement ==
    ASSUME NEW T, T \subseteq Nat, T # {}
    PROVE  \E n \in T : \A k \in T : n <= k
<1>1. PICK n \in T : \A k \in T : ~(<<k, n>> \in OpToRel(<, Nat))
  BY WFMin, NatLessThanWellFounded, Zenon
<1>2. \A k \in T : ~(k < n)
  BY <1>1 DEF OpToRel
<1>3. QED
  BY <1>2

\* pos says where in the first n lines each line of out was.
Enumerates(pos, out, lines, e, n) ==
    /\ out \in Seq(Lines)
    /\ pos \in [1..Len(out) -> 1..n]
    /\ \A j, k \in 1..Len(out) : j < k => pos[j] < pos[k]
    /\ \A j \in 1..Len(out) : out[j] = lines[pos[j]] /\ ~InRange(lines, e, pos[j])
    /\ \A i \in 1..n : ~InRange(lines, e, i) => \E j \in 1..Len(out) : pos[j] = i

Kept(lines, e, g, n) ==
    g = [i \in 0..n |-> IF i = 0 THEN <<>>
                        ELSE IF InRange(lines, e, i) THEN g[i - 1]
                        ELSE Append(g[i - 1], lines[i])]

\* The function that SedDelete defines recursively exists.
LEMMA KeptExists ==
    ASSUME NEW lines, NEW e, NEW m \in Nat
    PROVE  \E g : Kept(lines, e, g, m)
<1> DEFINE Bad == {n \in Nat : ~\E g : Kept(lines, e, g, n)}
<1> SUFFICES ASSUME Bad # {} PROVE FALSE
  OBVIOUS
<1>1. PICK n \in Bad : \A k \in Bad : n <= k
  <2> HIDE DEF Bad
  <2>1. Bad \subseteq Nat
    BY DEF Bad
  <2> QED
    BY <2>1, LeastElement
<1>2. n # 0
  <2> DEFINE g == [i \in 0..0 |-> <<>>]
  <2>1. Kept(lines, e, g, 0)
    BY DEF Kept
  <2> QED
    BY <2>1
<1>3. PICK g : Kept(lines, e, g, n - 1)
  BY <1>1, <1>2
<1> DEFINE h == [i \in 0..n |-> IF i = n
                                 THEN IF InRange(lines, e, n) THEN g[n - 1]
                                      ELSE Append(g[n - 1], lines[n])
                                 ELSE g[i]]
<1>4. Kept(lines, e, h, n)
  <2>1. \A i \in 0..(n - 1) : h[i] = g[i]
    BY <1>2
  <2>2. \A i \in 0..(n - 1) : g[i] = IF i = 0 THEN <<>>
                                     ELSE IF InRange(lines, e, i) THEN g[i - 1]
                                     ELSE Append(g[i - 1], lines[i])
    BY <1>3, Zenon DEF Kept
  <2>3. h[n] = IF InRange(lines, e, n) THEN g[n - 1] ELSE Append(g[n - 1], lines[n])
    BY <1>2
  <2>4. \A i \in 1..n : i - 1 \in 0..(n - 1)
    BY <1>2
  <2>5. \A i \in 0..n : i = n \/ i \in 0..(n-1)
    BY <1>2
  <2> DEFINE v(i) == IF i = 0 THEN <<>>
                   ELSE IF InRange(lines, e, i) THEN h[i - 1]
                   ELSE Append(h[i - 1], lines[i])
  <2>6. \A i \in 0..n : h[i] = v(i)
    <3> SUFFICES ASSUME NEW i \in 0..n PROVE h[i] = v(i)
      OBVIOUS
    <3> HIDE DEF h
    <3>1. CASE i = n
      BY <1>2, <2>1, <2>3, <2>4, <3>1
    <3>2. CASE i \in 0..(n - 1) /\ i # 0
      <4>1. i - 1 \in 0..(n - 1)
        BY <3>2
      <4> QED
        BY <2>1, <2>2, <3>2, <4>1
    <3>3. CASE i = 0
      BY <1>2, <2>1, <2>2, <3>3
    <3> QED
      BY <2>5, <3>1, <3>2, <3>3
  <2>7. h = [i \in 0..n |-> h[i]]
    OBVIOUS
  <2> HIDE DEF h
  <2>8. h = [i \in 0..n |-> v(i)]
    BY <2>6, <2>7, Zenon
  <2> QED
    BY <2>8 DEF Kept
<1>5. QED
  BY <1>1, <1>4

\* The lines kept so far, one line of the file after the other.
LEMMA SedRecursion ==
    \A lines \in Seq(Lines), e \in Exts : \E kept :
        /\ SedDelete(lines, e) = kept[Len(lines)]
        /\ \A i \in 0..Len(lines) : kept[i] = IF i = 0 THEN <<>>
                                              ELSE IF InRange(lines, e, i) THEN kept[i - 1]
                                              ELSE Append(kept[i - 1], lines[i])
<1> TAKE lines \in Seq(Lines), e \in Exts
<1> DEFINE kept == CHOOSE g : Kept(lines, e, g, Len(lines))
<1>1. Len(lines) \in Nat
  OBVIOUS
<1>2. Kept(lines, e, kept, Len(lines))
  BY <1>1, KeptExists, Zenon
<1>3. SedDelete(lines, e) = kept[Len(lines)]
  BY DEF SedDelete, Kept
<1> HIDE DEF kept
<1>4. \A i \in 0..Len(lines) : kept[i] = IF i = 0 THEN <<>>
                                         ELSE IF InRange(lines, e, i) THEN kept[i - 1]
                                         ELSE Append(kept[i - 1], lines[i])
  BY <1>2, Zenon DEF Kept
<1>5. QED
  BY <1>3, <1>4, Zenon

LEMMA SedKeeps ==
    \A lines \in Seq(Lines), e \in Exts :
        \E pos : Enumerates(pos, SedDelete(lines, e), lines, e, Len(lines))
<1> TAKE lines \in Seq(Lines), e \in Exts
<1>1. Len(lines) \in Nat /\ \A i \in 1..Len(lines) : lines[i] \in Lines
  OBVIOUS
<1>2. PICK kept :
        /\ SedDelete(lines, e) = kept[Len(lines)]
        /\ \A i \in 0..Len(lines) : kept[i] = IF i = 0 THEN <<>>
                                              ELSE IF InRange(lines, e, i) THEN kept[i - 1]
                                              ELSE Append(kept[i - 1], lines[i])
  BY SedRecursion, Zenon
<1>3. \A i \in 0..Len(lines) : kept[i] = IF i = 0 THEN <<>>
                                         ELSE IF InRange(lines, e, i) THEN kept[i - 1]
                                         ELSE Append(kept[i - 1], lines[i])
  BY <1>2, Zenon
<1>4. SedDelete(lines, e) = kept[Len(lines)]
  BY <1>2, Zenon
<1> DEFINE Bad == {n \in 0..Len(lines) : ~\E pos : Enumerates(pos, kept[n], lines, e, n)}
<1>5. Bad = {}
  <2> SUFFICES ASSUME Bad # {} PROVE FALSE
    OBVIOUS
  <2>1. PICK n \in Bad : \A k \in Bad : n <= k
    <3> HIDE DEF Bad
    <3>1. Bad \subseteq Nat
      BY <1>1 DEF Bad
    <3> QED
      BY <3>1, LeastElement
  <2>2. n \in 0..Len(lines)
    OBVIOUS
  <2>3. n # 0
    <3> SUFFICES ASSUME n = 0 PROVE FALSE
      OBVIOUS
    <3>1. kept[0] = <<>>
      BY <1>1, <1>3
    <3>2. Enumerates([j \in 1..0 |-> 0], <<>>, lines, e, 0)
      BY DEF Enumerates
    <3> QED
      BY <2>1, <3>1, <3>2
  <2>4. n - 1 \in 0..Len(lines) /\ n \in 1..Len(lines) /\ ~(n <= n - 1)
    BY <1>1, <2>2, <2>3
  <2>5. PICK pos : Enumerates(pos, kept[n - 1], lines, e, n - 1)
    BY <2>1, <2>4
  <2> DEFINE out == kept[n - 1]
  <2>6. CASE InRange(lines, e, n)
    <3>1. kept[n] = out
      BY <1>3, <2>2, <2>3, <2>6
    <3>2. Enumerates(pos, out, lines, e, n)
      BY <2>4, <2>5, <2>6 DEF Enumerates
    <3> QED
      BY <2>1, <3>1, <3>2
  <2>7. CASE ~InRange(lines, e, n)
    <3> DEFINE next == Append(out, lines[n])
               pos1 == [j \in 1..(Len(out) + 1) |-> IF j = Len(out) + 1 THEN n ELSE pos[j]]
    <3>1. kept[n] = next
      BY <1>3, <2>2, <2>3, <2>7
    <3>2. out \in Seq(Lines) /\ Len(out) \in Nat
      BY <2>5 DEF Enumerates
    <3> HIDE DEF out
    <3>3. /\ next \in Seq(Lines) /\ Len(next) = Len(out) + 1
          /\ \A j \in 1..Len(out) : next[j] = out[j]
          /\ next[Len(out) + 1] = lines[n]
      BY <1>1, <2>4, <3>2
    <3> HIDE DEF next
    <3>4. /\ pos1[Len(out) + 1] = n /\ \A j \in 1..Len(out) : pos1[j] = pos[j]
          /\ pos \in [1..Len(out) -> 1..(n - 1)]
      BY <2>5, <3>2 DEF Enumerates, out
    <3>5. pos1 \in [1..Len(next) -> 1..n]
      BY <2>4, <3>2, <3>3, <3>4
    <3>6. \A j \in 1..Len(next) : j \in 1..Len(out) \/ j = Len(out) + 1
      BY <3>2, <3>3
    <3> HIDE DEF pos1
    <3>7. Enumerates(pos, out, lines, e, n - 1)
      BY <2>5 DEF out
    <3>8. \A j, k \in 1..Len(next) : j < k => pos1[j] < pos1[k]
      <4> SUFFICES ASSUME NEW j \in 1..Len(next), NEW k \in 1..Len(next), j < k
                   PROVE  pos1[j] < pos1[k]
        OBVIOUS
      <4>1. j \in 1..Len(out)
        BY <3>2, <3>6
      <4>2. pos[j] \in 1..(n - 1) /\ pos1[j] = pos[j]
        BY <3>4, <4>1
      <4>3. CASE k = Len(out) + 1
        BY <2>4, <3>4, <4>2, <4>3
      <4>4. CASE k \in 1..Len(out)
        BY <3>4, <3>7, <4>1, <4>4 DEF Enumerates
      <4> QED
        BY <3>6, <4>3, <4>4
    <3>9. \A j \in 1..Len(next) : next[j] = lines[pos1[j]] /\ ~InRange(lines, e, pos1[j])
      BY <2>7, <3>3, <3>4, <3>6, <3>7 DEF Enumerates
    <3>10. ASSUME NEW i \in 1..n, ~InRange(lines, e, i)
           PROVE  \E j \in 1..Len(next) : pos1[j] = i
      <4>1. Len(out) + 1 \in 1..Len(next) /\ 1..Len(out) \subseteq 1..Len(next)
        BY <3>2, <3>3
      <4>2. CASE i = n
        BY <3>4, <4>1, <4>2
      <4>3. CASE i \in 1..(n - 1)
        BY <3>4, <3>7, <3>10, <4>1, <4>3 DEF Enumerates
      <4> QED
        BY <2>4, <4>2, <4>3
    <3>11. Enumerates(pos1, next, lines, e, n)
      BY <3>3, <3>5, <3>8, <3>9, <3>10 DEF Enumerates
    <3> QED
      BY <2>1, <3>1, <3>11
  <2> QED
    BY <2>6, <2>7
<1>6. Len(lines) \in 0..Len(lines)
  BY <1>1
<1>7. QED
  BY <1>4, <1>5, <1>6

\* sed as it goes through the file: deleting has the lines after which it is
\* deleting, out[i] is what it has printed after line i.  A line that begins a
\* range is not compared with the pattern that ends it.
Scans(deleting, out, lines, e) ==
    /\ 0 \notin deleting /\ out[0] = <<>>
    /\ \A i \in 1..Len(lines) :
         IF i - 1 \in deleting
           THEN (i \in deleting <=> lines[i] # Blank) /\ out[i] = out[i - 1]
         ELSE IF HasHeader(lines[i], e)
           THEN i \in deleting /\ out[i] = out[i - 1]
         ELSE i \notin deleting /\ out[i] = Append(out[i - 1], lines[i])

\* A range goes on behind a line that is not blank, and begins at a header.
LEMMA RangeGoesOn ==
    ASSUME NEW lines, NEW e, NEW i \in Nat \ {0}, NEW j, j = i - 1
    PROVE  InRange(lines, e, i)
             <=> HasHeader(lines[i], e) \/ (InRange(lines, e, j) /\ lines[j] # Blank)
<1>1. ASSUME InRange(lines, e, i), ~HasHeader(lines[i], e)
      PROVE  InRange(lines, e, j) /\ lines[j] # Blank
  <2>1. PICK h \in 1..i : HasHeader(lines[h], e) /\ \A k \in h..(i - 1) : lines[k] # Blank
    BY <1>1, Zenon DEF InRange
  <2>2. h # i
    BY <1>1, <2>1
  <2>3. h \in 1..j /\ j \in h..(i - 1) /\ \A k \in h..(j - 1) : k \in h..(i - 1)
    BY <2>2
  <2> QED
    BY <2>1, <2>3, Zenon DEF InRange
<1>2. ASSUME HasHeader(lines[i], e) PROVE InRange(lines, e, i)
  <2>1. i \in 1..i /\ \A k \in i..(i - 1) : FALSE
    OBVIOUS
  <2> QED
    BY <1>2, <2>1, Zenon DEF InRange
<1>3. ASSUME InRange(lines, e, j), lines[j] # Blank PROVE InRange(lines, e, i)
  <2>1. PICK h \in 1..j : HasHeader(lines[h], e) /\ \A k \in h..(j - 1) : lines[k] # Blank
    BY <1>3, Zenon DEF InRange
  <2>2. h \in 1..i /\ \A k \in h..(i - 1) : k = j \/ k \in h..(j - 1)
    OBVIOUS
  <2> QED
    BY <1>3, <2>1, <2>2, Zenon DEF InRange
<1>4. QED
  BY <1>1, <1>2, <1>3, Zenon

\* A file is scanned in one way.
LEMMA ScansAgree ==
    ASSUME NEW lines, Len(lines) \in Nat, NEW e, NEW d1, NEW o1, NEW d2, NEW o2,
           Scans(d1, o1, lines, e), Scans(d2, o2, lines, e)
    PROVE  o1[Len(lines)] = o2[Len(lines)]
<1> DEFINE Agree(n) == (n \in d1 <=> n \in d2) /\ o1[n] = o2[n]
           Bad == {n \in 0..Len(lines) : ~Agree(n)}
<1>1. Bad = {}
  <2> SUFFICES ASSUME Bad # {} PROVE FALSE
    OBVIOUS
  <2>1. PICK n \in Bad : \A k \in Bad : n <= k
    <3>1. Bad \subseteq Nat
      OBVIOUS
    <3> HIDE DEF Bad
    <3> QED
      BY <3>1, LeastElement
  <2>2. n \in 0..Len(lines) /\ ~Agree(n)
    OBVIOUS
  <2>3. n # 0
    BY <2>2 DEF Scans
  <2>4. n \in 1..Len(lines) /\ n - 1 \in 0..Len(lines) /\ ~(n <= n - 1)
    BY <2>2, <2>3
  <2>5. Agree(n - 1)
    BY <2>1, <2>4
  <2>6. Agree(n)
    BY <2>4, <2>5, Zenon DEF Scans
  <2> QED
    BY <2>2, <2>6
<1>2. QED
  BY <1>1

\* The ranges of sed are what it finds in one pass over the file, whatever the
\* file: there is such a scan, and what it has printed at the end is SedDelete.
THEOREM SedScansTheFile ==
    \A lines \in Seq(Lines), e \in Exts :
        /\ \E deleting, out : Scans(deleting, out, lines, e)
        /\ \A deleting, out : Scans(deleting, out, lines, e) => out[Len(lines)] = SedDelete(lines, e)
<1> TAKE lines \in Seq(Lines), e \in Exts
<1>1. Len(lines) \in Nat
  OBVIOUS
<1>2. PICK kept :
        /\ SedDelete(lines, e) = kept[Len(lines)]
        /\ \A i \in 0..Len(lines) : kept[i] = IF i = 0 THEN <<>>
                                              ELSE IF InRange(lines, e, i) THEN kept[i - 1]
                                              ELSE Append(kept[i - 1], lines[i])
  BY SedRecursion, Zenon
<1> DEFINE open == {i \in 1..Len(lines) : InRange(lines, e, i) /\ lines[i] # Blank}
<1>3. Scans(open, kept, lines, e)
  <2>1. 0 \notin open /\ 0 \in 0..Len(lines) /\ kept[0] = <<>>
    BY <1>1, <1>2
  <2>2. ASSUME NEW i \in 1..Len(lines), NEW j, j = i - 1
        PROVE  IF j \in open
                 THEN (i \in open <=> lines[i] # Blank) /\ kept[i] = kept[j]
               ELSE IF HasHeader(lines[i], e)
                 THEN i \in open /\ kept[i] = kept[j]
               ELSE i \notin open /\ kept[i] = Append(kept[j], lines[i])
    <3>1. i \in Nat \ {0} /\ i \in 0..Len(lines) /\ (j \in 1..Len(lines) \/ j = 0)
      BY <1>1, <2>2
    <3>2. kept[i] = IF InRange(lines, e, i) THEN kept[j] ELSE Append(kept[j], lines[i])
      BY <1>2, <2>2, <3>1
    <3>3. InRange(lines, e, i)
            <=> HasHeader(lines[i], e) \/ (InRange(lines, e, j) /\ lines[j] # Blank)
      BY <2>2, <3>1, RangeGoesOn
    <3>4. ~InRange(lines, e, 0)
      BY DEF InRange
    <3>5. HasHeader(lines[i], e) => lines[i] # Blank
      BY DEF HasHeader, Blank
    <3>6. j \in open <=> InRange(lines, e, j) /\ lines[j] # Blank
      BY <2>1, <3>1, <3>4
    <3>7. i \in open <=> InRange(lines, e, i) /\ lines[i] # Blank
      OBVIOUS
    <3> HIDE DEF open
    <3> QED
      BY ONLY <3>2, <3>3, <3>5, <3>6, <3>7, Zenon
  <2> HIDE DEF open
  <2> QED
    BY <2>1, <2>2, Zenon DEF Scans
<1> HIDE DEF open
<1>4. QED
  BY <1>1, <1>2, <1>3, ScansAgree, Zenon

\* What sed -i keeps of a file: lines of it, an endpoint's auth section, the
\* uniqueness of headers.
LEMMA SedFacts ==
    \A lines \in Seq(Lines), e \in Exts :
        /\ SedDelete(lines, e) \in Seq(Lines)
        /\ AuthFollows(lines) => AuthFollows(SedDelete(lines, e))
        /\ HeadersUnique(lines) => HeadersUnique(SedDelete(lines, e))
<1> TAKE lines \in Seq(Lines), e \in Exts
<1> DEFINE out == SedDelete(lines, e)
<1>1. PICK pos : Enumerates(pos, out, lines, e, Len(lines))
  BY SedKeeps
<1> HIDE DEF out
<1>2. /\ out \in Seq(Lines) /\ Len(out) \in Nat /\ Len(lines) \in Nat
      /\ pos \in [1..Len(out) -> 1..Len(lines)]
      /\ \A j, k \in 1..Len(out) : j < k => pos[j] < pos[k]
      /\ \A j \in 1..Len(out) : out[j] = lines[pos[j]]
  BY <1>1 DEF Enumerates
<1>3. ASSUME AuthFollows(lines) PROVE AuthFollows(out)
  <2> SUFFICES ASSUME NEW j \in 1..Len(out), out[j].type = "endpoint"
               PROVE  /\ j + 2 <= Len(out) /\ out[j + 1] = Blank
                      /\ out[j + 2].type = "auth" /\ out[j + 2].ext = out[j].ext
    BY DEF AuthFollows
  <2> DEFINE at == pos[j]
  <2>1. at \in 1..Len(lines) /\ out[j] = lines[at] /\ ~InRange(lines, e, at)
    BY <1>1, <1>2 DEF Enumerates
  <2> HIDE DEF at
  <2>2. /\ at + 2 <= Len(lines) /\ lines[at + 1] = Blank
        /\ lines[at + 2].type = "auth" /\ lines[at + 2].ext = lines[at].ext
    BY <1>3, <2>1 DEF AuthFollows
  <2>3. at + 1 \in 1..Len(lines) /\ at + 2 \in 1..Len(lines)
    BY <1>2, <2>1, <2>2
  <2>4. ~InRange(lines, e, at + 1)
    <3> SUFFICES ASSUME NEW m, m = at + 1, InRange(lines, e, m) PROVE FALSE
      OBVIOUS
    <3> PICK h \in 1..m : HasHeader(lines[h], e) /\ \A k \in h..(m - 1) : lines[k] # Blank
      BY Zenon DEF InRange
    <3>1. h # at + 1
      BY <2>2 DEF HasHeader, Blank
    <3>2. h \in 1..at /\ \A k \in h..(at - 1) : lines[k] # Blank
      BY <2>1, <3>1
    <3> QED
      BY <2>1, <3>2 DEF InRange
  <2>5. ~InRange(lines, e, at + 2)
    <3> SUFFICES ASSUME NEW m, m = at + 2, InRange(lines, e, m) PROVE FALSE
      OBVIOUS
    <3> PICK h \in 1..m : HasHeader(lines[h], e) /\ \A k \in h..(m - 1) : lines[k] # Blank
      BY Zenon DEF InRange
    <3>1. h # at + 2
      BY <2>2 DEF HasHeader
    <3>2. at + 1 \in h..(m - 1)
      BY <2>1, <3>1
    <3> QED
      BY <2>2, <3>2
  <2>6. (\E k \in 1..Len(out) : pos[k] = at + 1) /\ \E k \in 1..Len(out) : pos[k] = at + 2
    <3>1. \A i \in 1..Len(lines) : ~InRange(lines, e, i) => \E k \in 1..Len(out) : pos[k] = i
      BY ONLY <1>1, Zenon DEF Enumerates
    <3> QED
      BY ONLY <2>3, <2>4, <2>5, <3>1, Zenon
  <2>10. PICK j1 \in 1..Len(out) : pos[j1] = at + 1
    BY <2>6, Zenon
  <2>11. PICK j2 \in 1..Len(out) : pos[j2] = at + 2
    BY <2>6, Zenon
  <2>7. ASSUME NEW a \in 1..Len(out), NEW b \in 1..Len(out), pos[a] < pos[b] PROVE a < b
    <3>1. pos[a] \in Nat /\ pos[b] \in Nat
      BY <1>2
    <3>2. b < a => pos[b] < pos[a]
      BY ONLY <1>2, Zenon
    <3>3. a \in Nat /\ b \in Nat
      BY <1>2
    <3>4. a = b => pos[a] = pos[b]
      BY ONLY Zenon
    <3> QED
      BY ONLY <2>7, <3>1, <3>2, <3>3, <3>4
  <2>8. ASSUME NEW a \in 1..Len(out), NEW b \in 1..Len(out), pos[b] = pos[a] + 1
        PROVE  b = a + 1
    <3>0. pos[a] \in 1..Len(lines) /\ pos[b] \in 1..Len(lines)
      BY <1>2
    <3>1. pos[a] \in 1..Len(lines) /\ pos[b] \in 1..Len(lines) /\ a < b
      BY <1>2, <2>7, <2>8, <3>0
    <3>2. CASE b > a + 1
      <4>1. a + 1 \in 1..Len(out) /\ a < a + 1 /\ a + 1 < b
        BY <3>2
      <4>2. pos[a] < pos[a + 1] /\ pos[a + 1] < pos[b] /\ pos[a + 1] \in 1..Len(lines)
        BY <1>2, <4>1
      <4> QED
        BY <2>8, <3>1, <4>2
    <3> QED
      BY <3>1, <3>2
  <2>9. j1 = j + 1 /\ j2 = j1 + 1
    <3>1. pos[j] = at /\ pos[j2] = pos[j1] + 1 /\ pos[j1] = pos[j] + 1
      BY <2>1, <2>10, <2>11 DEF at
    <3> QED
      BY <2>8, <3>1
  <2> QED
    BY <1>2, <2>1, <2>2, <2>9, <2>10, <2>11
<1>4. ASSUME HeadersUnique(lines) PROVE HeadersUnique(out)
  <2> SUFFICES ASSUME NEW j \in 1..Len(out), NEW k \in 1..Len(out),
                      out[j].type \in {"endpoint", "aor"}, out[j].type = out[k].type,
                      out[j].ext = out[k].ext
               PROVE  j = k
    BY DEF HeadersUnique
  <2>1. pos[j] = pos[k]
    BY <1>2, <1>4 DEF HeadersUnique
  <2>2. pos[j] \in Nat /\ ~(j < k) /\ ~(k < j)
    BY <1>2, <2>1
  <2> QED
    BY <2>2
<1>5. QED
  BY <1>2, <1>3, <1>4 DEF out

\* What an append keeps of a file.
LEMMA AppendFacts ==
    \A lines \in Seq(Lines), e \in Exts, p \in Calls :
        /\ AuthFollows(lines) => AuthFollows(lines \o ConfigBlock(e, p))
        /\ HeadersUnique(lines) /\ (\A i \in 1..Len(lines) : ~HasHeader(lines[i], e))
              => HeadersUnique(lines \o ConfigBlock(e, p))
<1> SUFFICES ASSUME NEW lines \in Seq(Lines), NEW e \in Exts, NEW p \in Calls,
                    NEW after, after = lines \o ConfigBlock(e, p)
             PROVE  /\ AuthFollows(lines) => AuthFollows(after)
                    /\ HeadersUnique(lines) /\ (\A i \in 1..Len(lines) : ~HasHeader(lines[i], e))
                          => HeadersUnique(after)
  OBVIOUS
<1> DEFINE n == Len(lines)
<1>1. n \in Nat /\ Len(after) = n + 5 /\ \A i \in 1..n : after[i] = lines[i]
  <2>1. Longer(after, lines, n)
    BY AppendedBlock, Zenon
  <2> QED
    BY ONLY <2>1, Zenon DEF Longer
<1>2. /\ after[n + 1] = Endpoint(e) /\ after[n + 2] = Blank
      /\ after[n + 3] = Auth(e, p) /\ after[n + 4] = Blank /\ after[n + 5] = Aor(e)
  <2>1. BlockAfter(after, n, e, p)
    BY AppendedBlock, Zenon
  <2> QED
    BY ONLY <2>1, Zenon DEF BlockAfter
<1> HIDE DEF n
<1>3. \A i \in 1..Len(after) :
          \/ i \in 1..n
          \/ i = n + 1 \/ i = n + 2 \/ i = n + 3 \/ i = n + 4 \/ i = n + 5
  BY <1>1
<1>4. /\ after[n + 1].type = "endpoint" /\ after[n + 1].ext = e
      /\ after[n + 3].type = "auth" /\ after[n + 3].ext = e
      /\ after[n + 5].type = "aor" /\ after[n + 5].ext = e
      /\ after[n + 2].type = "blank" /\ after[n + 4].type = "blank"
  BY <1>2 DEF Endpoint, Auth, Aor, Blank
<1>5. ASSUME AuthFollows(lines) PROVE AuthFollows(after)
  <2> SUFFICES ASSUME NEW i \in 1..Len(after), after[i].type = "endpoint"
               PROVE  /\ i + 2 <= Len(after) /\ after[i + 1] = Blank
                      /\ after[i + 2].type = "auth" /\ after[i + 2].ext = after[i].ext
    BY DEF AuthFollows
  <2>1. CASE i \in 1..n
    <3>1. /\ i + 2 <= n /\ lines[i + 1] = Blank
          /\ lines[i + 2].type = "auth" /\ lines[i + 2].ext = lines[i].ext
      BY <1>1, <1>5, <2>1 DEF AuthFollows, n
    <3>2. i + 1 \in 1..n /\ i + 2 \in 1..n
      BY <1>1, <2>1, <3>1
    <3> QED
      BY <1>1, <2>1, <3>1, <3>2
  <2>2. CASE i \notin 1..n
    <3>1. i = n + 1
      BY <1>3, <1>4, <2>2
    <3>2. n \in Nat /\ i + 2 = n + 3 /\ n + 3 <= Len(after) /\ i + 1 = n + 2
      BY <1>1, <3>1
    <3>3. after[i + 1] = Blank /\ after[i + 2].type = "auth" /\ after[i + 2].ext = after[i].ext
      BY <1>2, <1>4, <3>1, <3>2
    <3> QED
      BY <3>2, <3>3
  <2> QED
    BY <2>1, <2>2
<1>6. ASSUME HeadersUnique(lines), \A i \in 1..n : ~HasHeader(lines[i], e)
      PROVE  HeadersUnique(after)
  <2> SUFFICES ASSUME NEW i \in 1..Len(after), NEW j \in 1..Len(after),
                      after[i].type \in {"endpoint", "aor"}, after[i].type = after[j].type,
                      after[i].ext = after[j].ext
               PROVE  i = j
    BY DEF HeadersUnique
  <2>1. CASE i \in 1..n /\ j \in 1..n
    BY <1>1, <1>6, <2>1 DEF HeadersUnique, n
  <2>2. CASE i \in 1..n /\ j \notin 1..n
    <3>1. after[i].ext # e
      BY <1>1, <1>6, <2>2 DEF HasHeader
    <3> QED
      BY <1>3, <1>4, <2>2, <3>1
  <2>3. CASE i \notin 1..n /\ j \in 1..n
    <3>1. after[j].ext # e
      BY <1>1, <1>6, <2>3 DEF HasHeader
    <3> QED
      BY <1>3, <1>4, <2>3, <3>1
  <2>4. CASE i \notin 1..n /\ j \notin 1..n
    BY <1>3, <1>4, <2>4
  <2> QED
    BY <2>1, <2>2, <2>3, <2>4
<1>7. QED
  BY <1>5, <1>6 DEF n

-----------------------------------------------------------------------------
(* What a step does to the file, removals included.                        *)

LEMMA FileTypesKept == TypeOK /\ CallTypes /\ [Next]_vars => TypeOK'
<1> SUFFICES ASSUME TypeOK, CallTypes, [Next]_vars PROVE TypeOK'
  OBVIOUS
<1> USE ProvisioningAssumption
<1>1. /\ \A c \in Calls : step[c] # "idle" => ext[c] \in Exts
      /\ conf \in Seq(Lines) /\ temp \in [Calls -> Seq(Lines)]
  BY DEF CallTypes, TypeOK
<1>2. \A c \in Calls : step[c] # "idle" => conf \o ConfigBlock(ext[c], c) \in Seq(Lines)
  BY <1>1, FileGrows
<1>3. \A c \in Calls : step[c] # "idle" => SedDelete(conf, ext[c]) \in Seq(Lines)
  BY <1>1, SedFacts
<1>4. Reloaded(conf) \in [Types -> SUBSET Lines] /\ Started(conf) \in [Types -> SUBSET Lines]
  <2>1. ToSet(conf) \subseteq Lines
    BY <1>1 DEF ToSet
  <2>2. \A t \in Types : OfType(conf, t) \subseteq Lines
    BY <2>1 DEF OfType
  <2>3. loaded \in [Types -> SUBSET Lines]
    BY DEF TypeOK
  <2> QED
    BY <2>2, <2>3 DEF Reloaded, Started
<1>5. <<>> \in Seq(Lines)
  OBVIOUS
<1>6. \A o : \A c \in Calls : Told(c, o) \in {"ok", "error"}
  BY DEF Told
<1> USE DEF TypeOK
<1>7. ASSUME NEW c \in Calls, Command(c), UNCHANGED turns PROVE TypeOK'
  <2>1. CASE Check(c)
    BY <1>6, <1>7, <2>1 DEF Check, Goto
  <2>2. CASE AppendBlock(c)
    BY <1>2, <1>6, <1>7, <2>2 DEF AppendBlock, Goto
  <2>3. CASE SedRead(c)
    BY <1>3, <1>6, <1>7, <2>3 DEF SedRead, Goto
  <2>4. CASE SedRename(c)
    BY <1>5, <1>6, <1>7, <2>4 DEF SedRename, Goto
  <2>5. CASE Reload(c)
    BY <1>4, <1>6, <1>7, <2>5 DEF Reload, Goto
  <2> QED
    BY <1>7, <2>1, <2>2, <2>3, <2>4, <2>5 DEF Command
<1>8. ASSUME NEW c \in Calls, SshFails(c) \/ SshCut(c), UNCHANGED turns PROVE TypeOK'
  <2>1. PICK s \in {"append", "reload", "done", "failed"} : Goto(c, s)
    BY <1>8 DEF SshFails, SshCut
  <2>2. /\ ExecutedOrNot(c) /\ step[c] # "idle" /\ faults' = faults + 1 /\ faults < MaxFaults
        /\ temp' = [temp EXCEPT ![c] = <<>>] /\ UNCHANGED <<kind, ext>>
        /\ cut' \in {cut, cut \cup {c}}
    BY <1>8 DEF SshFails, SshCut, Fault, Ended
  <2>3. conf' \in Seq(Lines) /\ loaded' \in [Types -> SUBSET Lines]
    BY <1>1, <1>2, <1>4, <2>2 DEF ExecutedOrNot
  <2>4. temp' \in [Calls -> Seq(Lines)] /\ faults' \in 0..MaxFaults /\ cut' \subseteq Calls
    BY <1>1, <1>5, <2>2
  <2>5. /\ step' \in [Calls -> {"idle", "check", "append", "sed", "rename", "reload", "done", "failed"}]
        /\ answer' \in [Calls -> {"none", "ok", "error"}]
    BY <1>6, <2>1 DEF Goto
  <2> QED
    BY <1>8, <2>2, <2>3, <2>4, <2>5
<1>9. ASSUME NEW c \in Calls, GatewayTimeout(c), UNCHANGED turns PROVE TypeOK'
  BY <1>6, <1>9 DEF GatewayTimeout, service
<1>10. ASSUME NEW c \in Calls, NEW k \in Kinds, NEW e \in Exts, Request(c, k, e), UNCHANGED turns
       PROVE  TypeOK'
  BY <1>10 DEF Request
<1>11. CASE ((AsteriskReads \/ Done) /\ UNCHANGED turns) \/ UNCHANGED vars
  BY <1>4, <1>11 DEF AsteriskReads, Fault, Done, vars, service
<1>12. QED
  BY <1>7, <1>8, <1>9, <1>10, <1>11 DEF Next

\* Call c renames its temporary file over pjsip.conf.
Renames(c) == step[c] = "rename" /\ conf' = temp[c]

\* The file is left, grows by a block, or is replaced by a temporary file, and
\* a temporary file is what sed kept of the file; the grep of a creation has not
\* found its header; calls begin by MayBegin alone.
FileStep ==
    /\ cut \subseteq cut' /\ turns' = turns
    /\ conf' = conf \/ \E c \in Calls : Appends(c) \/ Renames(c)
    /\ \A c \in Calls : \/ temp'[c] \in {temp[c], <<>>}
                        \/ ext[c] \in Exts /\ temp'[c] = SedDelete(conf, ext[c])
    /\ cut' = {} => \A c \in Calls : step'[c] = "append" =>
          /\ ext'[c] = ext[c]
          /\ \/ step[c] = "append"
             \/ /\ step[c] = "check" /\ conf' = conf
                /\ \A i \in 1..Len(conf) : ~HasHeader(conf[i], ext[c])
    /\ \/ \A c \in Calls : ~Ended(c)' => ~Ended(c)
       \/ \E c \in Calls, e \in Exts : MayBegin(e) /\ \A d \in Calls \ {c} : step'[d] = step[d]

LEMMA FileSteps ==
    ASSUME TypeOK, CallTypes, [Next]_vars
    PROVE  FileStep
<1> USE DEF FileStep
<1>1. /\ \A c \in Calls : step[c] # "idle" => ext[c] \in Exts
      /\ temp \in [Calls -> Seq(Lines)]
      /\ ext \in [Calls -> Exts \cup {"none"}]
      /\ step \in [Calls -> {"idle", "check", "append", "sed", "rename", "reload", "done", "failed"}]
  BY DEF CallTypes, TypeOK
<1>2. ASSUME NEW c \in Calls, Check(c) \/ AppendBlock(c) \/ Reload(c), UNCHANGED turns
      PROVE  FileStep
  BY <1>1, <1>2 DEF Check, AppendBlock, Reload, Goto, Appends, Ended
<1>3. ASSUME NEW c \in Calls, SedRead(c) \/ SedRename(c), UNCHANGED turns PROVE FileStep
  BY <1>1, <1>3 DEF SedRead, SedRename, Goto, Renames, Ended
<1>4. ASSUME NEW c \in Calls, SshFails(c), UNCHANGED turns PROVE FileStep
  BY <1>1, <1>4 DEF SshFails, ExecutedOrNot, Goto, Appends, Renames, Ended
<1>5. ASSUME NEW c \in Calls, SshCut(c), UNCHANGED turns PROVE FileStep
  BY <1>1, <1>5 DEF SshCut, ExecutedOrNot, Goto, Appends, Renames, Ended
<1>6. ASSUME NEW c \in Calls, GatewayTimeout(c), UNCHANGED turns PROVE FileStep
  BY <1>1, <1>6 DEF GatewayTimeout, service, Ended
<1>7. ASSUME NEW c \in Calls, NEW k \in Kinds, NEW e \in Exts, Request(c, k, e), UNCHANGED turns
      PROVE  FileStep
  BY <1>1, <1>7 DEF Request, Ended
<1>8. CASE ((AsteriskReads \/ Done) /\ UNCHANGED turns) \/ UNCHANGED vars
  BY <1>1, <1>8 DEF AsteriskReads, Done, vars, service, Ended
<1>9. QED
  BY <1>2, <1>3, <1>4, <1>5, <1>6, <1>7, <1>8 DEF Next, Command

LEMMA AuthsFollowKept ==
    ASSUME TypeOK, CallTypes, AuthsFollow, FileStep
    PROVE  AuthsFollow'
<1>1. conf \in Seq(Lines) /\ \A c \in Calls : step[c] # "idle" => ext[c] \in Exts
  BY DEF TypeOK, CallTypes
<1>2. AuthFollows(conf) /\ \A c \in Calls : AuthFollows(temp[c])
  BY DEF AuthsFollow
<1>3. AuthFollows(conf')
  <2>1. CASE conf' = conf
    BY <1>2, <2>1
  <2>2. ASSUME NEW c \in Calls, Appends(c) PROVE AuthFollows(conf')
    <3>1. ext[c] \in Exts /\ conf' = conf \o ConfigBlock(ext[c], c)
      BY <1>1, <2>2 DEF Appends
    <3> QED
      BY <1>1, <1>2, <3>1, AppendFacts
  <2>3. ASSUME NEW c \in Calls, Renames(c) PROVE AuthFollows(conf')
    BY <1>2, <2>3 DEF Renames
  <2> QED
    BY <2>1, <2>2, <2>3 DEF FileStep
<1>4. ASSUME NEW c \in Calls PROVE AuthFollows(temp'[c])
  <2>1. AuthFollows(<<>>)
    BY DEF AuthFollows
  <2>2. CASE ext[c] \in Exts /\ temp'[c] = SedDelete(conf, ext[c])
    BY <1>1, <1>2, <2>2, SedFacts
  <2> QED
    BY <1>2, <2>1, <2>2 DEF FileStep
<1>5. QED
  BY <1>3, <1>4 DEF AuthsFollow

LEMMA HeadersUniqueKept ==
    ASSUME TypeOK, CallTypes, HeadersAreUnique, FileStep, turns' = "all", cut' = {}
    PROVE  HeadersAreUnique'
<1>1. conf \in Seq(Lines) /\ \A c \in Calls : step[c] # "idle" => ext[c] \in Exts
  BY DEF TypeOK, CallTypes
<1>2. /\ HeadersUnique(conf) /\ \A c \in Calls : HeadersUnique(temp[c])
      /\ \A c \in Calls : step[c] = "append" =>
            \A i \in 1..Len(conf) : ~HasHeader(conf[i], ext[c])
      /\ \A c, d \in Calls : ~Ended(c) /\ ~Ended(d) => c = d
  <2>1. turns = "all" /\ cut = {}
    BY DEF FileStep
  <2> QED
    BY <2>1 DEF HeadersAreUnique
<1>3. HeadersUnique(conf')
  <2>1. CASE conf' = conf
    BY <1>2, <2>1
  <2>2. ASSUME NEW c \in Calls, Appends(c) PROVE HeadersUnique(conf')
    <3>1. /\ ext[c] \in Exts /\ conf' = conf \o ConfigBlock(ext[c], c)
          /\ \A i \in 1..Len(conf) : ~HasHeader(conf[i], ext[c])
      BY <1>1, <1>2, <2>2 DEF Appends
    <3> QED
      BY <1>1, <1>2, <3>1, AppendFacts
  <2>3. ASSUME NEW c \in Calls, Renames(c) PROVE HeadersUnique(conf')
    BY <1>2, <2>3 DEF Renames
  <2> QED
    BY <2>1, <2>2, <2>3 DEF FileStep
<1>4. ASSUME NEW c \in Calls PROVE HeadersUnique(temp'[c])
  <2>1. HeadersUnique(<<>>)
    BY DEF HeadersUnique
  <2>2. CASE ext[c] \in Exts /\ temp'[c] = SedDelete(conf, ext[c])
    BY <1>1, <1>2, <2>2, SedFacts
  <2> QED
    BY <1>2, <2>1, <2>2 DEF FileStep
<1>5. ASSUME NEW c \in Calls, step'[c] = "append"
      PROVE  \A i \in 1..Len(conf') : ~HasHeader(conf'[i], ext'[c])
  <2>1. /\ ext'[c] = ext[c]
        /\ \/ step[c] = "append"
           \/ step[c] = "check" /\ conf' = conf /\ \A i \in 1..Len(conf) : ~HasHeader(conf[i], ext[c])
    BY <1>5 DEF FileStep
  <2>2. CASE conf' = conf
    BY <1>2, <2>1, <2>2
  <2>3. CASE conf' # conf
    <3>1. PICK d \in Calls : Appends(d) \/ Renames(d)
      BY <2>3 DEF FileStep
    <3>2. c = d
      BY <1>2, <2>1, <2>3, <3>1 DEF Appends, Renames, Ended
    <3> QED
      BY <1>5, <2>1, <2>3, <3>1, <3>2 DEF Appends, Renames
  <2> QED
    BY <2>2, <2>3
<1>6. \A c, d \in Calls : ~Ended(c)' /\ ~Ended(d)' => c = d
  <2>1. CASE \A c \in Calls : ~Ended(c)' => ~Ended(c)
    BY <1>2, <2>1
  <2>2. CASE \E c \in Calls, e \in Exts : MayBegin(e) /\ \A d \in Calls \ {c} : step'[d] = step[d]
    <3>1. PICK c \in Calls, e \in Exts : MayBegin(e) /\ \A d \in Calls \ {c} : step'[d] = step[d]
      BY <2>2
    <3>2. \A d \in Calls : Ended(d)
      BY <3>1 DEF MayBegin, FileStep
    <3>3. \A d \in Calls \ {c} : Ended(d)'
      BY <3>1, <3>2 DEF Ended
    <3> QED
      BY <3>3
  <2> QED
    BY <2>1, <2>2 DEF FileStep
<1>7. QED
  BY <1>3, <1>4, <1>5, <1>6 DEF HeadersAreUnique

LEMMA InitFile == Init => FileInv
<1> SUFFICES ASSUME Init PROVE FileInv
  OBVIOUS
<1>1. conf \in Seq(Lines) /\ Len(conf) = 1 /\ conf[1].type = "blank"
  BY DEF Init, Lines, Blank
<1>2. temp \in [Calls -> Seq(Lines)] /\ \A c \in Calls : temp[c] = <<>>
  BY DEF Init
<1>3. TypeOK
  BY <1>1, <1>2, ProvisioningAssumption DEF Init, TypeOK
<1>4. CallTypes
  BY InitInv DEF CreationInv
<1>5. AuthsFollow
  BY <1>1, <1>2 DEF AuthsFollow, AuthFollows
<1>6. HeadersAreUnique
  BY <1>1, <1>2 DEF Init, HeadersAreUnique, HeadersUnique, Ended
<1>7. QED
  BY <1>3, <1>4, <1>5, <1>6 DEF FileInv

LEMMA NextFile == FileInv /\ [Next]_vars => FileInv'
<1> SUFFICES ASSUME FileInv, [Next]_vars PROVE FileInv'
  OBVIOUS
<1> USE DEF FileInv
<1>1. TypeOK' /\ CallTypes' /\ FileStep
  BY FileTypesKept, TypesKept, FileSteps
<1>2. AuthsFollow'
  BY <1>1, AuthsFollowKept
<1>3. HeadersAreUnique'
  BY <1>1, HeadersUniqueKept DEF HeadersAreUnique
<1>4. QED
  BY <1>1, <1>2, <1>3

\* The inductive invariant of the file: its types, where auth sections stand,
\* and the uniqueness of headers while calls take turns.
THEOREM FileInvariance == Spec => []FileInv
BY InitFile, NextFile, PTL DEF Spec

\* The types of the file, the temporary files and Asterisk's objects: what sed
\* keeps of pjsip.conf is always a sequence of its lines.
THEOREM FileTypes == Spec => []TypeOK
<1>1. FileInv => TypeOK
  BY DEF FileInv
<1>2. QED
  BY <1>1, FileInvariance, PTL

\* An endpoint never stands in pjsip.conf without its auth section, whatever
\* removals (sed), creations and failures interleave.
THEOREM EndpointsKeepTheirAuth == Spec => []EndpointHasAuth
<1>1. FileInv => EndpointHasAuth
  <2> SUFFICES ASSUME FileInv, NEW e \in Exts, Has(conf, "endpoint", e)
               PROVE  Has(conf, "auth", e)
    BY DEF EndpointHasAuth
  <2>1. conf \in Seq(Lines) /\ AuthFollows(conf)
    BY DEF FileInv, TypeOK, AuthsFollow
  <2>2. PICK i \in 1..Len(conf) : conf[i].type = "endpoint" /\ conf[i].ext = e
    BY DEF Has
  <2>3. i + 2 <= Len(conf) /\ conf[i + 2].type = "auth" /\ conf[i + 2].ext = e
    BY <2>1, <2>2 DEF AuthFollows
  <2>4. i + 2 \in 1..Len(conf)
    BY <2>1, <2>3
  <2> QED
    BY <2>3, <2>4 DEF Has
<1>2. QED
  BY <1>1, FileInvariance, PTL

\* Without doubled headers the file has one endpoint and one aor of a name.
LEMMA HeadersAreNotDoubled ==
    ASSUME NEW lines \in Seq(Lines), HeadersUnique(lines), NEW t \in {"endpoint", "aor"}
    PROVE  ~Doubled(lines, t)
<1> SUFFICES ASSUME NEW x \in Exts PROVE ~(Copies(lines, t, x) > 1)
  BY DEF Doubled
<1> DEFINE S == {i \in 1..Len(lines) : lines[i].type = t /\ lines[i].ext = x}
<1>1. \A i, j \in S : i = j
  BY DEF HeadersUnique
<1>2. S = {} \/ \E i \in S : S = {i}
  BY <1>1
<1>3. Cardinality(S) \in {0, 1}
  BY <1>2, FS_EmptySet, FS_Singleton
<1>4. QED
  BY <1>3 DEF Copies

\* The grep of createExtension keeps sections unique when calls take turns,
\* removals included, or only calls about different extensions overlap.
THEOREM SerialCallsKeepSectionsUnique == Spec => []SerialCallsKeepUnique
<1>1. FileInv /\ CreationInv => SerialCallsKeepUnique
  <2> SUFFICES ASSUME FileInv, CreationInv, cut = {},
                      turns = "all" \/ (turns = "extension" /\ NoRemoval)
               PROVE  /\ ~Doubled(conf, "endpoint") /\ ~Doubled(conf, "aor")
                      /\ NoRemoval => ~Doubled(conf, "auth")
    BY DEF SerialCallsKeepUnique
  <2>1. conf \in Seq(Lines)
    BY DEF FileInv, TypeOK
  <2>2. CASE NoRemoval
    <3>1. Unique(conf)
      BY <2>2 DEF CreationInv, SectionsAreUnique, TakeTurns
    <3> QED
      BY <2>1, <3>1, UniqueIsNotDoubled DEF Types
  <2>3. CASE turns = "all" /\ ~NoRemoval
    <3>1. HeadersUnique(conf)
      BY <2>3 DEF FileInv, HeadersAreUnique
    <3> QED
      BY <2>1, <2>3, <3>1, HeadersAreNotDoubled
  <2> QED
    BY <2>2, <2>3
<1>2. QED
  BY <1>1, FileInvariance, CreationInvariance, PTL
-----------------------------------------------------------------------------
(* What a removal takes.                                                   *)

\* How a step may change what is known of call c.
CallStep(c) ==
    \/ /\ kind'[c] = kind[c] /\ ext'[c] = ext[c] /\ step'[c] = step[c] /\ temp'[c] = temp[c]
    \/ step[c] = "idle" /\ step'[c] = IF kind'[c] = "remove" THEN "sed" ELSE "check"
    \/ /\ kind'[c] = kind[c] /\ ext'[c] = ext[c]
       /\ \/ step'[c] \in {"done", "failed"}
          \/ step[c] \in {"check", "append"} /\ step'[c] \in {"append", "reload"}
          \/ step[c] = "sed" /\ step'[c] = "rename" /\ temp'[c] = SedDelete(conf, ext[c])
          \/ step[c] = "rename" /\ step'[c] = "reload" /\ conf' = temp[c]
          \/ step'[c] = "reload" /\ c \in cut'

\* Every step is one for each call, and only a call under way changes the file.
LEMMA CallSteps ==
    ASSUME TypeOK, CallTypes, [Next]_vars
    PROVE  /\ \A c \in Calls : CallStep(c)
           /\ turns' = turns /\ cut \subseteq cut'
           /\ conf' = conf \/ \E d \in Calls : ~Ended(d) /\ step'[d] # step[d]
<1> DEFINE Goal == /\ \A c \in Calls : CallStep(c)
                   /\ turns' = turns /\ cut \subseteq cut'
                   /\ conf' = conf \/ \E d \in Calls : ~Ended(d) /\ step'[d] # step[d]
<1>1. /\ temp \in [Calls -> Seq(Lines)] /\ ext \in [Calls -> Exts \cup {"none"}]
      /\ kind \in [Calls -> Kinds \cup {"none"}]
      /\ step \in [Calls -> {"idle", "check", "append", "sed", "rename", "reload", "done", "failed"}]
  BY DEF CallTypes, TypeOK
<1> USE DEF CallStep
<1>2. ASSUME NEW d \in Calls, Check(d), UNCHANGED turns PROVE Goal
  BY <1>1, <1>2 DEF Check, Goto
<1>3. ASSUME NEW d \in Calls, AppendBlock(d), UNCHANGED turns PROVE Goal
  BY <1>1, <1>3 DEF AppendBlock, Goto, Ended
<1>4. ASSUME NEW d \in Calls, SedRead(d), UNCHANGED turns PROVE Goal
  BY <1>1, <1>4 DEF SedRead, Goto
<1>5. ASSUME NEW d \in Calls, SedRename(d), UNCHANGED turns PROVE Goal
  BY <1>1, <1>5 DEF SedRename, Goto, Ended
<1>6. ASSUME NEW d \in Calls, Reload(d), UNCHANGED turns PROVE Goal
  BY <1>1, <1>6 DEF Reload, Goto
<1>7. ASSUME NEW d \in Calls, SshFails(d), UNCHANGED turns PROVE Goal
  <2>1. step' = [step EXCEPT ![d] = "failed"] /\ temp' = [temp EXCEPT ![d] = <<>>]
        /\ kind' = kind /\ ext' = ext /\ cut' = cut /\ ~Ended(d)
    BY <1>7, Zenon DEF SshFails, Goto
  <2>2. step'[d] # step[d]
    BY <1>1, <2>1 DEF Ended
  <2>3. ASSUME NEW c \in Calls PROVE CallStep(c)
    BY <1>1, <2>1
  <2> QED
    BY <1>7, <2>1, <2>2, <2>3, Zenon
<1>8. ASSUME NEW d \in Calls, SshCut(d), UNCHANGED turns PROVE Goal
  <2>1. /\ step' = [step EXCEPT ![d] = CASE step[d] = "check"  -> "append"
                                        [] step[d] = "reload" -> "done"
                                        [] OTHER              -> "reload"]
        /\ temp' = [temp EXCEPT ![d] = <<>>] /\ kind' = kind /\ ext' = ext
        /\ cut' = cut \cup {d} /\ ~Ended(d)
    BY <1>8, Zenon DEF SshCut, Goto
  <2>2. step'[d] # step[d]
    BY <1>1, <2>1 DEF Ended
  <2>3. ASSUME NEW c \in Calls PROVE CallStep(c)
    <3>1. CASE c # d
      BY <1>1, <2>1, <3>1
    <3>2. CASE c = d
      BY <1>1, <2>1, <3>2
    <3> QED
      BY <3>1, <3>2
  <2> QED
    BY <1>8, <2>1, <2>2, <2>3, Zenon
<1>9. ASSUME NEW d \in Calls, GatewayTimeout(d), UNCHANGED turns PROVE Goal
  BY <1>1, <1>9 DEF GatewayTimeout, service
<1>10. ASSUME NEW d \in Calls, NEW k \in Kinds, NEW e \in Exts, Request(d, k, e), UNCHANGED turns
       PROVE  Goal
  BY <1>1, <1>10 DEF Request
<1>11. CASE ((AsteriskReads \/ Done) /\ UNCHANGED turns) \/ UNCHANGED vars
  BY <1>1, <1>11 DEF AsteriskReads, Done, vars, service
<1>12. QED
  BY <1>2, <1>3, <1>4, <1>5, <1>6, <1>7, <1>8, <1>9, <1>10, <1>11 DEF Next, Command

\* A header is in a range of its own extension, so sed keeps none.
LEMMA SedTakesHeaders ==
    \A lines \in Seq(Lines), e \in Exts : NoHeader(SedDelete(lines, e), e)
<1> TAKE lines \in Seq(Lines), e \in Exts
<1> DEFINE out == SedDelete(lines, e)
<1>1. PICK pos : Enumerates(pos, out, lines, e, Len(lines))
  BY SedKeeps, Zenon
<1> HIDE DEF out
<1>2. ASSUME NEW j \in 1..Len(out), HasHeader(out[j], e) PROVE FALSE
  <2>1. /\ out[j] = lines[pos[j]] /\ ~InRange(lines, e, pos[j])
        /\ pos[j] \in 1..Len(lines)
    BY <1>1 DEF Enumerates
  <2>2. \A h \in Nat \ {0} : h \in 1..h /\ h..(h - 1) = {}
    OBVIOUS
  <2>3. InRange(lines, e, pos[j])
    BY <1>2, <2>1, <2>2 DEF InRange
  <2> QED
    BY <2>1, <2>3
<1>3. QED
  BY <1>2, Zenon DEF NoHeader, out

LEMMA RemovalsKept ==
    ASSUME FileInv, RemovalInv, [Next]_vars
    PROVE  RemovalInv'
<1>1. /\ \A c \in Calls : CallStep(c)
      /\ turns' = turns /\ cut \subseteq cut'
      /\ conf' = conf \/ \E d \in Calls : ~Ended(d) /\ step'[d] # step[d]
  BY CallSteps DEF FileInv
<1>2. conf \in Seq(Lines) /\ \A c \in Calls : step[c] # "idle" => ext[c] \in Exts
  BY DEF FileInv, TypeOK, CallTypes
<1>3. ASSUME NEW c \in Calls, kind'[c] = "remove" PROVE step'[c] \notin {"check", "append"}
  BY <1>1, <1>3 DEF CallStep, RemovalInv
<1>4. ASSUME NEW c \in Calls, step'[c] = "rename" PROVE NoHeader(temp'[c], ext'[c])
  <2>1. CASE step[c] = "rename"
    BY <1>1, <1>4, <2>1 DEF CallStep, RemovalInv
  <2>2. CASE step[c] # "rename"
    <3>1. step[c] = "sed" /\ ext'[c] = ext[c] /\ temp'[c] = SedDelete(conf, ext[c])
      BY <1>1, <1>4, <2>2 DEF CallStep
    <3> QED
      BY <1>2, <3>1, SedTakesHeaders
  <2> QED
    BY <2>1, <2>2
<1>5. ASSUME turns' = "all", cut' = {}, NEW c \in Calls, kind'[c] = "remove", step'[c] = "reload"
      PROVE  NoHeader(conf', ext'[c])
  <2>1. turns = "all" /\ cut = {} /\ c \notin cut'
    BY <1>1, <1>5
  <2>2. CASE step[c] = "reload"
    <3>1. kind[c] = "remove" /\ ext'[c] = ext[c] /\ step'[c] = step[c]
      BY <1>1, <1>5, <2>1, <2>2 DEF CallStep
    <3>2. \A d \in Calls : ~Ended(d) => d = c
      BY <2>1, <2>2 DEF FileInv, HeadersAreUnique, Ended
    <3>3. conf' = conf
      BY <1>1, <3>1, <3>2
    <3> QED
      BY <2>1, <2>2, <3>1, <3>3 DEF RemovalInv
  <2>3. CASE step[c] # "reload"
    <3>1. step[c] \notin {"check", "append"} \/ step[c] = "idle"
      BY <1>1, <1>5, <2>3 DEF CallStep, RemovalInv
    <3>2. step[c] = "rename" /\ conf' = temp[c] /\ ext'[c] = ext[c]
      BY <1>1, <1>5, <2>1, <2>3, <3>1 DEF CallStep
    <3> QED
      BY <3>2 DEF RemovalInv
  <2> QED
    BY <2>2, <2>3
<1>6. QED
  BY <1>3, <1>4, <1>5 DEF RemovalInv

LEMMA RemovalsBegin == Init => RemovalInv
BY DEF Init, RemovalInv

\* The inductive invariant of removals: sed's temporary file, and the file a
\* removal in turn reloads, have no header of its extension.
THEOREM RemovalInvariance == Spec => []RemovalInv
BY FileInvariance, RemovalsBegin, RemovalsKept, PTL DEF Spec

\* The reload of a removal takes the extension out of Asterisk, when calls wait
\* for each other and no connection was lost.
THEOREM RemovedIsGoneFromAsterisk == Spec => RemovedIsGone
<1>1. ASSUME FileInv, CreationInv, RemovalInv, NEW c \in Calls, turns = "all", cut = {},
             kind[c] = "remove", Reload(c)
      PROVE  \A line \in loaded'["endpoint"] \cup loaded'["aor"] : ~HasHeader(line, ext[c])
  <2>1. conf \in Seq(Lines) /\ HeadersUnique(conf) /\ NoHeader(conf, ext[c])
    BY <1>1 DEF FileInv, TypeOK, HeadersAreUnique, RemovalInv, Reload
  <2>2. ~Doubled(conf, "endpoint") /\ ~Doubled(conf, "aor")
    BY <2>1, HeadersAreNotDoubled
  <2>3. loaded'["endpoint"] = OfType(conf, "endpoint") /\ loaded'["aor"] = OfType(conf, "aor")
    BY <1>1, <2>2 DEF Reload, Reloaded, Types
  <2>4. \A line \in ToSet(conf) : ~HasHeader(line, ext[c])
    BY <2>1 DEF NoHeader, ToSet
  <2> QED
    BY <2>3, <2>4 DEF OfType
<1>2. FileInv /\ CreationInv /\ RemovalInv =>
        [\A c \in Calls : turns = "all" /\ cut = {} /\ kind[c] = "remove" /\ Reload(c) =>
           \A line \in loaded'["endpoint"] \cup loaded'["aor"] : ~HasHeader(line, ext[c])]_vars
  BY <1>1
<1>3. QED
  BY <1>2, FileInvariance, CreationInvariance, RemovalInvariance, PTL DEF RemovedIsGone
-----------------------------------------------------------------------------
(* Whose the passwords of the auth sections are.                            *)

\* Every line is of a creation, as call k and extension x have them.
LinesOfCreations(lines, k, x) == \A i \in 1..Len(lines) : OfCreation(lines[i], k, x)

\* sed only leaves lines out; an append adds the auth section of its call.
LEMMA SedKeepsCreations ==
    \A k, x : \A lines \in Seq(Lines), e \in Exts :
        LinesOfCreations(lines, k, x) => LinesOfCreations(SedDelete(lines, e), k, x)
<1> TAKE k, x
<1> TAKE lines \in Seq(Lines), e \in Exts
<1> DEFINE out == SedDelete(lines, e)
<1>1. PICK pos : Enumerates(pos, out, lines, e, Len(lines))
  BY SedKeeps
<1> HIDE DEF out
<1>2. \A j \in 1..Len(out) : pos[j] \in 1..Len(lines) /\ out[j] = lines[pos[j]]
  BY <1>1 DEF Enumerates
<1>3. LinesOfCreations(lines, k, x) => LinesOfCreations(out, k, x)
  BY <1>2 DEF LinesOfCreations
<1>4. QED
  BY <1>3 DEF out

LEMMA AppendOfCreation ==
    \A k, x : \A lines \in Seq(Lines), e \in Exts, p \in Calls :
        LinesOfCreations(lines, k, x) /\ k[p] \in {"create", "register"} /\ x[p] = e
            => LinesOfCreations(lines \o ConfigBlock(e, p), k, x)
<1> SUFFICES ASSUME NEW k, NEW x, NEW lines \in Seq(Lines), NEW e \in Exts, NEW p \in Calls,
                    LinesOfCreations(lines, k, x), k[p] \in {"create", "register"}, x[p] = e,
                    NEW after, after = lines \o ConfigBlock(e, p)
             PROVE  LinesOfCreations(after, k, x)
  BY Zenon
<1> DEFINE n == Len(lines)
<1>1. /\ n \in Nat /\ Len(after) = n + 5
      /\ \A i \in 1..n : after[i] = lines[i]
      /\ after[n + 1] = Endpoint(e) /\ after[n + 2] = Blank /\ after[n + 3] = Auth(e, p)
      /\ after[n + 4] = Blank /\ after[n + 5] = Aor(e)
  <2>1. Longer(after, lines, n) /\ BlockAfter(after, n, e, p)
    BY AppendedBlock, Zenon
  <2>2. QED
    BY ONLY <2>1, Zenon DEF Longer, BlockAfter
<1>2. /\ OfCreation(Endpoint(e), k, x) /\ OfCreation(Blank, k, x) /\ OfCreation(Auth(e, p), k, x)
      /\ OfCreation(Aor(e), k, x)
  BY DEF OfCreation, Endpoint, Blank, Auth, Aor
<1> HIDE DEF n
<1>3. ASSUME NEW i \in 1..Len(after) PROVE OfCreation(after[i], k, x)
  <2>1. i \in 1..n \/ i = n + 1 \/ i = n + 2 \/ i = n + 3 \/ i = n + 4 \/ i = n + 5
    BY <1>1, <1>3
  <2>2. CASE i \in 1..n
    BY <1>1, <2>2 DEF LinesOfCreations, n
  <2> QED
    BY <1>1, <1>2, <2>1, <2>2
<1>4. QED
  BY <1>3 DEF LinesOfCreations

\* Asterisk loads lines of the file, or keeps what it has.
LEMMA LoadOfCreations ==
    \A k, x :
        conf \in Seq(Lines) /\ LinesOfCreations(conf, k, x)
        /\ (\A t \in Types : \A line \in loaded[t] : line.type = t /\ OfCreation(line, k, x))
          => \A now \in {Reloaded(conf), Started(conf)} :
                \A t \in Types : \A line \in now[t] : line.type = t /\ OfCreation(line, k, x)
<1> SUFFICES ASSUME NEW k, NEW x, conf \in Seq(Lines), LinesOfCreations(conf, k, x),
                    \A t \in Types : \A line \in loaded[t] : line.type = t /\ OfCreation(line, k, x),
                    NEW t \in Types
             PROVE  /\ \A line \in Reloaded(conf)[t] : line.type = t /\ OfCreation(line, k, x)
                    /\ \A line \in Started(conf)[t] : line.type = t /\ OfCreation(line, k, x)
  BY Zenon
<1>1. \A line \in OfType(conf, t) : line.type = t /\ OfCreation(line, k, x)
  BY DEF LinesOfCreations, OfType, ToSet
<1>2. Reloaded(conf)[t] \in {loaded[t], OfType(conf, t)} /\ Started(conf)[t] \in {{}, OfType(conf, t)}
  BY DEF Reloaded, Started
<1>3. QED
  BY <1>1, <1>2

\* What a step does to Asterisk's objects, and whose appends there are.
LEMMA LoadSteps ==
    ASSUME CallTypes, [Next]_vars
    PROVE  loaded' \in {loaded, Reloaded(conf), Started(conf)}
<1>1. ASSUME NEW c \in Calls, Command(c) \/ SshFails(c) \/ SshCut(c) \/ GatewayTimeout(c)
      PROVE  loaded' \in {loaded, Reloaded(conf), Started(conf)}
  BY <1>1 DEF Command, Check, AppendBlock, SedRead, SedRename, Reload, SshFails, SshCut,
     GatewayTimeout, ExecutedOrNot
<1>2. QED
  BY <1>1 DEF Next, Request, AsteriskReads, Done, vars

LEMMA CreationsKept ==
    FileInv /\ RemovalInv /\ AuthsOfCreations /\ [Next]_vars => AuthsOfCreations'
<1> SUFFICES ASSUME FileInv, RemovalInv, AuthsOfCreations, [Next]_vars PROVE AuthsOfCreations'
  OBVIOUS
<1>1. /\ \A c \in Calls : CallStep(c)
      /\ FileStep /\ loaded' \in {loaded, Reloaded(conf), Started(conf)}
  BY CallSteps, FileSteps, LoadSteps DEF FileInv
<1>2. /\ conf \in Seq(Lines) /\ temp \in [Calls -> Seq(Lines)]
      /\ kind \in [Calls -> Kinds \cup {"none"}]
      /\ \A c \in Calls : (step[c] = "idle" <=> kind[c] = "none") /\ (step[c] # "idle" => ext[c] \in Exts)
  BY DEF FileInv, TypeOK, CallTypes
<1>3. \A c \in Calls : kind[c] # "none" => kind'[c] = kind[c] /\ ext'[c] = ext[c]
  BY <1>1, <1>2 DEF CallStep
<1>4. \A line : OfCreation(line, kind, ext) => OfCreation(line, kind', ext')
  BY <1>3 DEF OfCreation
<1> DEFINE Kind == kind'
           Ext == ext'
<1>5. /\ LinesOfCreations(conf, Kind, Ext)
      /\ \A c \in Calls : LinesOfCreations(temp[c], Kind, Ext)
      /\ \A t \in Types : \A line \in loaded[t] : line.type = t /\ OfCreation(line, Kind, Ext)
  BY <1>4 DEF AuthsOfCreations, LinesOfCreations
<1>6. \A c \in Calls : step[c] = "append" =>
        Kind[c] \in {"create", "register"} /\ Ext[c] = ext[c] /\ ext[c] \in Exts
  BY <1>2, <1>3, ProvisioningAssumption DEF RemovalInv
<1> HIDE DEF Kind, Ext
<1>7. LinesOfCreations(conf', Kind, Ext)
  <2>1. CASE conf' = conf
    BY <1>5, <2>1
  <2>2. ASSUME NEW c \in Calls, Appends(c) PROVE LinesOfCreations(conf', Kind, Ext)
    BY <1>2, <1>5, <1>6, <2>2, AppendOfCreation DEF Appends
  <2>3. ASSUME NEW c \in Calls, Renames(c) PROVE LinesOfCreations(conf', Kind, Ext)
    BY <1>5, <2>3 DEF Renames
  <2>4. QED
    BY <1>1, <2>1, <2>2, <2>3 DEF FileStep
<1>8. ASSUME NEW c \in Calls PROVE LinesOfCreations(temp'[c], Kind, Ext)
  <2>1. CASE temp'[c] = temp[c]
    BY <1>5, <2>1
  <2>2. CASE temp'[c] = <<>>
    BY <2>2 DEF LinesOfCreations
  <2>3. CASE ext[c] \in Exts /\ temp'[c] = SedDelete(conf, ext[c])
    BY <1>2, <1>5, <2>3, SedKeepsCreations
  <2>4. QED
    BY <1>1, <2>1, <2>2, <2>3 DEF FileStep
<1>9. \A t \in Types : \A line \in loaded'[t] : line.type = t /\ OfCreation(line, Kind, Ext)
  BY <1>1, <1>2, <1>5, LoadOfCreations
<1>10. QED
  BY <1>7, <1>8, <1>9 DEF AuthsOfCreations, LinesOfCreations, Kind, Ext

LEMMA CreationsBegin == Init => AuthsOfCreations
<1> SUFFICES ASSUME Init PROVE AuthsOfCreations
  OBVIOUS
<1>1. Len(conf) = 1 /\ conf[1].type = "blank"
  BY DEF Init, Blank
<1>2. \A c \in Calls : Len(temp[c]) = 0
  BY DEF Init
<1>3. \A t \in Types : loaded[t] = {}
  BY DEF Init
<1>4. QED
  BY <1>1, <1>2, <1>3 DEF AuthsOfCreations, OfCreation

\* Every auth section, in pjsip.conf, in a temporary file of sed or in Asterisk, is
\* of a creation of its own extension, with the password that creation brought.
THEOREM AuthSectionsHaveCreations == Spec => []AuthsOfCreations
BY FileInvariance, RemovalInvariance, CreationsBegin, CreationsKept, PTL DEF Spec
=============================================================================
