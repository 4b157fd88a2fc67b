-------------------------- MODULE AuthServiceProofs --------------------------
(* Proofs about the auth service: the largest extension as text exists and   *)
(* is the largest number below 10000, and the inductive invariant of the     *)
(* users' table, for any users, calls, extensions and faults.                *)
EXTENDS AuthService, FiniteSetTheorems, WellFoundedInduction, TLAPS

\* The order of the text is a strict linear order of the numbers.
LEMMA TextOrder ==
    /\ \A m \in Nat : ~TextLess(m, m)
    /\ \A m, n \in Nat : m # n => TextLess(m, n) \/ TextLess(n, m)
    /\ \A l, m, n \in Nat : TextLess(l, m) /\ TextLess(m, n) => TextLess(l, n)
BY DEF TextLess, Padded

\* A finite set of numbers, not empty, has a largest one as text: a smallest set
\* of those that are larger than one of its members is empty.
LEMMA TextMaxExists ==
    ASSUME NEW S, S \subseteq Nat, IsFiniteSet(S), S # {}
    PROVE  \E m \in S : \A n \in S \ {m} : TextLess(n, m)
<1> DEFINE Larger(m) == {n \in S : TextLess(m, n)}
           All == {Larger(m) : m \in S}
<1>1. All \subseteq SUBSET S /\ All # {}
  OBVIOUS
<1>2. IsWellFoundedOn(StrictSubsetOrdering(S), SUBSET S)
  BY FS_StrictSubsetOrderingWellFounded, FS_FiniteSubsetsOfFinite
<1>3. PICK T \in All : \A U \in All : ~(<<U, T>> \in StrictSubsetOrdering(S))
  <2> HIDE DEF All
  <2> QED
    BY <1>1, <1>2, WFMin
<1>4. PICK m \in S : T = Larger(m)
  OBVIOUS
<1>5. Larger(m) = {}
  <2> SUFFICES ASSUME NEW n \in Larger(m) PROVE FALSE
    OBVIOUS
  <2>1. n \in S /\ TextLess(m, n)
    OBVIOUS
  <2>2. Larger(n) \subseteq Larger(m)
    BY <2>1, TextOrder
  <2>3. n \notin Larger(n)
    BY <2>1, TextOrder
  <2>4. <<Larger(n), Larger(m)>> \in StrictSubsetOrdering(S)
    BY <2>2, <2>3 DEF StrictSubsetOrdering
  <2> QED
    BY <2>1, <2>4, <1>3, <1>4
<1>6. QED
  BY <1>5, TextOrder

LEMMA TextMaxIsLargest ==
    ASSUME NEW S, S \subseteq Nat, IsFiniteSet(S), S # {}
    PROVE  TextMax(S) \in S /\ \A n \in S \ {TextMax(S)} : TextLess(n, TextMax(S))
BY TextMaxExists DEF TextMax

\* It has a largest number as well: its largest text, among the numbers from
\* 10000 on if there are any.
LEMMA MaxIsLargest ==
    ASSUME NEW S, S \subseteq Nat, IsFiniteSet(S), S # {}
    PROVE  Max(S) \in S /\ \A n \in S : Max(S) >= n
<1> DEFINE Long == {n \in S : n >= 10000}
<1>1. \E m \in S : \A n \in S : m >= n
  <2>1. CASE Long = {}
    <3>1. TextMax(S) \in S /\ \A n \in S \ {TextMax(S)} : TextLess(n, TextMax(S))
      BY TextMaxIsLargest
    <3>2. \A m, n \in S : TextLess(n, m) => m >= n
      BY <2>1 DEF TextLess, Padded
    <3>3. \A n \in S : n >= n
      OBVIOUS
    <3> QED
      BY <3>1, <3>2, <3>3
  <2>2. CASE Long # {}
    <3>1. Long \subseteq Nat /\ IsFiniteSet(Long)
      <4>1. Long \in SUBSET S
        OBVIOUS
      <4> HIDE DEF Long
      <4> QED
        BY <4>1, FS_Subset
    <3>2. TextMax(Long) \in Long /\ \A n \in Long \ {TextMax(Long)} : TextLess(n, TextMax(Long))
      BY <3>1, <2>2, TextMaxIsLargest
    <3>3. \A m, n \in Long : TextLess(n, m) => m >= n
      BY DEF TextLess, Padded
    <3>4. \A m \in Long, n \in S \ Long : m >= n
      OBVIOUS
    <3>5. \A n \in S : n >= n
      OBVIOUS
    <3> HIDE DEF Long
    <3>6. Long \subseteq S
      BY DEF Long
    <3> QED
      BY <3>2, <3>3, <3>4, <3>5, <3>6
  <2> QED
    BY <2>1, <2>2
<1>2. QED
  BY <1>1 DEF Max

\* Below 10000 the two are the same.
LEMMA TextMaxIsMax ==
    ASSUME NEW S, S \subseteq Nat, IsFiniteSet(S), S # {}
    PROVE  Max(S) < 10000 => TextMax(S) = Max(S)
<1>1. TextMax(S) \in S /\ \A n \in S \ {TextMax(S)} : TextLess(n, TextMax(S))
  BY TextMaxIsLargest
<1>2. Max(S) \in S /\ \A n \in S : Max(S) >= n
  BY MaxIsLargest
<1>3. Max(S) # TextMax(S) => TextLess(Max(S), TextMax(S))
  BY <1>1, <1>2
<1>4. Max(S) \in Nat /\ TextMax(S) \in Nat /\ Max(S) >= TextMax(S)
  BY <1>1, <1>2
<1>5. \A k, t \in Nat : k < 10000 /\ k >= t => ~TextLess(k, t)
  BY DEF TextLess, Padded
<1>6. QED
  BY <1>3, <1>4, <1>5

-----------------------------------------------------------------------------
(* All of the invariant but the SIP passwords that logins draw.             *)

Rest ==
    /\ TypeOK /\ RowsHaveSip /\ UniqueExtensions /\ AnsweredIsStored
    /\ \A c \in Calls : EntityOfRow(c)

LEMMA RestHolds == UsersInv => Rest
BY DEF UsersInv, Rest, AnswersAreStored

\* The users' table begins in the invariant.
LEMMA InitInv == Init => UsersInv
<1> SUFFICES ASSUME Init PROVE UsersInv
  OBVIOUS
<1> USE AuthAssumption
<1>1. TypeOK
  BY DEF Init, TypeOK, SeedRow, Row, Roles
<1>2. RowsHaveSip
  BY DEF Init, RowsHaveSip, HasSip, Known, SeedRow, NoSip
<1>3. UniqueExtensions
  BY DEF Init, UniqueExtensions, Known, SeedRow
<1>4. \A c \in Calls : EntityOfRow(c) /\ ReadOrAnswered(c)
  BY DEF Init, EntityOfRow, ReadOrAnswered
<1>5. AnswersAreStored
  BY DEF Init, AnswersAreStored, AnsweredIsStored, StoredWasAnswered, Answered
<1>6. \A u \in Users : StoredAccounted(u)
  BY DEF Init, StoredAccounted, Known, HasSip, SeedRow
<1>7. QED
  BY <1>1, <1>2, <1>3, <1>4, <1>5, <1>6 DEF UsersInv

\* What a login completes keeps its extension, and its SIP password if it has one.
LEMMA CompletedRow ==
    ASSUME NEW c \in Calls, NEW e \in Row, NEW r \in Roles \cup {NoRole}
    PROVE  /\ Completed(e, c, r) \in Row
           /\ Completed(e, c, r).ext = e.ext
           /\ Completed(e, c, r).sip = IF e.sip = NoSip THEN c ELSE e.sip
<1> DEFINE sip == IF e.sip = NoSip THEN c ELSE e.sip
           role == IF r = NoRole THEN e.role ELSE r
           done == [e EXCEPT !.sip = sip, !.hash = TRUE, !.role = role]
<1>1. sip \in Calls \cup {"seed", NoSip} /\ role \in Roles
  BY DEF Row
<1>2. Completed(e, c, r) = done
  BY DEF Completed
<1> HIDE DEF sip, role
<1>3. done \in Row
  BY <1>1 DEF Row
<1>4. done.ext = e.ext
  BY DEF Row
<1>5. done.sip = sip
  BY DEF Row
<1>6. QED
  BY <1>2, <1>3, <1>4, <1>5 DEF sip

LEMMA CompletedEntity ==
    ASSUME Rest, NEW c \in Calls, MidpointAccepts(c)
    PROVE  /\ entity' \in [Calls -> Row \cup {NoRow}]
           /\ entity'[c] \in Row /\ entity'[c].ext = entity[c].ext
           /\ HasSip(user[c]) => entity'[c].sip = row[user[c]].sip
<1> DEFINE r == midpoint[user[c]]
<1>1. entity[c] \in Row /\ r \in Roles \cup {NoRole}
  BY DEF Rest, MidpointAccepts, TypeOK, EntityOfRow
<1>2. entity \in [Calls -> Row \cup {NoRow}]
  BY DEF Rest, TypeOK
<1>3. /\ entity'[c] = Completed(entity[c], c, r)
      /\ entity' = [d \in Calls |-> IF d = c THEN entity'[c] ELSE entity[d]]
  BY <1>2 DEF MidpointAccepts
<1>4. HasSip(user[c]) => entity[c].sip # NoSip /\ entity[c].sip = row[user[c]].sip
  BY DEF Rest, MidpointAccepts, EntityOfRow, RowsHaveSip
<1> HIDE DEF r
<1> DEFINE done == Completed(entity[c], c, r)
<1>5. /\ done \in Row /\ done.ext = entity[c].ext
      /\ done.sip = IF entity[c].sip = NoSip THEN c ELSE entity[c].sip
  BY <1>1, CompletedRow
<1> HIDE DEF done
<1>6. entity'[c] = done
  BY <1>3 DEF done
<1>7. entity' \in [Calls -> Row \cup {NoRow}]
  BY <1>2, <1>3, <1>5, <1>6
<1>8. QED
  BY <1>4, <1>5, <1>6, <1>7

\* A call that begins knows whether its password is midPoint's.
LEMMA CallTypes ==
    ASSUME right \in [Calls -> BOOLEAN],
           NEW c \in Calls, NEW k \in Kinds, NEW u \in Users, Call(c, k, u)
    PROVE  right' \in [Calls -> BOOLEAN]
BY DEF Call

\* The extensions are a finite set of numbers, not empty.
LEMMA ExtensionIsFinite ==
    ASSUME Rest
    PROVE  Extension \subseteq Nat /\ Extension # {} /\ IsFiniteSet(Extension)
<1>1. Extension \subseteq Nat /\ Extension # {}
  <2>1. \A u \in Known : row[u] \in Row
    BY DEF Rest, TypeOK, Known
  <2>2. \A u \in Known : row[u].ext \in Nat
    BY <2>1 DEF Row
  <2>3. Taken \subseteq Nat /\ Taken # {}
    BY AuthAssumption
  <2> QED
    BY <2>2, <2>3 DEF Extension
<1>2. IsFiniteSet(Taken)
  <2>1. Taken \in SUBSET Nat /\ \A e \in Taken : e <= 99999
    BY AuthAssumption
  <2> QED
    BY <2>1, FS_BoundedSetOfNaturals
<1>3. IsFiniteSet({row[u].ext : u \in Known})
  <2>1. IsFiniteSet(Known)
    <3>1. Known \in SUBSET Users
      BY DEF Known
    <3> QED
      BY <3>1, AuthAssumption, FS_Subset
  <2> DEFINE f == [u \in Known |-> row[u].ext]
             E == {row[u].ext : u \in Known}
  <2>2. f \in Surjection(Known, E)
    BY DEF Surjection
  <2> HIDE DEF f, E
  <2>3. IsFiniteSet(E)
    BY <2>1, <2>2, FS_Surjection
  <2> QED
    BY <2>3 DEF E
<1>4. QED
  BY <1>1, <1>2, <1>3, FS_Union DEF Extension

\* A call begins.
LEMMA CallInv ==
    ASSUME Rest, NEW c \in Calls, NEW k \in Kinds, NEW u \in Users,
           Call(c, k, u), seedHasSip' = seedHasSip
    PROVE  Rest'
<1>0. right' \in [Calls -> BOOLEAN]
  BY CallTypes DEF Rest, TypeOK
<1> USE AuthAssumption DEF Rest, Call, Goto, calls
<1>1. TypeOK'
  <2>1. right' \in [Calls -> BOOLEAN]
    BY <1>0
  <2>2. kind' \in [Calls -> Kinds \cup {"none"}] /\ user' \in [Calls -> Users \cup {"none"}]
    BY DEF TypeOK
  <2> QED
    BY <2>1, <2>2 DEF TypeOK
<1>2. RowsHaveSip'
  BY SMTT(30) DEF RowsHaveSip, HasSip, Known, TypeOK, EntityOfRow, Row
<1>3. \A d \in Calls : EntityOfRow(d)'
  BY SMTT(30) DEF EntityOfRow, RowsHaveSip, HasSip, Known, TypeOK, Row, Roles
<1>4. UniqueExtensions'
  BY SMTT(30) DEF UniqueExtensions, EntityOfRow, Extension, Known, TypeOK, Row
<1>5. AnsweredIsStored'
  BY SMTT(30) DEF AnsweredIsStored, EntityOfRow, HasSip, Answered, Known, TypeOK, Row
<1>6. QED
  BY <1>1, <1>2, <1>3, <1>4, <1>5

\* midPoint changes.
LEMMA MidpointChangesInv ==
    ASSUME Rest, NEW u \in Users, NEW r \in Roles \cup {NoRole}, MidpointChanges(u, r), seedHasSip' = seedHasSip
    PROVE  Rest'
<1> USE AuthAssumption DEF Rest, MidpointChanges, Fault, calls
<1>1. TypeOK'
  BY SMTT(30) DEF TypeOK, EntityOfRow, Known, Row, Roles
<1>2. RowsHaveSip'
  BY SMTT(30) DEF RowsHaveSip, HasSip, Known, TypeOK, EntityOfRow, Row
<1>3. \A d \in Calls : EntityOfRow(d)'
  BY SMTT(30) DEF EntityOfRow, RowsHaveSip, HasSip, Known, TypeOK, Row, Roles
<1>4. UniqueExtensions'
  BY SMTT(30) DEF UniqueExtensions, EntityOfRow, Extension, Known, TypeOK, Row
<1>5. AnsweredIsStored'
  BY SMTT(30) DEF AnsweredIsStored, EntityOfRow, HasSip, Answered, Known, TypeOK, Row
<1>6. QED
  BY <1>1, <1>2, <1>3, <1>4, <1>5

\* A login reads its row.
LEMMA LoginFindInv ==
    ASSUME Rest, NEW c \in Calls, LoginFind(c), seedHasSip' = seedHasSip
    PROVE  Rest'
<1> USE AuthAssumption DEF Rest, LoginFind, Goto, End, calls
<1>1. TypeOK'
  BY SMTT(30) DEF TypeOK, EntityOfRow, Known, Row, Roles
<1>2. RowsHaveSip'
  BY SMTT(30) DEF RowsHaveSip, HasSip, Known, TypeOK, EntityOfRow, Row
<1>3. \A d \in Calls : EntityOfRow(d)'
  BY SMTT(30) DEF EntityOfRow, RowsHaveSip, HasSip, Known, TypeOK, Row, Roles
<1>4. UniqueExtensions'
  BY SMTT(30) DEF UniqueExtensions, EntityOfRow, Extension, Known, TypeOK, Row
<1>5. AnsweredIsStored'
  BY SMTT(30) DEF AnsweredIsStored, EntityOfRow, HasSip, Answered, Known, TypeOK, Row
<1>6. QED
  BY <1>1, <1>2, <1>3, <1>4, <1>5

\* The entity of a login is completed.
LEMMA MidpointAcceptsInv ==
    ASSUME Rest, NEW c \in Calls, MidpointAccepts(c), seedHasSip' = seedHasSip
    PROVE  Rest'
<1>1. \A d \in Calls \ {c} : entity'[d] = entity[d] /\ step'[d] = step[d]
  BY DEF Rest, MidpointAccepts, TypeOK, Goto
<1>2. /\ UNCHANGED <<row, midpoint, kind, user, right, answer, faults>>
      /\ step'[c] = "save" /\ step' \in [Calls -> {"idle", "find", "ask", "max", "insert", "save", "ended"}]
  BY DEF MidpointAccepts, Goto, Rest, TypeOK
<1>3. /\ user[c] \in Users /\ user[c] \in Known /\ entity[c].ext = row[user[c]].ext
      /\ answer[c] = NoAnswer /\ kind[c] = "login"
  BY DEF MidpointAccepts, EntityOfRow, Rest
<1>4. TypeOK'
  BY <1>2, CompletedEntity DEF Rest, TypeOK
<1>5. EntityOfRow(c)'
  BY <1>2, <1>3, CompletedEntity DEF EntityOfRow, Known, HasSip
<1>7. \A d \in Calls \ {c} : EntityOfRow(d)'
  BY <1>1, <1>2 DEF Rest, EntityOfRow, Known, HasSip
<1>8. RowsHaveSip' /\ UniqueExtensions' /\ AnsweredIsStored'
  BY <1>2 DEF Rest, RowsHaveSip, HasSip, UniqueExtensions, AnsweredIsStored, Answered, Known
<1>9. QED
  BY <1>4, <1>5, <1>7, <1>8 DEF Rest

\* A login is answered from the entity it read.
LEMMA LocalAuthenticationInv ==
    ASSUME Rest, NEW c \in Calls, LocalAuthentication(c), seedHasSip' = seedHasSip
    PROVE  Rest'
<1> USE AuthAssumption DEF Rest, LocalAuthentication, Goto, End, Fault, NoFault, calls
<1>1. TypeOK'
  BY SMTT(30) DEF TypeOK, EntityOfRow, Known, Row, Roles
<1>2. RowsHaveSip'
  BY SMTT(30) DEF RowsHaveSip, HasSip, Known, TypeOK, EntityOfRow, Row
<1>3. \A d \in Calls : EntityOfRow(d)'
  BY SMTT(30) DEF EntityOfRow, RowsHaveSip, HasSip, Known, TypeOK, Row, Roles
<1>4. UniqueExtensions'
  BY SMTT(30) DEF UniqueExtensions, EntityOfRow, Extension, Known, TypeOK, Row
<1>5. AnsweredIsStored'
  BY SMTT(30) DEF AnsweredIsStored, EntityOfRow, HasSip, Answered, Known, TypeOK, Row
<1>6. QED
  BY <1>1, <1>2, <1>3, <1>4, <1>5

\* A login writes its entity.
LEMMA LoginSaveInv ==
    ASSUME Rest, NEW c \in Calls, LoginSave(c), seedHasSip' = seedHasSip
    PROVE  Rest'
<1> USE AuthAssumption DEF Rest, LoginSave, Goto, End, Fault, NoFault, Reject, Save, calls
<1>1. TypeOK'
  BY SMTT(30) DEF TypeOK, EntityOfRow, Known, Row, Roles
<1>2. RowsHaveSip'
  BY SMTT(30) DEF RowsHaveSip, HasSip, Known, TypeOK, EntityOfRow, Row
<1>3. \A d \in Calls : EntityOfRow(d)'
  BY SMTT(30) DEF EntityOfRow, RowsHaveSip, HasSip, Known, TypeOK, Row, Roles
<1>4. UniqueExtensions'
  BY SMTT(30) DEF UniqueExtensions, EntityOfRow, Extension, Known, TypeOK, Row
<1>5. AnsweredIsStored'
  BY SMTT(30) DEF AnsweredIsStored, EntityOfRow, HasSip, Answered, Known, TypeOK, Row
<1>6. QED
  BY <1>1, <1>2, <1>3, <1>4, <1>5

\* A registration looks for the name.
LEMMA RegisterFindInv ==
    ASSUME Rest, NEW c \in Calls, RegisterFind(c), seedHasSip' = seedHasSip
    PROVE  Rest'
<1> USE AuthAssumption DEF Rest, RegisterFind, Goto, End, calls
<1>1. TypeOK'
  BY SMTT(30) DEF TypeOK, EntityOfRow, Known, Row, Roles
<1>2. RowsHaveSip'
  BY SMTT(30) DEF RowsHaveSip, HasSip, Known, TypeOK, EntityOfRow, Row
<1>3. \A d \in Calls : EntityOfRow(d)'
  BY SMTT(30) DEF EntityOfRow, RowsHaveSip, HasSip, Known, TypeOK, Row, Roles
<1>4. UniqueExtensions'
  BY SMTT(30) DEF UniqueExtensions, EntityOfRow, Extension, Known, TypeOK, Row
<1>5. AnsweredIsStored'
  BY SMTT(30) DEF AnsweredIsStored, EntityOfRow, HasSip, Answered, Known, TypeOK, Row
<1>6. QED
  BY <1>1, <1>2, <1>3, <1>4, <1>5

\* A registration takes the next extension.
LEMMA RegisterMaxInv ==
    ASSUME Rest, NEW c \in Calls, RegisterMax(c), seedHasSip' = seedHasSip, NextExt \in Nat
    PROVE  Rest'
<1> USE AuthAssumption DEF Rest, RegisterMax, Goto, calls
<1>1. TypeOK'
  BY SMTT(30) DEF TypeOK, EntityOfRow, Known, Row, Roles
<1>2. RowsHaveSip'
  BY SMTT(30) DEF RowsHaveSip, HasSip, Known, TypeOK, EntityOfRow, Row
<1>3. \A d \in Calls : EntityOfRow(d)'
  BY SMTT(30) DEF EntityOfRow, RowsHaveSip, HasSip, Known, TypeOK, Row, Roles
<1>4. UniqueExtensions'
  BY SMTT(30) DEF UniqueExtensions, EntityOfRow, Extension, Known, TypeOK, Row
<1>5. AnsweredIsStored'
  BY SMTT(30) DEF AnsweredIsStored, EntityOfRow, HasSip, Answered, Known, TypeOK, Row
<1>6. QED
  BY <1>1, <1>2, <1>3, <1>4, <1>5

\* A registration inserts its row.
LEMMA RegisterInsertInv ==
    ASSUME Rest, NEW c \in Calls, RegisterInsert(c), seedHasSip' = seedHasSip
    PROVE  Rest'
<1> USE AuthAssumption DEF Rest, RegisterInsert, Goto, End, Fault, NoFault, Reject, Save, calls
<1>1. TypeOK'
  BY SMTT(30) DEF TypeOK, EntityOfRow, Known, Row, Roles
<1>2. RowsHaveSip'
  BY SMTT(30) DEF RowsHaveSip, HasSip, Known, TypeOK, EntityOfRow, Row
<1>3. \A d \in Calls : EntityOfRow(d)'
  BY SMTT(30) DEF EntityOfRow, RowsHaveSip, HasSip, Known, TypeOK, Row, Roles
<1>4. UniqueExtensions'
  BY SMTT(30) DEF UniqueExtensions, EntityOfRow, Extension, Known, TypeOK, Row
<1>5. AnsweredIsStored'
  BY SMTT(30) DEF AnsweredIsStored, EntityOfRow, HasSip, Answered, Known, TypeOK, Row
<1>6. QED
  BY <1>1, <1>2, <1>3, <1>4, <1>5

\* The role synchronisation reads a row.
LEMMA SyncFindInv ==
    ASSUME Rest, NEW c \in Calls, SyncFind(c), seedHasSip' = seedHasSip
    PROVE  Rest'
<1> USE AuthAssumption DEF Rest, SyncFind, Goto, End, calls
<1>1. TypeOK'
  BY SMTT(30) DEF TypeOK, EntityOfRow, Known, Row, Roles
<1>2. RowsHaveSip'
  BY SMTT(30) DEF RowsHaveSip, HasSip, Known, TypeOK, EntityOfRow, Row
<1>3. \A d \in Calls : EntityOfRow(d)'
  BY SMTT(30) DEF EntityOfRow, RowsHaveSip, HasSip, Known, TypeOK, Row, Roles
<1>4. UniqueExtensions'
  BY SMTT(30) DEF UniqueExtensions, EntityOfRow, Extension, Known, TypeOK, Row
<1>5. AnsweredIsStored'
  BY SMTT(30) DEF AnsweredIsStored, EntityOfRow, HasSip, Answered, Known, TypeOK, Row
<1>6. QED
  BY <1>1, <1>2, <1>3, <1>4, <1>5

\* The role synchronisation writes its entity.
LEMMA SyncSaveInv ==
    ASSUME Rest, NEW c \in Calls, SyncSave(c), seedHasSip' = seedHasSip
    PROVE  Rest'
<1> USE AuthAssumption DEF Rest, SyncSave, Goto, End, Fault, NoFault, Reject, Save, calls
<1>1. TypeOK'
  BY SMTT(30) DEF TypeOK, EntityOfRow, Known, Row, Roles
<1>2. RowsHaveSip'
  BY SMTT(30) DEF RowsHaveSip, HasSip, Known, TypeOK, EntityOfRow, Row
<1>3. \A d \in Calls : EntityOfRow(d)'
  BY SMTT(30) DEF EntityOfRow, RowsHaveSip, HasSip, Known, TypeOK, Row, Roles
<1>4. UniqueExtensions'
  BY SMTT(30) DEF UniqueExtensions, EntityOfRow, Extension, Known, TypeOK, Row
<1>5. AnsweredIsStored'
  BY SMTT(30) DEF AnsweredIsStored, EntityOfRow, HasSip, Answered, Known, TypeOK, Row
<1>6. QED
  BY <1>1, <1>2, <1>3, <1>4, <1>5

LEMMA NextExtIsNat == Rest => NextExt \in Nat
<1> SUFFICES ASSUME Rest PROVE NextExt \in Nat
  OBVIOUS
<1>1. Extension \subseteq Nat /\ Extension # {} /\ IsFiniteSet(Extension)
  BY ExtensionIsFinite
<1>2. TextMax(Extension) \in Nat
  BY <1>1, TextMaxIsLargest
<1>3. QED
  BY <1>2 DEF NextExt

\* What a step of another call leaves of a call.
SameCall(c) ==
    /\ kind'[c] = kind[c] /\ user'[c] = user[c] /\ answer'[c] = answer[c]
    /\ entity'[c] = entity[c] /\ step'[c] = step[c]

OthersKept(c) == \A d \in Calls \ {c} : SameCall(d)

\* A call that is over takes no step, and a step of a call leaves the others.
LEMMA StepOfACall ==
    ASSUME UsersInv, NEW c \in Calls,
           (\E k \in Kinds, u \in Users : Call(c, k, u)) \/ Login(c) \/ Register(c) \/ Sync(c)
    PROVE  OthersKept(c) /\ step[c] # "ended"
<1>1. /\ kind \in [Calls -> Kinds \cup {"none"}] /\ user \in [Calls -> Users \cup {"none"}]
      /\ entity \in [Calls -> Row \cup {NoRow}] /\ answer \in [Calls -> Row \cup {NoAnswer, Failed}]
      /\ step \in [Calls -> {"idle", "find", "ask", "max", "insert", "save", "ended"}]
  BY DEF UsersInv, TypeOK
<1>2. ASSUME NEW k \in Kinds, NEW u \in Users, Call(c, k, u)
      PROVE  OthersKept(c) /\ step[c] # "ended"
  BY <1>1, <1>2 DEF Call, Goto, OthersKept, SameCall
<1>3. CASE Login(c)
  <2>1. CASE LoginFind(c)
    BY <1>1, <2>1 DEF LoginFind, Goto, End, Reject, OthersKept, SameCall
  <2>2. CASE MidpointAccepts(c)
    BY <1>1, <2>2 DEF MidpointAccepts, Goto, OthersKept, SameCall
  <2>3. CASE LocalAuthentication(c)
    BY <1>1, <2>3 DEF LocalAuthentication, Goto, End, Reject, OthersKept, SameCall
  <2>4. CASE LoginSave(c)
    BY <1>1, <2>4 DEF LoginSave, Goto, End, Reject, OthersKept, SameCall
  <2> QED
    BY <1>3, <2>1, <2>2, <2>3, <2>4 DEF Login
<1>4. CASE Register(c)
  <2>1. CASE RegisterFind(c)
    BY <1>1, <2>1 DEF RegisterFind, Goto, End, Reject, OthersKept, SameCall
  <2>2. CASE RegisterMax(c)
    BY <1>1, <2>2 DEF RegisterMax, Goto, OthersKept, SameCall
  <2>3. CASE RegisterInsert(c)
    BY <1>1, <2>3 DEF RegisterInsert, Goto, End, Reject, OthersKept, SameCall
  <2> QED
    BY <1>4, <2>1, <2>2, <2>3 DEF Register
<1>5. CASE Sync(c)
  <2>1. CASE SyncFind(c)
    BY <1>1, <2>1 DEF SyncFind, Goto, End, Reject, OthersKept, SameCall
  <2>2. CASE SyncSave(c)
    BY <1>1, <2>2 DEF SyncSave, Goto, End, Reject, OthersKept, SameCall
  <2> QED
    BY <1>5, <2>1, <2>2 DEF Sync
<1>6. QED
  BY <1>2, <1>3, <1>4, <1>5

\* Extensions and SIP passwords are kept, whatever is saved; only an insertion
\* adds one.
LEMMA StepOfARow ==
    ASSUME UsersInv, NEW c \in Calls,
           (\E k \in Kinds, u \in Users : Call(c, k, u)) \/ Login(c) \/ Register(c) \/ Sync(c)
    PROVE  /\ \A u \in Known : /\ row'[u] # NoRow /\ row'[u].ext = row[u].ext
                               /\ HasSip(u) => row'[u].sip = row[u].sip
           /\ \/ \A u \in Users : row'[u] # NoRow => u \in Known
              \/ /\ RegisterInsert(c) /\ kind[c] = "register"
                 /\ answer'[c] = entity[c] \/ faults' = faults + 1
                 /\ entity[c] \in Row /\ user[c] \in Users \ Known
                 /\ row' = [row EXCEPT ![user[c]] = entity[c]]
<1>1. row \in [Users -> Row \cup {NoRow}] /\ NoRow \notin Row
  BY AuthAssumption DEF UsersInv, TypeOK
<1>2. CASE row' = row
  BY <1>2 DEF Known
<1>3. ASSUME row' = [row EXCEPT ![user[c]] = entity[c]],
             kind[c] \in {"login", "sync"}, step[c] = "save"
      PROVE  /\ \A u \in Known : /\ row'[u] # NoRow /\ row'[u].ext = row[u].ext
                                 /\ HasSip(u) => row'[u].sip = row[u].sip
             /\ \A u \in Users : row'[u] # NoRow => u \in Known
  <2>1. /\ user[c] \in Known /\ entity[c] \in Row /\ entity[c].ext = row[user[c]].ext
        /\ HasSip(user[c]) => entity[c].sip = row[user[c]].sip
    BY <1>3 DEF UsersInv, EntityOfRow
  <2> QED
    BY <1>1, <1>3, <2>1 DEF Known
<1>4. ASSUME row' = [row EXCEPT ![user[c]] = entity[c]], RegisterInsert(c), user[c] \notin Known
      PROVE  /\ \A u \in Known : /\ row'[u] # NoRow /\ row'[u].ext = row[u].ext
                                 /\ HasSip(u) => row'[u].sip = row[u].sip
             /\ entity[c] \in Row /\ user[c] \in Users \ Known
  <2>1. entity[c] \in Row /\ user[c] \in Users
    BY <1>4 DEF UsersInv, EntityOfRow, RegisterInsert
  <2> QED
    BY <1>1, <1>4, <2>1 DEF Known
<1>5. \/ row' = row
      \/ row' = [row EXCEPT ![user[c]] = entity[c]] /\ kind[c] \in {"login", "sync"} /\ step[c] = "save"
      \/ RegisterInsert(c) /\ row' = row
      \/ /\ RegisterInsert(c) /\ row' = [row EXCEPT ![user[c]] = entity[c]] /\ user[c] \notin Known
         /\ kind[c] = "register"
         /\ answer' = [answer EXCEPT ![c] = entity[c]] \/ faults' = faults + 1
  BY DEF Call, Login, LoginFind, MidpointAccepts, LocalAuthentication, LoginSave, Register,
     RegisterFind, RegisterMax, RegisterInsert, Sync, SyncFind, SyncSave, End, Save, Reject, Fault
<1>6. answer \in [Calls -> Row \cup {NoAnswer, Failed}]
  BY DEF UsersInv, TypeOK
<1>7. QED
  BY <1>2, <1>3, <1>4, <1>5, <1>6

-----------------------------------------------------------------------------
(* The SIP passwords that logins draw.                                      *)

\* A password is accounted for by the step's end.
NowAccounted(u, p) ==
    \E d \in Calls :
        /\ kind'[d] = "login" /\ user'[d] = u
        /\ \/ answer'[d] \notin {NoAnswer, Failed} /\ answer'[d].sip = p
           \/ answer'[d] = Failed /\ p = d

\* What is accounted for stays so, and synchronised users too.
LEMMA AccountedKept ==
    ASSUME UsersInv, NEW c \in Calls, OthersKept(c), step[c] # "ended", NEW u, NEW p, Accounted(u, p)
    PROVE  NowAccounted(u, p)
<1>1. PICK d \in Calls : /\ kind[d] = "login" /\ user[d] = u
                         /\ (Answered(d) /\ answer[d].sip = p) \/ (answer[d] = Failed /\ p = d)
  BY DEF Accounted
<1>2. d # c
  BY <1>1, AuthAssumption DEF UsersInv, EntityOfRow, Answered
<1>3. QED
  BY <1>1, <1>2 DEF OthersKept, SameCall, NowAccounted, Answered

LEMMA SyncedKept ==
    ASSUME UsersInv, NEW c \in Calls, OthersKept(c),
           (\E k \in Kinds, u \in Users : Call(c, k, u)) \/ Login(c) \/ Register(c) \/ Sync(c),
           NEW u, Synced(u)
    PROVE  Synced(u)'
<1>1. PICK d \in Calls : user[d] = u /\ kind[d] = "sync"
  BY DEF Synced
<1>2. kind'[d] = "sync" /\ user'[d] = u
  <2>1. CASE d # c
    BY <1>1, <2>1 DEF OthersKept, SameCall
  <2>2. CASE d = c
    <3>1. step[c] # "idle"
      BY <1>1, <2>2 DEF UsersInv, EntityOfRow
    <3>2. kind' = kind /\ user' = user
      BY <3>1 DEF Call, Login, LoginFind, MidpointAccepts, LocalAuthentication, LoginSave, Register,
         RegisterFind, RegisterMax, RegisterInsert, Sync, SyncFind, SyncSave
    <3> QED
      BY <1>1, <2>2, <3>2
  <2> QED
    BY <2>1, <2>2
<1>3. QED
  BY <1>2 DEF Synced

\* A user without a SIP password in the beginning gets another one only if that
\* is accounted for.
LEMMA DrawnAccounted ==
    ASSUME UsersInv, Rest', NEW c \in Calls, OthersKept(c), step[c] # "ended", seedHasSip' = seedHasSip,
           (\E k \in Kinds, u \in Users : Call(c, k, u)) \/ Login(c) \/ Register(c) \/ Sync(c),
           NEW u \in Users, ~HasSip(u), ~Synced(u)
    PROVE  u \in Known /\ (row'[u].sip = row[u].sip \/ NowAccounted(u, row'[u].sip))
<1>1. u \in Known
  BY DEF UsersInv, RowsHaveSip, HasSip
<1>2. row \in [Users -> Row \cup {NoRow}] /\ answer \in [Calls -> Row \cup {NoAnswer, Failed}]
  BY DEF UsersInv, TypeOK
<1>3. CASE row' = row
  BY <1>1, <1>3
<1>4. ASSUME LoginSave(c), Save(c), user[c] = u
      PROVE  NowAccounted(u, row'[u].sip)
  <2>1. row'[u] = entity[c] /\ kind' = kind /\ user' = user /\ kind[c] = "login" /\ step[c] = "save"
        /\ entity[c] \in Row
    BY <1>2, <1>4 DEF LoginSave, Save, UsersInv, EntityOfRow
  <2>2. CASE answer' = [answer EXCEPT ![c] = entity[c]]
    <3>1. answer'[c] = entity[c] /\ entity[c] \notin {NoAnswer, Failed}
      BY <1>2, <2>1, <2>2, AuthAssumption
    <3> QED
      BY <1>4, <2>1, <3>1 DEF NowAccounted
  <2>3. CASE answer' = [answer EXCEPT ![c] = Failed]
    <3>1. entity[c].sip = c \/ Accounted(u, entity[c].sip)
      BY <1>4, <2>1 DEF UsersInv, ReadOrAnswered
    <3>2. CASE entity[c].sip = c
      <4>1. answer'[c] = Failed
        BY <1>2, <2>3
      <4> QED
        BY <1>4, <2>1, <3>2, <4>1 DEF NowAccounted
    <3>3. CASE Accounted(u, entity[c].sip)
      BY <2>1, <3>3, AccountedKept
    <3> QED
      BY <3>1, <3>2, <3>3
  <2> QED
    BY <1>4, <2>2, <2>3 DEF LoginSave, End
<1>5. CASE (RegisterInsert(c) /\ user[c] \notin Known /\ Save(c)) \/ (SyncSave(c) /\ Save(c))
  <2>1. user[c] # u
    BY <1>1, <1>5 DEF SyncSave, Synced
  <2> QED
    BY <1>1, <1>2, <1>5, <2>1 DEF Save
<1>6. CASE LoginSave(c) /\ Save(c) /\ user[c] # u
  BY <1>1, <1>2, <1>6 DEF Save
<1>7. \/ row' = row \/ (LoginSave(c) /\ Save(c)) \/ (SyncSave(c) /\ Save(c))
      \/ (RegisterInsert(c) /\ user[c] \notin Known /\ Save(c))
  BY DEF Call, Login, LoginFind, MidpointAccepts, LocalAuthentication, LoginSave, Register,
     RegisterFind, RegisterMax, RegisterInsert, Sync, SyncFind, SyncSave, Reject
<1>8. QED
  BY <1>1, <1>3, <1>4, <1>5, <1>6, <1>7

\* What a login holds after its step.
LEMMA HeldAccounted ==
    ASSUME UsersInv, Rest', NEW c \in Calls, OthersKept(c), step[c] # "ended", seedHasSip' = seedHasSip,
           (\E k \in Kinds, u \in Users : Call(c, k, u)) \/ Login(c) \/ Register(c) \/ Sync(c),
           kind'[c] = "login", step'[c] \in {"ask", "save"}, ~Synced(user'[c])
    PROVE  /\ step'[c] = "save" \/ entity'[c].sip = row'[user'[c]].sip
           /\ \/ HasSip(user'[c])
              \/ entity'[c].sip = IF step'[c] = "ask" THEN NoSip ELSE c
              \/ NowAccounted(user'[c], entity'[c].sip)
<1>1. /\ entity \in [Calls -> Row \cup {NoRow}]
      /\ step \in [Calls -> {"idle", "find", "ask", "max", "insert", "save", "ended"}]
  BY DEF UsersInv, TypeOK
<1>2. LoginFind(c) \/ MidpointAccepts(c)
  BY <1>1 DEF Call, Login, LocalAuthentication, LoginSave, Register,
     RegisterFind, RegisterMax, RegisterInsert, Sync, SyncFind, SyncSave, Goto, End, UsersInv
<1>3. CASE LoginFind(c)
  <2>1. /\ step'[c] = "ask" /\ user[c] \in Known /\ entity'[c] = row[user[c]]
        /\ row' = row /\ user' = user
    BY <1>1, <1>3 DEF LoginFind, Goto, End
  <2>2. user[c] \in Users
    BY <2>1 DEF Known
  <2>3. StoredAccounted(user[c])
    BY <2>2 DEF UsersInv
  <2>4. \/ HasSip(user[c]) \/ row[user[c]].sip = NoSip \/ Accounted(user[c], row[user[c]].sip)
    BY <2>1, <2>3 DEF StoredAccounted
  <2>5. Accounted(user[c], row[user[c]].sip) => NowAccounted(user[c], row[user[c]].sip)
    BY AccountedKept
  <2> QED
    BY <2>1, <2>4, <2>5
<1>4. CASE MidpointAccepts(c)
  <2>1. /\ step'[c] = "save" /\ user' = user /\ kind[c] = "login" /\ step[c] = "ask" /\ entity[c] \in Row
        /\ entity' = [entity EXCEPT ![c] = Completed(entity[c], c, midpoint[user[c]])]
        /\ midpoint[user[c]] \in Roles \cup {NoRole}
    BY <1>1, <1>4 DEF MidpointAccepts, Goto, UsersInv, EntityOfRow, TypeOK
  <2>2. entity'[c].sip = IF entity[c].sip = NoSip THEN c ELSE entity[c].sip
    <3>1. entity'[c] = Completed(entity[c], c, midpoint[user[c]])
      BY <1>1, <2>1
    <3> QED
      BY <2>1, <3>1, CompletedRow
  <2>3. HasSip(user[c]) \/ entity[c].sip = NoSip \/ Accounted(user[c], entity[c].sip)
    BY <2>1 DEF UsersInv, ReadOrAnswered
  <2>4. Accounted(user[c], entity[c].sip) => NowAccounted(user[c], entity[c].sip)
    BY AccountedKept
  <2> QED
    BY <2>1, <2>2, <2>3, <2>4
<1>5. QED
  BY <1>2, <1>3, <1>4

\* A login that is answered for a user without a SIP password in the beginning
\* accounts for the stored one, if nothing did before.
LEMMA AnswerAccounts ==
    ASSUME UsersInv, NEW c \in Calls, OthersKept(c), step[c] # "ended", seedHasSip' = seedHasSip,
           (\E k \in Kinds, u \in Users : Call(c, k, u)) \/ Login(c) \/ Register(c) \/ Sync(c),
           kind'[c] = "login", Answered(c)', ~Synced(user'[c])
    PROVE  NowAccounted(user'[c], row'[user'[c]].sip)
<1>1. /\ answer \in [Calls -> Row \cup {NoAnswer, Failed}] /\ answer[c] = NoAnswer
      /\ row \in [Users -> Row \cup {NoRow}]
  BY DEF UsersInv, TypeOK, EntityOfRow
<1>2. answer'[c] # NoAnswer /\ answer'[c] # Failed
  BY DEF Answered
<1>3. LocalAuthentication(c) \/ LoginSave(c)
  BY <1>1, <1>2 DEF Call, Login, LoginFind, MidpointAccepts, Register, RegisterFind, RegisterMax,
     RegisterInsert, Sync, SyncFind, SyncSave, Goto, End, UsersInv, EntityOfRow
<1>4. /\ kind' = kind /\ user' = user /\ user[c] \in Users /\ answer'[c] = entity[c] /\ kind[c] = "login"
  BY <1>1, <1>2, <1>3 DEF LocalAuthentication, LoginSave, End, UsersInv, EntityOfRow
<1>5. NowAccounted(user[c], entity[c].sip)
  BY <1>2, <1>4 DEF NowAccounted
<1>6. CASE LocalAuthentication(c)
  <2>1. entity[c].sip = row[user[c]].sip \/ Accounted(user[c], row[user[c]].sip)
    BY <1>4, <1>6 DEF LocalAuthentication, UsersInv, ReadOrAnswered
  <2>2. row' = row
    BY <1>6 DEF LocalAuthentication
  <2> QED
    BY <1>4, <1>5, <2>1, <2>2, AccountedKept
<1>7. CASE LoginSave(c)
  <2>1. Save(c)
    BY <1>1, <1>2, <1>7 DEF LoginSave, End
  <2>2. row'[user[c]] = entity[c]
    BY <1>1, <1>4, <2>1 DEF Save
  <2> QED
    BY <1>4, <1>5, <2>2
<1>8. QED
  BY <1>3, <1>6, <1>7

LEMMA PasswordsKept ==
    ASSUME UsersInv, Rest', NEW c \in Calls, seedHasSip' = seedHasSip,
           (\E k \in Kinds, u \in Users : Call(c, k, u)) \/ Login(c) \/ Register(c) \/ Sync(c)
    PROVE  UsersInv'
<1>1. OthersKept(c) /\ step[c] # "ended"
  BY StepOfACall
<1>2. \A u, p : Accounted(u, p) => NowAccounted(u, p)
  BY <1>1, AccountedKept
<1>3. \A u : Synced(u) => Synced(u)'
  BY <1>1, SyncedKept
<1>4. \A u, p : NowAccounted(u, p) <=> Accounted(u, p)'
  BY DEF NowAccounted, Accounted, Answered
<1>5. \A u \in Users : ~HasSip(u) /\ ~Synced(u) =>
          u \in Known /\ (row'[u].sip = row[u].sip \/ NowAccounted(u, row'[u].sip))
  BY <1>1, DrawnAccounted
<1>6. \A u : HasSip(u)' <=> HasSip(u)
  BY DEF HasSip
<1>7. \A u \in Users : StoredAccounted(u)'
  <2> SUFFICES ASSUME NEW u \in Users, ~HasSip(u), ~Synced(u)
               PROVE  row'[u].sip = NoSip \/ NowAccounted(u, row'[u].sip)
    BY <1>3, <1>4, <1>6 DEF StoredAccounted
  <2>1. u \in Known /\ (row'[u].sip = row[u].sip \/ NowAccounted(u, row'[u].sip))
    BY <1>5
  <2>2. row[u].sip = NoSip \/ Accounted(u, row[u].sip)
    BY <2>1 DEF UsersInv, StoredAccounted
  <2> QED
    BY <1>2, <2>1, <2>2
<1>8. ASSUME NEW d \in Calls, kind'[d] = "login", step'[d] \in {"ask", "save"}, ~Synced(user'[d])
      PROVE  /\ \/ step'[d] = "save" \/ entity'[d].sip = row'[user'[d]].sip
                \/ NowAccounted(user'[d], row'[user'[d]].sip)
             /\ \/ HasSip(user'[d])
                \/ entity'[d].sip = IF step'[d] = "ask" THEN NoSip ELSE d
                \/ NowAccounted(user'[d], entity'[d].sip)
  <2>1. CASE d = c
    BY <1>1, <1>8, <2>1, HeldAccounted
  <2>2. CASE d # c
    <3>1. SameCall(d) /\ user[d] \in Users
      BY <1>1, <1>8, <2>2 DEF OthersKept, SameCall, UsersInv, EntityOfRow
    <3>2. /\ step[d] = "save" \/ entity[d].sip = row[user[d]].sip \/ Accounted(user[d], row[user[d]].sip)
          /\ \/ HasSip(user[d])
             \/ entity[d].sip = IF step[d] = "ask" THEN NoSip ELSE d
             \/ Accounted(user[d], entity[d].sip)
      BY <1>8, <3>1 DEF SameCall, UsersInv, ReadOrAnswered
    <3>3. CASE HasSip(user[d])
      <4>1. entity'[d].sip = row'[user'[d]].sip
        BY <1>6, <1>8, <3>3, <3>1 DEF Rest, EntityOfRow, SameCall
      <4> QED
        BY <3>1, <3>3, <4>1 DEF SameCall
    <3>4. CASE ~HasSip(user[d])
      <4>1. row'[user[d]].sip = row[user[d]].sip \/ NowAccounted(user[d], row'[user[d]].sip)
        BY <1>5, <1>8, <3>1, <3>4 DEF SameCall
      <4> QED
        BY <1>2, <3>1, <3>2, <4>1 DEF SameCall
    <3> QED
      BY <3>3, <3>4
  <2> QED
    BY <2>1, <2>2
<1>9. \A d \in Calls : ReadOrAnswered(d)'
  BY <1>3, <1>4, <1>6, <1>8 DEF ReadOrAnswered
<1>10. StoredWasAnswered'
  <2> SUFFICES ASSUME NEW u \in Known', NEW d \in Calls, kind'[d] = "login", user'[d] = u,
                      Answered(d)', ~Synced(u)
               PROVE  NowAccounted(u, row'[u].sip)
    BY <1>3, <1>4 DEF StoredWasAnswered
  <2>1. u \in Users
    BY DEF Known
  <2>2. CASE HasSip(u)
    <3>1. row'[u].sip = answer'[d].sip
      BY <1>6, <2>2 DEF Rest, AnsweredIsStored, HasSip
    <3> QED
      BY <3>1 DEF NowAccounted, Answered
  <2>3. CASE ~HasSip(u) /\ d = c
    BY <1>1, <2>3, AnswerAccounts
  <2>4. CASE ~HasSip(u) /\ d # c
    <3>1. kind[d] = "login" /\ user[d] = u /\ Answered(d)
      BY <1>1, <2>4 DEF OthersKept, SameCall, Answered
    <3>2. u \in Known /\ (row'[u].sip = row[u].sip \/ NowAccounted(u, row'[u].sip))
      BY <1>5, <2>1, <2>4
    <3>3. Accounted(u, row[u].sip)
      BY <3>1, <3>2 DEF UsersInv, AnswersAreStored, StoredWasAnswered
    <3> QED
      BY <1>2, <3>2, <3>3
  <2> QED
    BY <2>2, <2>3, <2>4
<1>11. QED
  BY <1>7, <1>9, <1>10 DEF UsersInv, Rest, AnswersAreStored

LEMMA NextInv == UsersInv /\ [Next]_vars => UsersInv'
<1> SUFFICES ASSUME UsersInv, [Next]_vars PROVE UsersInv'
  OBVIOUS
<1>1. Rest
  BY RestHolds
<1>2. CASE UNCHANGED vars
  BY <1>2 DEF vars, calls, UsersInv, TypeOK, RowsHaveSip, EntityOfRow, ReadOrAnswered, StoredAccounted,
     UniqueExtensions, AnswersAreStored, AnsweredIsStored, StoredWasAnswered, Accounted, Synced,
     HasSip, Known, Extension, Answered
<1>3. CASE Next /\ ~UNCHANGED vars
  <2>1. seedHasSip' = seedHasSip
    BY <1>3 DEF Next
  <2>2. ASSUME NEW c \in Calls, NEW k \in Kinds, NEW u \in Users, Call(c, k, u)
        PROVE  UsersInv'
    BY <1>1, <2>1, <2>2, CallInv, PasswordsKept
  <2>3. ASSUME NEW u \in Users, NEW r \in Roles \cup {NoRole}, MidpointChanges(u, r)
        PROVE  UsersInv'
    <3>1. Rest'
      BY <1>1, <2>1, <2>3, MidpointChangesInv
    <3>2. /\ \A c \in Calls : ReadOrAnswered(c)'
          /\ \A v \in Users : StoredAccounted(v)'
          /\ StoredWasAnswered'
      BY <2>1, <2>3 DEF MidpointChanges, calls, UsersInv, ReadOrAnswered, StoredAccounted,
         AnswersAreStored, StoredWasAnswered, Accounted, Synced, Answered, HasSip, Known
    <3> QED
      BY <3>1, <3>2 DEF UsersInv, Rest, AnswersAreStored
  <2>4. ASSUME NEW c \in Calls, Login(c)
        PROVE  UsersInv'
    <3>1. Rest'
      BY <1>1, <2>1, <2>4, LoginFindInv, MidpointAcceptsInv, LocalAuthenticationInv, LoginSaveInv
         DEF Login
    <3> QED
      BY <2>1, <2>4, <3>1, PasswordsKept
  <2>5. ASSUME NEW c \in Calls, Register(c)
        PROVE  UsersInv'
    <3>1. Rest'
      BY <1>1, <2>1, <2>5, RegisterFindInv, RegisterMaxInv, RegisterInsertInv, NextExtIsNat DEF Register
    <3> QED
      BY <2>1, <2>5, <3>1, PasswordsKept
  <2>6. ASSUME NEW c \in Calls, Sync(c)
        PROVE  UsersInv'
    <3>1. Rest'
      BY <1>1, <2>1, <2>6, SyncFindInv, SyncSaveInv DEF Sync
    <3> QED
      BY <2>1, <2>6, <3>1, PasswordsKept
  <2> QED
    BY <1>3, <2>2, <2>3, <2>4, <2>5, <2>6 DEF Next, Done
<1>4. QED
  BY <1>2, <1>3

-----------------------------------------------------------------------------

\* The inductive invariant of the users' table: what every login, registration
\* and synchronisation holds between its reading and its writing.
THEOREM UsersInvariance == Spec => []UsersInv
BY InitInv, NextInv, PTL DEF Spec

\* The types, for any users and calls.
THEOREM UsersTypes == Spec => []TypeOK
BY UsersInvariance, PTL DEF UsersInv

\* No two users share an extension, whatever registrations race.
THEOREM ExtensionsAreUnique == Spec => []UniqueExtensions
BY UsersInvariance, PTL DEF UsersInv

\* What a client was answered and what the table has of its user agree, whatever
\* saves what it read earlier.
THEOREM AnswersAlwaysStored == Spec => []AnswersAreStored
BY UsersInvariance, PTL DEF UsersInv

\* Register takes the largest extension plus 1, up to 10000.
THEOREM RegistersMaxPlusOne == Spec => RegisterTakesMaxPlusOne
<1>1. ASSUME UsersInv, [Next]_vars, NEW c \in Calls, RegisterMax(c), Max(Extension) < 10000
      PROVE  entity'[c].ext = Max(Extension) + 1
  <2>1. TextMax(Extension) = Max(Extension)
    BY <1>1, RestHolds, ExtensionIsFinite, TextMaxIsMax
  <2>2. entity'[c].ext = NextExt
    BY <1>1 DEF UsersInv, TypeOK, RegisterMax
  <2> QED
    BY <2>1, <2>2 DEF NextExt
<1>2. UsersInv /\ [Next]_vars => [\A c \in Calls : RegisterMax(c) /\ Max(Extension) < 10000
          => entity'[c].ext = Max(Extension) + 1]_vars
  BY <1>1
<1>3. QED
  BY <1>2, UsersInvariance, PTL DEF Spec, RegisterTakesMaxPlusOne
-----------------------------------------------------------------------------
(* Refused registrations.                                                   *)

\* The next extension is in use only from 10000 on: below, its text is larger
\* than the largest.
LEMMA NextExtIsNew == UsersInv /\ NextExt \in Extension => NextExt = 10000
<1> SUFFICES ASSUME UsersInv, NextExt \in Extension PROVE NextExt = 10000
  OBVIOUS
<1> DEFINE m == TextMax(Extension)
<1>1. m \in Nat /\ \A n \in Extension \ {m} : TextLess(n, m)
  BY RestHolds, ExtensionIsFinite, TextMaxIsLargest
<1>2. NextExt = m + 1
  BY DEF NextExt
<1> HIDE DEF m
<1>3. TextLess(m + 1, m)
  BY <1>1, <1>2
<1>4. QED
  BY <1>1, <1>2, <1>3 DEF TextLess, Padded

\* So an answered call stays as it is, and an extension its user's, at any step.
LEMMA EndedAndRowsKept ==
    UsersInv /\ [Next]_vars =>
        /\ \A d \in Calls : step[d] = "ended" => SameCall(d)
        /\ \A u \in Known : /\ row'[u] # NoRow /\ row'[u].ext = row[u].ext
                            /\ HasSip(u) => row'[u].sip = row[u].sip
<1> SUFFICES ASSUME UsersInv, [Next]_vars
             PROVE  /\ \A d \in Calls : step[d] = "ended" => SameCall(d)
                    /\ \A u \in Known : /\ row'[u] # NoRow /\ row'[u].ext = row[u].ext
                                        /\ HasSip(u) => row'[u].sip = row[u].sip
  OBVIOUS
<1>1. ASSUME NEW c \in Calls,
             (\E k \in Kinds, u \in Users : Call(c, k, u)) \/ Login(c) \/ Register(c) \/ Sync(c)
      PROVE  /\ \A d \in Calls : step[d] = "ended" => SameCall(d)
             /\ \A u \in Known : /\ row'[u] # NoRow /\ row'[u].ext = row[u].ext
                                 /\ HasSip(u) => row'[u].sip = row[u].sip
  BY <1>1, StepOfACall, StepOfARow DEF OthersKept
<1>2. ASSUME UNCHANGED <<row, calls>>
      PROVE  /\ \A d \in Calls : step[d] = "ended" => SameCall(d)
             /\ \A u \in Known : /\ row'[u] # NoRow /\ row'[u].ext = row[u].ext
                                 /\ HasSip(u) => row'[u].sip = row[u].sip
  BY <1>2 DEF SameCall, calls, Known
<1>3. \/ UNCHANGED <<row, calls>>
      \/ \E c \in Calls : \/ \E k \in Kinds, u \in Users : Call(c, k, u)
                          \/ Login(c) \/ Register(c) \/ Sync(c)
  BY DEF Next, Done, MidpointChanges, vars
<1>4. QED
  BY <1>1, <1>2, <1>3

\* No row is lost, and its extension stays; so does a SIP password that was there
\* before any login, whatever saves what it read earlier.
THEOREM IdentityAlwaysKept == Spec => IdentityIsKept
<1>1. UsersInv /\ [Next]_vars =>
        [\A u \in Known : /\ row'[u] # NoRow /\ row'[u].ext = row[u].ext
                          /\ HasSip(u) => row'[u].sip = row[u].sip]_vars
  BY EndedAndRowsKept
<1>2. QED
  BY <1>1, UsersInvariance, PTL DEF Spec, IdentityIsKept

\* A registration was answered e by the step's end.
NowRegistered(e) ==
    \E d \in Calls : kind'[d] = "register" /\ answer'[d] \notin {NoAnswer, Failed} /\ answer'[d].ext = e

\* An answered registration stays one.
LEMMA RegisteredKept ==
    ASSUME UsersInv, NEW c \in Calls, OthersKept(c), step[c] # "ended", NEW e, Registered(e)
    PROVE  NowRegistered(e)
<1>1. PICK d \in Calls : kind[d] = "register" /\ Answered(d) /\ answer[d].ext = e
  BY DEF Registered
<1>2. d # c
  BY <1>1 DEF UsersInv, EntityOfRow, Answered
<1>3. QED
  BY <1>1, <1>2 DEF OthersKept, SameCall, NowRegistered, Answered

LEMMA RefusalStep ==
    ASSUME FourDigits, RefusalInv, NEW c \in Calls, faults' = 0,
           (\E k \in Kinds, u \in Users : Call(c, k, u)) \/ Login(c) \/ Register(c) \/ Sync(c)
    PROVE  /\ \A u \in Known' : row'[u].ext < 10000 \/ NowRegistered(row'[u].ext)
           /\ \A d \in Calls : kind'[d] = "register" /\ step'[d] = "insert" /\ entity'[d].ext \in Extension'
                 => NowRegistered(entity'[d].ext)
           /\ \A d \in Calls : kind'[d] = "register" /\ answer'[d] = Failed =>
                 user'[d] \in Known' \/ NowRegistered(entity'[d].ext)
<1> DEFINE Inserts == /\ RegisterInsert(c) /\ kind[c] = "register" /\ answer'[c] = entity[c]
                      /\ entity[c] \in Row /\ user[c] \in Users \ Known
                      /\ row' = [row EXCEPT ![user[c]] = entity[c]]
<1>1. UsersInv /\ OthersKept(c) /\ step[c] # "ended"
  BY StepOfACall DEF RefusalInv
<1>0. faults = 0 /\ faults' # faults + 1
  <2>1. faults \in Nat
    BY <1>1, AuthAssumption DEF UsersInv, TypeOK
  <2>2. faults' = faults \/ faults' = faults + 1
    BY DEF Call, Login, LoginFind, MidpointAccepts, LocalAuthentication, LoginSave, Register,
       RegisterFind, RegisterMax, RegisterInsert, Sync, SyncFind, SyncSave, Reject, Fault, NoFault
  <2> QED
    BY <2>1, <2>2
<1>2. /\ \A u \in Known : row'[u] # NoRow /\ row'[u].ext = row[u].ext
      /\ (\A u \in Users : row'[u] # NoRow => u \in Known) \/ Inserts
  BY <1>0, <1>1, StepOfARow
<1>3. \A e : Registered(e) => NowRegistered(e)
  BY <1>1, RegisteredKept
<1>4. Inserts => NowRegistered(entity[c].ext) /\ row'[user[c]] = entity[c]
                 /\ Known' = Known \cup {user[c]}
  <2> SUFFICES ASSUME Inserts PROVE NowRegistered(entity[c].ext) /\ row'[user[c]] = entity[c]
                                    /\ Known' = Known \cup {user[c]}
    OBVIOUS
  <2>1. kind'[c] = "register" /\ answer'[c] \notin {NoAnswer, Failed} /\ answer'[c].ext = entity[c].ext
    BY AuthAssumption DEF RegisterInsert
  <2>2. NowRegistered(entity[c].ext)
    BY <2>1 DEF NowRegistered
  <2>3. row \in [Users -> Row \cup {NoRow}] /\ NoRow \notin Row
    BY <1>1, AuthAssumption DEF UsersInv, TypeOK
  <2> QED
    BY <2>2, <2>3 DEF Known
<1>5. Known \subseteq Known' /\ (Known' = Known \/ Inserts)
  BY <1>2, <1>4 DEF Known
<1>6. \A u \in Known' : row'[u].ext < 10000 \/ NowRegistered(row'[u].ext)
  <2> SUFFICES ASSUME NEW u \in Known' PROVE row'[u].ext < 10000 \/ NowRegistered(row'[u].ext)
    OBVIOUS
  <2>1. CASE u \in Known
    <3>1. row[u].ext < 10000 \/ Registered(row[u].ext)
      BY <1>0, <2>1 DEF RefusalInv
    <3> QED
      BY <1>2, <1>3, <2>1, <3>1
  <2>2. CASE u \notin Known
    BY <1>4, <1>5, <2>2
  <2> QED
    BY <2>1, <2>2
<1>7. \A e \in Extension' : e \in Extension \/ (Inserts /\ e = entity[c].ext)
  BY <1>2, <1>4, <1>5 DEF Extension
<1>8. ASSUME NEW d \in Calls, kind'[d] = "register", step'[d] = "insert", entity'[d].ext \in Extension'
      PROVE  NowRegistered(entity'[d].ext)
  <2>1. CASE d # c
    <3>1. kind[d] = "register" /\ step[d] = "insert" /\ entity'[d].ext = entity[d].ext
      BY <1>1, <1>8, <2>1 DEF OthersKept, SameCall
    <3>2. CASE entity[d].ext \in Extension
      <4>1. Registered(entity[d].ext)
        BY <1>0, <3>1, <3>2 DEF RefusalInv
      <4> QED
        BY <1>3, <3>1, <4>1
    <3> QED
      BY <1>4, <1>7, <1>8, <3>1, <3>2
  <2>2. CASE d = c
    <3>1. RegisterMax(c)
      <4>1. step'[c] = "insert" /\ step \in [Calls -> {"idle", "find", "ask", "max", "insert", "save", "ended"}]
        BY <1>1, <1>8, <2>2 DEF UsersInv, TypeOK
      <4> QED
        BY <4>1 DEF Call, Login, LoginFind, MidpointAccepts, LocalAuthentication, LoginSave, Register,
           RegisterFind, RegisterInsert, Sync, SyncFind, SyncSave, Goto, End
    <3>2. entity'[c].ext = NextExt /\ row' = row
      BY <1>1, <3>1 DEF RegisterMax, UsersInv, TypeOK
    <3>3. NextExt \in Extension
      BY <1>8, <2>2, <3>2 DEF Extension, Known
    <3>4. NextExt = 10000 /\ 10000 \notin Taken
      <4>1. \A e \in Taken : e < 10000 /\ e \in Nat
        BY AuthAssumption DEF FourDigits
      <4> QED
        BY <1>1, <3>3, <4>1, NextExtIsNew
    <3>5. PICK u \in Known : row[u].ext = 10000
      BY <3>3, <3>4 DEF Extension
    <3>6. Registered(10000)
      BY <1>0, <3>5 DEF RefusalInv
    <3> QED
      BY <1>3, <2>2, <3>2, <3>4, <3>6
  <2> QED
    BY <2>1, <2>2
<1>9. ASSUME NEW d \in Calls, kind'[d] = "register", answer'[d] = Failed
      PROVE  user'[d] \in Known' \/ NowRegistered(entity'[d].ext)
  <2>1. CASE d # c
    <3>1. /\ kind[d] = "register" /\ answer[d] = Failed /\ user'[d] = user[d]
          /\ entity'[d] = entity[d]
      BY <1>1, <1>9, <2>1 DEF OthersKept, SameCall
    <3>2. user[d] \in Known \/ Registered(entity[d].ext)
      BY <1>0, <3>1 DEF RefusalInv, RefusedLostToAnother
    <3> QED
      BY <1>3, <1>5, <3>1, <3>2
  <2>2. CASE d = c
    <3>1. answer[c] = NoAnswer /\ Failed # NoAnswer
      BY <1>1, AuthAssumption DEF UsersInv, EntityOfRow
    <3>2. kind[c] = "register"
      <4>1. kind'[c] = kind[c] \/ answer' = answer
        BY DEF Call, Login, LoginFind, MidpointAccepts,
           LocalAuthentication, LoginSave, Register, RegisterFind, RegisterMax, RegisterInsert, Sync,
           SyncFind, SyncSave
      <4> QED
        BY <1>9, <2>2, <3>1, <4>1
    <3>3. RegisterFind(c) \/ RegisterInsert(c)
      <4>1. answer' # answer
        BY <1>9, <2>2, <3>1
      <4> QED
        BY <3>2, <4>1 DEF Call, Login, LoginFind, MidpointAccepts,
           LocalAuthentication, LoginSave, Register, RegisterMax, Sync, SyncFind, SyncSave
    <3>4. CASE RegisterFind(c)
      <4>1. user[c] \in Known /\ user' = user
        BY <1>9, <2>2, <3>1, <3>4 DEF RegisterFind
      <4> QED
        BY <1>5, <2>2, <4>1
    <3>5. CASE RegisterInsert(c)
      <4>1. user' = user /\ entity' = entity /\ step[c] = "insert"
        BY <3>5 DEF RegisterInsert
      <4>2. CASE user[c] \in Known
        BY <1>5, <2>2, <4>1, <4>2
      <4>3. CASE entity[c].ext \in Extension
        <5>1. Registered(entity[c].ext)
          BY <1>0, <3>2, <4>1, <4>3 DEF RefusalInv
        <5> QED
          BY <1>3, <2>2, <4>1, <5>1
      <4>4. CASE End(c, entity[c])
        <5>1. answer'[c] = entity[c] /\ entity[c] \in Row /\ Failed \notin Row
          BY <1>1, <3>2, <4>1, <4>4, AuthAssumption DEF End, UsersInv, TypeOK, EntityOfRow
        <5> QED
          BY <1>9, <2>2, <5>1
      <4> QED
        BY <1>0, <3>5, <4>2, <4>3, <4>4 DEF RegisterInsert, Reject, Fault
    <3> QED
      BY <3>3, <3>4, <3>5
  <2> QED
    BY <2>1, <2>2
<1>10. QED
  BY <1>6, <1>8, <1>9

LEMMA RefusalNext == FourDigits /\ RefusalInv /\ [Next]_vars => RefusalInv'
<1> SUFFICES ASSUME FourDigits, RefusalInv, [Next]_vars PROVE RefusalInv'
  OBVIOUS
<1>1. UsersInv'
  BY NextInv DEF RefusalInv
<1>2. ASSUME NEW c \in Calls,
             (\E k \in Kinds, u \in Users : Call(c, k, u)) \/ Login(c) \/ Register(c) \/ Sync(c)
      PROVE  RefusalInv'
  <2>1. \A e : Registered(e)' <=> NowRegistered(e)
    BY DEF Registered, NowRegistered, Answered
  <2> QED
    BY <1>1, <1>2, <2>1, RefusalStep DEF RefusalInv, RefusedLostToAnother
<1>3. ASSUME UNCHANGED <<row, calls>>, faults' = 0 => faults = 0
      PROVE  RefusalInv'
  BY <1>1, <1>3 DEF RefusalInv, RefusedLostToAnother, Registered, Answered, Known, Extension, calls
<1>4. \/ UNCHANGED <<row, calls>> /\ (faults' = faults \/ faults' = faults + 1)
      \/ \E c \in Calls : \/ \E k \in Kinds, u \in Users : Call(c, k, u)
                          \/ Login(c) \/ Register(c) \/ Sync(c)
  BY DEF Next, Done, MidpointChanges, Fault, vars
<1>5. faults \in Nat
  BY AuthAssumption DEF RefusalInv, UsersInv, TypeOK
<1>6. QED
  BY <1>2, <1>3, <1>4, <1>5

LEMMA RefusalBegins == FourDigits /\ Init => RefusalInv
<1> SUFFICES ASSUME FourDigits, Init PROVE RefusalInv
  OBVIOUS
<1>1. \A u \in Known : row[u].ext < 10000
  BY DEF Init, Known, SeedRow, FourDigits
<1>2. \A c \in Calls : kind[c] # "register"
  BY DEF Init
<1>3. QED
  BY <1>1, <1>2, InitInv DEF RefusalInv, RefusedLostToAnother

\* With the four-digit extensions the system starts with, a registration is only
\* refused when its user has a row by now, or another registration was answered
\* the extension it took, however many race and also at 10000, from where on the
\* largest extension as text does not grow.
THEOREM RefusedOnlyWhenLost == ASSUME FourDigits PROVE Spec => []RefusedLostToAnother
<1>1. Init => RefusalInv
  BY RefusalBegins
<1>2. RefusalInv /\ [Next]_vars => RefusalInv'
  BY RefusalNext
<1>3. RefusalInv => RefusedLostToAnother
  BY DEF RefusalInv
<1>4. QED
  BY <1>1, <1>2, <1>3, PTL DEF Spec

=============================================================================
