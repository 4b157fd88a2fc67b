----------------------- MODULE MidpointImportProofs -------------------------
(* The import loop, for any number of configs, users, attempts and faults.  *)
EXTENDS MidpointImport, TLAPS

\* Init establishes the invariant.
LEMMA ImportInit == Init => ImportInv
BY ImportAssumption, SMT
   DEF Init, ImportInv, TypeOK, PassSoFar, EndedMeansImported, Pcs, Requests, ConfigPc, UserPc

\* Every request keeps it.
LEMMA ImportStep == ImportInv /\ [Next]_vars => ImportInv'
<1> SUFFICES ASSUME ImportInv, [Next]_vars PROVE ImportInv'
    OBVIOUS
<1> USE ImportAssumption
    DEF ImportInv, TypeOK, Pcs, Requests, ConfigPc, UserPc, Goto, Fault, NoFault, midpoint, history
<1>1. CASE Probe
  <2>1. TypeOK'
      BY <1>1 DEF Probe
  <2>2. PassSoFar'
      BY <1>1 DEF Probe, PassSoFar
  <2>3. EndedMeansImported'
      BY <1>1 DEF Probe, EndedMeansImported, PassSoFar
  <2> QED
      BY <2>1, <2>2, <2>3 DEF ImportInv
<1>2. CASE WaitForMidpoint
  <2>1. TypeOK'
      BY <1>2 DEF WaitForMidpoint
  <2>2. PassSoFar'
      BY <1>2 DEF WaitForMidpoint, PassSoFar
  <2>3. EndedMeansImported'
      BY <1>2 DEF WaitForMidpoint, EndedMeansImported, PassSoFar
  <2> QED
      BY <2>1, <2>2, <2>3 DEF ImportInv
<1>3. CASE DeleteResource
  <2>1. TypeOK'
    <3>1. resource' \in BOOLEAN
          BY <1>3, Zenon DEF DeleteResource
    <3>2. config' \in [1..Configs -> BOOLEAN] /\ seed' \in [1..Users -> BOOLEAN]
          BY <1>3, Zenon DEF DeleteResource
    <3>3. pc' \in Pcs /\ attempts' \in Nat /\ faults' \in 0..MaxFaults
          BY <1>3 DEF DeleteResource
    <3>4. /\ item' \in Nat \ {0}
          /\ pc' \in ConfigPc => item' <= Configs
          /\ pc' \in UserPc => item' <= Users
          BY <1>3 DEF DeleteResource
    <3>5. gaveUp' \subseteq 1..Configs /\ misread' \subseteq 1..Users
          BY <1>3 DEF DeleteResource
    <3> QED
        BY <3>1, <3>2, <3>3, <3>4, <3>5
  <2>2. PassSoFar'
      BY <1>3 DEF DeleteResource, PassSoFar
  <2>3. EndedMeansImported'
      BY <1>3 DEF DeleteResource, EndedMeansImported, PassSoFar
  <2> QED
      BY <2>1, <2>2, <2>3 DEF ImportInv
<1>4. CASE Sleep
  <2>1. TypeOK'
      BY <1>4 DEF Sleep
  <2>2. PassSoFar'
      BY <1>4 DEF Sleep, PassSoFar
  <2>3. EndedMeansImported'
      BY <1>4 DEF Sleep, EndedMeansImported, PassSoFar
  <2> QED
      BY <2>1, <2>2, <2>3 DEF ImportInv
<1>5. CASE DeleteConfig
  <2>1. TypeOK'
    <3>1. resource' \in BOOLEAN
          BY <1>5, Zenon DEF DeleteConfig
    <3>2. config' \in [1..Configs -> BOOLEAN] /\ seed' \in [1..Users -> BOOLEAN]
          BY <1>5, Zenon DEF DeleteConfig
    <3>3. pc' \in Pcs /\ attempts' \in Nat /\ faults' \in 0..MaxFaults
          BY <1>5 DEF DeleteConfig, RetryConfig, NextConfig
    <3>4. /\ item' \in Nat \ {0}
          /\ pc' \in ConfigPc => item' <= Configs
          /\ pc' \in UserPc => item' <= Users
          BY <1>5 DEF DeleteConfig, RetryConfig, NextConfig
    <3>5. gaveUp' \subseteq 1..Configs /\ misread' \subseteq 1..Users
      <4>1. item \in 1..Configs
            BY <1>5, SMT DEF DeleteConfig
      <4>2. gaveUp' \in {gaveUp, gaveUp \cup {item}} /\ misread' = misread
            BY <1>5, Zenon DEF DeleteConfig, RetryConfig, NextConfig
      <4> QED
          BY <4>1, <4>2, Zenon
    <3> QED
        BY <3>1, <3>2, <3>3, <3>4, <3>5
  <2>2. PassSoFar'
      BY <1>5 DEF DeleteConfig, RetryConfig, NextConfig, PassSoFar
  <2>3. EndedMeansImported'
      BY <1>5 DEF DeleteConfig, RetryConfig, NextConfig, EndedMeansImported, PassSoFar
  <2> QED
      BY <2>1, <2>2, <2>3 DEF ImportInv
<1>6. CASE PostConfig
  <2>1. TypeOK'
    <3>1. resource' \in BOOLEAN
          BY <1>6, Zenon DEF PostConfig
    <3>2. config' \in [1..Configs -> BOOLEAN] /\ seed' \in [1..Users -> BOOLEAN]
          BY <1>6, Zenon DEF PostConfig
    <3>3. pc' \in Pcs /\ attempts' \in Nat /\ faults' \in 0..MaxFaults
          BY <1>6 DEF PostConfig, RetryConfig, NextConfig
    <3>4. /\ item' \in Nat \ {0}
          /\ pc' \in ConfigPc => item' <= Configs
          /\ pc' \in UserPc => item' <= Users
          BY <1>6 DEF PostConfig, RetryConfig, NextConfig
    <3>5. gaveUp' \subseteq 1..Configs /\ misread' \subseteq 1..Users
      <4>1. item \in 1..Configs
            BY <1>6, SMT DEF PostConfig
      <4>2. gaveUp' \in {gaveUp, gaveUp \cup {item}} /\ misread' = misread
            BY <1>6, Zenon DEF PostConfig, RetryConfig, NextConfig
      <4> QED
          BY <4>1, <4>2, Zenon
    <3> QED
        BY <3>1, <3>2, <3>3, <3>4, <3>5
  <2>2. PassSoFar'
      BY <1>6 DEF PostConfig, RetryConfig, NextConfig, PassSoFar
  <2>3. EndedMeansImported'
      BY <1>6 DEF PostConfig, RetryConfig, NextConfig, EndedMeansImported, PassSoFar
  <2> QED
      BY <2>1, <2>2, <2>3 DEF ImportInv
<1>7. CASE GetUser
  <2>1. TypeOK'
    <3>1. resource' \in BOOLEAN
          BY <1>7, Zenon DEF GetUser
    <3>2. config' \in [1..Configs -> BOOLEAN] /\ seed' \in [1..Users -> BOOLEAN]
          BY <1>7, Zenon DEF GetUser
    <3>3. pc' \in Pcs /\ attempts' \in Nat /\ faults' \in 0..MaxFaults
          BY <1>7 DEF GetUser, AfterUser
    <3>4. /\ item' \in Nat \ {0}
          /\ pc' \in ConfigPc => item' <= Configs
          /\ pc' \in UserPc => item' <= Users
          BY <1>7 DEF GetUser, AfterUser
    <3>5. gaveUp' \subseteq 1..Configs /\ misread' \subseteq 1..Users
      <4>1. item \in 1..Users
            BY <1>7, SMT DEF GetUser
      <4>2. misread' \in {misread, misread \cup {item}} /\ gaveUp' = gaveUp
            BY <1>7, Zenon DEF GetUser, AfterUser
      <4> QED
          BY <4>1, <4>2, Zenon
    <3> QED
        BY <3>1, <3>2, <3>3, <3>4, <3>5
  <2>2. PassSoFar'
      BY <1>7 DEF GetUser, AfterUser, PassSoFar
  <2>3. EndedMeansImported'
      BY <1>7 DEF GetUser, AfterUser, EndedMeansImported, PassSoFar
  <2> QED
      BY <2>1, <2>2, <2>3 DEF ImportInv
<1>8. CASE PostUser
  <2>1. TypeOK'
    <3>1. resource' \in BOOLEAN
          BY <1>8, Zenon DEF PostUser
    <3>2. config' \in [1..Configs -> BOOLEAN] /\ seed' \in [1..Users -> BOOLEAN]
          BY <1>8, Zenon DEF PostUser
    <3>3. pc' \in Pcs /\ attempts' \in Nat /\ faults' \in 0..MaxFaults
          BY <1>8 DEF PostUser, NextUser
    <3>4. /\ item' \in Nat \ {0}
          /\ pc' \in ConfigPc => item' <= Configs
          /\ pc' \in UserPc => item' <= Users
          BY <1>8 DEF PostUser, NextUser
    <3>5. gaveUp' \subseteq 1..Configs /\ misread' \subseteq 1..Users
          BY <1>8 DEF PostUser, NextUser
    <3> QED
        BY <3>1, <3>2, <3>3, <3>4, <3>5
  <2>2. PassSoFar'
      BY <1>8 DEF PostUser, NextUser, PassSoFar
  <2>3. EndedMeansImported'
      BY <1>8 DEF PostUser, NextUser, EndedMeansImported, PassSoFar
  <2> QED
      BY <2>1, <2>2, <2>3 DEF ImportInv
<1>9. CASE Restart
  <2>1. TypeOK'
      BY <1>9 DEF Restart
  <2>2. PassSoFar'
      BY <1>9 DEF Restart, PassSoFar
  <2>3. EndedMeansImported'
      BY <1>9 DEF Restart, EndedMeansImported, PassSoFar
  <2> QED
      BY <2>1, <2>2, <2>3 DEF ImportInv
<1>10. CASE UNCHANGED vars \/ Ended
  <2>1. TypeOK'
      BY <1>10 DEF vars, Ended
  <2>2. PassSoFar'
      BY <1>10 DEF vars, Ended, PassSoFar
  <2>3. EndedMeansImported'
      BY <1>10 DEF vars, Ended, EndedMeansImported, PassSoFar
  <2> QED
      BY <2>1, <2>2, <2>3 DEF ImportInv
<1>11. CASE AnswerCutOff
  <2>1. TypeOK'
    <3>1. resource' \in BOOLEAN
          BY <1>11, Zenon DEF AnswerCutOff, Executed
    <3>2. config' \in [1..Configs -> BOOLEAN] /\ seed' \in [1..Users -> BOOLEAN]
          BY <1>11, Zenon DEF AnswerCutOff, Executed
    <3>3. /\ pc' \in Pcs /\ item' \in Nat \ {0} /\ attempts' \in Nat /\ faults' \in 0..MaxFaults
          /\ pc' \notin ConfigPc \cup UserPc
          BY <1>11 DEF AnswerCutOff
    <3>4. gaveUp' \subseteq 1..Configs /\ misread' \subseteq 1..Users
          BY <1>11 DEF AnswerCutOff
    <3> QED
        BY <3>1, <3>2, <3>3, <3>4
  <2>2. PassSoFar' /\ EndedMeansImported'
      BY <1>11 DEF AnswerCutOff, PassSoFar, EndedMeansImported
  <2> QED
      BY <2>1, <2>2 DEF ImportInv
<1> QED
    BY <1>1, <1>2, <1>3, <1>4, <1>5, <1>6, <1>7, <1>8, <1>9, <1>10, <1>11, Zenon DEF Next, Import

\* The invariant holds in every reachable state: a pass accounts for each
\* config and each user it has passed.
THEOREM ImportInvariance == Spec => []ImportInv
BY ImportInit, ImportStep, PTL DEF Spec

\* However many requests fail, are lost or are cut off by a restart, the loop
\* ends only with every object in midPoint, given up, or misread.
THEOREM ImportAccountsForAll == Spec => []EndedMeansImported
<1>1. ImportInv => EndedMeansImported
      BY DEF ImportInv
<1> QED
    BY <1>1, ImportInvariance, PTL

-----------------------------------------------------------------------------
(* The loop gets nearer to its end.                                         *)

\* The place of each request.
LEMMA Places ==
    \A p, i : /\ p \in {"ended", "hung"} => ToTheEnd(p, i) = 0
              /\ p = "getUser"        => ToTheEnd(p, i) = Users - i + 1
              /\ p = "postConfig"     => ToTheEnd(p, i) = Users + 2 * (Configs - i) + 1
              /\ p = "deleteConfig"   => ToTheEnd(p, i) = Users + 2 * (Configs - i) + 2
              /\ p = "deleteResource" => ToTheEnd(p, i) = Pass - 2
              /\ p = "wait"           => ToTheEnd(p, i) = Pass - 1
              /\ p = "probe"          => ToTheEnd(p, i) = Pass
              /\ p = "sleep"          => ToTheEnd(p, i) = Pass + 1
              /\ p = "postUser"       => ToTheEnd(p, i) = (Users - i + 1) + (Pass + 1)
<1> TAKE p, i
<1> USE DEF ToTheEnd
<1>1. p \in {"ended", "hung"} => ToTheEnd(p, i) = 0
  BY Zenon
<1>2. p = "getUser" => ToTheEnd(p, i) = Users - i + 1
  BY Zenon
<1>3. p = "postConfig" => ToTheEnd(p, i) = Users + 2 * (Configs - i) + 1
  BY Zenon
<1>4. p = "deleteConfig" => ToTheEnd(p, i) = Users + 2 * (Configs - i) + 2
  BY Zenon
<1>5. p = "deleteResource" => ToTheEnd(p, i) = Pass - 2
  BY Zenon
<1>6. p = "wait" => ToTheEnd(p, i) = Pass - 1
  BY Zenon
<1>7. p = "probe" => ToTheEnd(p, i) = Pass
  BY Zenon
<1>8. p = "sleep" => ToTheEnd(p, i) = Pass + 1
  BY Zenon
<1>9. p = "postUser" => ToTheEnd(p, i) = (Users - i + 1) + (Pass + 1)
  BY Zenon
<1> QED
  BY ONLY <1>1, <1>2, <1>3, <1>4, <1>5, <1>6, <1>7, <1>8, <1>9, Zenon

\* The constants of the measure.
LEMMA PassIs ==
    /\ Users \in Nat \ {0} /\ Configs \in Nat \ {0} /\ Pass \in Nat /\ OneImport \in Nat
    /\ Pass = Users + 2 * Configs + 3 /\ OneImport = Users + Pass + 1
BY ImportAssumption DEF Pass, OneImport

LEMMA Range ==
    \A p \in Pcs, i \in Nat \ {0} :
        (p \in ConfigPc => i <= Configs) /\ (p \in UserPc => i <= Users)
            => ToTheEnd(p, i) \in 0..OneImport
<1> SUFFICES ASSUME NEW p \in Pcs, NEW i \in Nat \ {0}, p \in ConfigPc => i <= Configs,
                    p \in UserPc => i <= Users
             PROVE  ToTheEnd(p, i) \in 0..OneImport
  OBVIOUS
<1>1. CASE p \in {"ended", "hung", "probe", "wait", "deleteResource", "sleep"}
  BY <1>1, PassIs, Places
<1>2. CASE p \in ConfigPc
  BY <1>2, PassIs, Places DEF ConfigPc
<1>3. CASE p \in UserPc
  BY <1>3, PassIs, Places DEF UserPc
<1>4. QED
  BY <1>1, <1>2, <1>3 DEF Pcs, Requests

\* The measure is a natural number, bounded by what one failure is worth.
LEMMA Ranges ==
    TypeOK => ToTheEnd(pc, item) \in 0..OneImport /\ RequestsLeft \in 0..(2 * OneImport)
<1> SUFFICES ASSUME TypeOK
             PROVE  ToTheEnd(pc, item) \in 0..OneImport /\ RequestsLeft \in 0..(2 * OneImport)
  OBVIOUS
<1>1. ToTheEnd(pc, item) \in 0..OneImport
  BY Range, Zenon DEF TypeOK
<1>2. RequestsLeft \in {ToTheEnd(pc, item), ToTheEnd(pc, item) + OneImport}
  BY <1>1, PassIs DEF RequestsLeft
<1>3. QED
  BY <1>1, <1>2, PassIs

LEMMA RangesNext == (TypeOK => RequestsLeft \in 0..(2 * OneImport))'
<1>1. TypeOK => RequestsLeft \in 0..(2 * OneImport)
  BY Ranges
<1>2. QED
  BY <1>1, PTL

\* A request that does not find a user missing leaves one request less.
LEMMA OneLess ==
    ASSUME TypeOK, TypeOK', ToTheEnd(pc', item') = ToTheEnd(pc, item) - 1, Missing' <=> Missing
    PROVE  RequestsLeft' <= RequestsLeft - 1
<1>1. ToTheEnd(pc, item) \in Nat /\ OneImport \in Nat
  BY Ranges, PassIs
<1>2. CASE Missing
  BY <1>1, <1>2 DEF RequestsLeft
<1>3. CASE ~Missing
  BY <1>1, <1>3 DEF RequestsLeft
<1>4. QED
  BY <1>2, <1>3

\* Without a failure, every request leaves fewer requests.
LEMMA RequestsGoDown ==
    ASSUME TypeOK, TypeOK', Import, NoFault
    PROVE  RequestsLeft' <= RequestsLeft - 1
<1>1. /\ Users \in Nat \ {0} /\ Configs \in Nat \ {0} /\ Pass \in Nat
      /\ Pass = Users + 2 * Configs + 3 /\ OneImport = Users + Pass + 1
  BY PassIs
<1>2. item \in Nat /\ faults \in Nat
  BY ImportAssumption DEF TypeOK
<1>3. ~Fault
  BY <1>2 DEF Fault, NoFault
<1>4. ASSUME pc # "postUser", pc' # "postUser", seed' = seed PROVE Missing' <=> Missing
  BY <1>4 DEF Missing
<1>5. CASE Probe \/ WaitForMidpoint \/ DeleteResource \/ Sleep
  <2>1. seed' = seed /\ pc # "postUser" /\ pc' # "postUser"
    BY <1>3, <1>5 DEF Probe, WaitForMidpoint, DeleteResource, Sleep, Goto, midpoint
  <2>2. ToTheEnd(pc', item') = ToTheEnd(pc, item) - 1
    BY <1>1, <1>3, <1>5, Places DEF Probe, WaitForMidpoint, DeleteResource, Sleep, Goto
  <2> QED
    BY <1>4, <2>1, <2>2, OneLess
<1>6. CASE DeleteConfig \/ PostConfig
  <2>1. seed' = seed /\ pc # "postUser" /\ pc' # "postUser"
    BY <1>3, <1>6 DEF DeleteConfig, PostConfig, NextConfig, Goto
  <2>2. \/ pc = "deleteConfig" /\ pc' = "postConfig" /\ item' = item
        \/ pc = "postConfig" /\ pc' = "deleteConfig" /\ item' = item + 1
        \/ pc = "postConfig" /\ pc' = "getUser" /\ item' = 1 /\ item = Configs
    BY <1>1, <1>2, <1>3, <1>6 DEF DeleteConfig, PostConfig, NextConfig, Goto, TypeOK, ConfigPc
  <2>3. ToTheEnd(pc', item') = ToTheEnd(pc, item) - 1
    BY <1>1, <1>2, <2>2, Places
  <2> QED
    BY <1>4, <2>1, <2>3, OneLess
<1>7. CASE GetUser
  <2>1. pc = "getUser" /\ seed' = seed /\ item \in 1..Users
    BY <1>1, <1>2, <1>7 DEF GetUser, midpoint, TypeOK, UserPc
  <2>2. CASE seed[item]
    <3>1. \/ pc' = "getUser" /\ item' = item + 1
          \/ pc' = "ended" /\ item = Users
      BY <1>1, <1>3, <1>7, <2>1, <2>2 DEF GetUser, AfterUser, Goto
    <3>2. ToTheEnd(pc', item') = ToTheEnd(pc, item) - 1
      BY <1>1, <2>1, <3>1, Places
    <3> QED
      BY <1>4, <2>1, <3>1, <3>2, OneLess
  <2>3. CASE ~seed[item]
    <3>1. pc' = "postUser" /\ item' = 1
      BY <1>3, <1>7, <2>3 DEF GetUser, Goto
    <3>2. Missing /\ ~Missing'
      BY <2>1, <2>3, <3>1 DEF Missing
    <3>3. ToTheEnd(pc', item') = Users + Pass + 1 /\ ToTheEnd(pc, item) = Users - item + 1
      BY <1>1, <2>1, <3>1, Places
    <3>4. RequestsLeft = ToTheEnd(pc, item) + OneImport /\ RequestsLeft' = ToTheEnd(pc', item')
      BY <1>1, <2>1, <3>2, <3>3 DEF RequestsLeft
    <3> QED
      BY <1>1, <2>1, <3>3, <3>4
  <2> QED
    BY <2>2, <2>3
<1>8. CASE PostUser
  <2>1. pc = "postUser" /\ item \in 1..Users /\ seed' = [seed EXCEPT ![item] = TRUE]
    BY <1>1, <1>2, <1>3, <1>8 DEF PostUser, TypeOK, UserPc
  <2>2. \/ pc' = "postUser" /\ item' = item + 1
        \/ pc' = "sleep" /\ item = Users
    BY <1>1, <1>3, <1>8, <2>1 DEF PostUser, NextUser, Goto
  <2>3. ToTheEnd(pc', item') = ToTheEnd(pc, item) - 1
    BY <1>1, <2>1, <2>2, Places
  <2>4. Missing' <=> Missing
    <3>1. \A u \in 1..Users : seed'[u] <=> u = item \/ seed[u]
      BY <2>1 DEF TypeOK
    <3>2. \A u \in 1..Users : (pc' = "postUser" => u < item') <=> u <= item
      BY <2>1, <2>2
    <3>3. \A u \in 1..Users : u # item => (u <= item <=> u < item)
      BY <2>1
    <3> QED
      BY ONLY <2>1, <3>1, <3>2, <3>3 DEF Missing
  <2> QED
    BY <2>3, <2>4, OneLess
<1>9. QED
  BY <1>5, <1>6, <1>7, <1>8 DEF Import

LEMMA FailuresLeft == TypeOK => MaxFaults - faults \in Nat
BY ImportAssumption DEF TypeOK

LEMMA FailuresLeftNext == (TypeOK => MaxFaults - faults \in Nat)'
<1>1. TypeOK => MaxFaults - faults \in Nat
  BY FailuresLeft
<1>2. QED
  BY <1>1, PTL

\* A failure uses up one of MaxFaults.
LEMMA FaultsGoUp ==
    ASSUME TypeOK, TypeOK', Fault
    PROVE  (MaxFaults - faults) * (2 * OneImport + 1)
             = (MaxFaults - faults') * (2 * OneImport + 1) + (2 * OneImport + 1)
<1>1. MaxFaults - faults = (MaxFaults - faults') + 1 /\ MaxFaults - faults' \in Nat
  BY ImportAssumption DEF Fault, TypeOK
<1>2. \A m, k \in Nat : (m + 1) * k = m * k + k
  OBVIOUS
<1>3. 2 * OneImport + 1 \in Nat
  BY PassIs
<1>4. QED
  BY ONLY <1>1, <1>2, <1>3

\* However many requests fail or are lost, and wherever restarts cut a pass off,
\* the import ends, or waits for an answer that was cut off, after at most
\* StepsLeft steps: what ImportEnds needs beside the fairness of requests and
\* timers.
THEOREM EveryRequestCounts == Spec => EveryStepCounts
<1>1. ASSUME TypeOK, TypeOK', Import \/ AnswerCutOff \/ Restart
      PROVE  StepsLeft' \in 0..(StepsLeft - 1)
  <2> DEFINE Factor == 2 * OneImport + 1
             Later(f) == (MaxFaults - f) * Factor
  <2>1. /\ RequestsLeft \in 0..(Factor - 1) /\ Factor \in Nat
        /\ RequestsLeft' \in 0..(Factor - 1)
    <3>1. RequestsLeft \in 0..(2 * OneImport) /\ OneImport \in Nat
      BY <1>1, Ranges, PassIs
    <3>2. RequestsLeft' \in 0..(2 * OneImport)
      BY <1>1, RangesNext
    <3> QED
      BY <3>1, <3>2
  <2>2. StepsLeft = RequestsLeft + Later(faults) /\ StepsLeft' = RequestsLeft' + Later(faults')
    BY DEF StepsLeft, OneImport, Pass
  <2>3. Later(faults) \in Nat /\ Later(faults') \in Nat
    <3>1. MaxFaults - faults \in Nat /\ MaxFaults - faults' \in Nat
      BY <1>1, FailuresLeft, FailuresLeftNext
    <3>2. \A m, k \in Nat : m * k \in Nat
      OBVIOUS
    <3> QED
      BY ONLY <2>1, <3>1, <3>2
  <2>4. CASE Fault
    <3>1. Later(faults) = Later(faults') + Factor
      BY <1>1, <2>4, FaultsGoUp
    <3> HIDE DEF Later, Factor
    <3> QED
      BY <2>1, <2>2, <2>3, <3>1
  <2>5. CASE NoFault
    <3>1. RequestsLeft' <= RequestsLeft - 1 /\ Later(faults') = Later(faults)
      BY <1>1, <2>5, RequestsGoDown DEF NoFault, AnswerCutOff, Restart, Fault, TypeOK
    <3> HIDE DEF Later, Factor
    <3> QED
      BY <2>1, <2>2, <2>3, <3>1
  <2>6. QED
    BY <1>1, <2>4, <2>5 DEF Import, AnswerCutOff, Restart, Probe, WaitForMidpoint, DeleteResource, Sleep,
       DeleteConfig, PostConfig, GetUser, PostUser, NoFault
<1>2. TypeOK /\ TypeOK' => [Import \/ AnswerCutOff \/ Restart => StepsLeft' \in 0..(StepsLeft - 1)]_vars
  BY <1>1
<1>3. Spec => []TypeOK
  BY ImportInvariance, PTL DEF ImportInv
<1>4. QED
  BY <1>2, <1>3, PTL DEF EveryStepCounts
=============================================================================
