--------------------------- MODULE WebPhoneProofs ---------------------------
(* Proofs about the browser's phone: its inductive invariant, for any number *)
(* of sessions and any of the races.                                         *)
EXTENDS WebPhone, FiniteSetTheorems, TLAPS

\* What a step leaves of SIP.js's view of the calls: nothing of those that ended.
MediaFollows ==
    /\ muted' = {s \in muted : Live(s)'} /\ held' = {s \in held : Live(s)'}
    /\ reinvite' = {s \in reinvite : Live(s)'} /\ slipped' = {s \in slipped : Live(s)'}

LEMMA MediaEndsFollows == MediaEnds => MediaFollows
BY DEF MediaEnds, MediaFollows, Live

Quiet == ~CallWaiting /\ ~SlowMic /\ ~SlowLogout

LEMMA OverIsFinite ==
    ASSUME NEW S, S \subseteq Sessions
    PROVE  IsFiniteSet(S) /\ Cardinality(S) \in Nat
<1>1. S \in SUBSET Sessions
  OBVIOUS
<1>2. QED
  BY <1>1, PhoneAssumption, FS_Subset, FS_CardinalityType

\* A step that ends no call adds no entry.
LEMMA EntriesKept ==
    ASSUME PhoneInv, TypeOK', races' = races, Over \subseteq Over', entries' = entries,
           Quiet /\ timing' => current' # None
    PROVE  EntriesAreOver'
<1> DEFINE m == Cardinality(Over)
           n == Cardinality(Over')
<1>1. Over \subseteq Sessions /\ Over' \subseteq Sessions
  BY DEF Over
<1>2. m \in Nat /\ n \in Nat /\ m <= n
  BY <1>1, OverIsFinite, FS_Subset
<1>3. entries \in Nat /\ (Quiet => entries <= m)
  BY DEF PhoneInv, TypeOK, EntriesAreOver, Quiet
<1>4. Quiet' = Quiet
  BY DEF Quiet, CallWaiting, SlowMic, SlowLogout
<1>5. Quiet' => entries' <= n
  BY <1>2, <1>3, <1>4
<1>6. QED
  BY <1>4, <1>5 DEF EntriesAreOver, Quiet

\* A step that ends a call adds one at most.
LEMMA EntriesCounted ==
    ASSUME PhoneInv, TypeOK', races' = races, NEW s \in Sessions, s \notin Over,
           Over \cup {s} \subseteq Over', ~timing', entries' \in {entries, entries + 1}
    PROVE  EntriesAreOver'
<1> DEFINE m == Cardinality(Over)
           n == Cardinality(Over')
<1>1. Over \subseteq Sessions /\ Over' \subseteq Sessions
  BY DEF Over
<1>2. m \in Nat /\ n \in Nat /\ m + 1 <= n
  <2>1. Cardinality(Over \cup {s}) = m + 1 /\ m \in Nat
    BY <1>1, OverIsFinite, FS_AddElement
  <2>2. Cardinality(Over \cup {s}) <= n /\ n \in Nat
    BY <1>1, OverIsFinite, FS_Subset
  <2> QED
    BY <2>1, <2>2
<1>3. entries \in Nat /\ (Quiet => entries <= m)
  BY DEF PhoneInv, TypeOK, EntriesAreOver, Quiet
<1>4. Quiet' = Quiet
  BY DEF Quiet, CallWaiting, SlowMic, SlowLogout
<1>5. Quiet' => entries' <= n
  BY <1>2, <1>3, <1>4
<1>6. QED
  BY <1>4, <1>5 DEF EntriesAreOver, Quiet

LEMMA InitInv == Init => PhoneInv
<1> SUFFICES ASSUME Init PROVE PhoneInv
  OBVIOUS
<1>1. TypeOK
  BY DEF Init, TypeOK, States
<1>2. InHandIsLive /\ LeftHasBegun /\ PanelIsOfReady /\ PanelShowsRinging
  BY DEF Init, InHandIsLive, LeftHasBegun, PanelIsOfReady, PanelShowsRinging
<1>3. PromptStates /\ PromptAnswers /\ SingleCall /\ OneCallAtATime
  BY DEF Init, PromptStates, PromptAnswers, SingleCall, OneCallAtATime, EstablishedIsInHand,
     InCallHasSession, Live, LiveStates
<1>4. EntriesAreOver
  <2>1. Over = {}
    BY DEF Init, Over
  <2> QED
    BY <2>1, FS_EmptySet DEF Init, EntriesAreOver
<1>5. MediaIsEstablished /\ ButtonsShowTheCall
  BY DEF Init, MediaIsEstablished, ButtonsShowTheCall, Shows
<1>6. QED
  BY <1>1, <1>2, <1>3, <1>4, <1>5 DEF PhoneInv

\* Another registration: the old phone's sessions end.
LEMMA SipRegisterInv ==
    ASSUME PhoneInv, SipRegister, MediaEnds, races' = races
    PROVE  PhoneInv'
<1>1. MediaFollows
  BY MediaEndsFollows DEF PhoneInv
<1> USE PhoneAssumption DEF PhoneInv, SipRegister, EndCall, Unmarked, Disconnect, Ended, Managed, MicReady, talk, shown, timer, panel
<1>2. TypeOK'
  <2>1. entries' \in Nat
    BY DEF TypeOK
  <2>2. sess' \in [Sessions -> States]
    BY DEF TypeOK, States, LiveStates
  <2>3. /\ {isInCall', timing', incoming', hangupBtn', isMuted', isOnHold'} \subseteq BOOLEAN
        /\ lit' \subseteq {"mute", "hold"} /\ said' \subseteq {"mute", "hold"}
    BY DEF TypeOK
  <2>4. /\ muted' \subseteq Sessions /\ held' \subseteq Sessions
        /\ reinvite' \subseteq Sessions /\ slipped' \subseteq Sessions
    BY <1>1 DEF MediaFollows, TypeOK
  <2> HIDE DEF EndCall, Unmarked
  <2> QED
    BY <2>1, <2>2, <2>3, <2>4 DEF TypeOK
<1>3. InHandIsLive'
  BY DEF InHandIsLive, SingleCall, Live, LiveStates, TypeOK
<1>4. LeftHasBegun'
  BY DEF LeftHasBegun, SlowLogout, Live, LiveStates, TypeOK
<1>5. PanelIsOfReady'
  BY DEF PanelIsOfReady, TypeOK
<1>6. PanelShowsRinging'
  BY DEF PanelShowsRinging, PanelIsOfReady, InHandIsLive, LeftHasBegun, SlowLogout, Reregister,
     Live, LiveStates, TypeOK
<1>7. PromptStates'
  BY DEF PromptStates, SlowMic, TypeOK
<1>8. PromptAnswers'
  BY DEF PromptAnswers, PromptStates, InCallHasSession, LeftHasBegun, SlowLogout, SlowMic, Live,
     LiveStates, TypeOK
<1>9. SingleCall'
  BY DEF SingleCall, InHandIsLive, LeftHasBegun, CallWaiting, SlowLogout, Live, LiveStates, TypeOK
<1>10. OneCallAtATime'
  BY DEF OneCallAtATime, EstablishedIsInHand, SingleCall, PanelShowsRinging, LeftHasBegun,
     PromptStates, InHandIsLive, CallWaiting, SlowMic, SlowLogout, Live, LiveStates, TypeOK
<1>11. EntriesAreOver'
  <2>1. CASE SlowLogout
    BY <2>1 DEF EntriesAreOver, CallWaiting, SlowMic, SlowLogout
  <2>2. CASE ~SlowLogout /\ Managed = {}
    <3>1. Over \subseteq Over' /\ entries' = entries
      BY <2>2 DEF Over, TypeOK, Live, LiveStates
    <3>2. Quiet /\ timing' => current' # None
      BY <2>2 DEF Quiet, EntriesAreOver, InHandIsLive, TypeOK, CallWaiting, SlowMic, SlowLogout
    <3> QED
      BY ONLY PhoneInv, races' = races, <1>2, <3>1, <3>2, EntriesKept
  <2>3. CASE ~SlowLogout /\ Managed # {}
    <3>1. PICK s \in Sessions : Live(s)
      BY <2>3
    <3>2. s \notin Over /\ Over \cup {s} \subseteq Over'
      BY <2>3, <3>1 DEF Over, TypeOK, Live, LiveStates
    <3>3. ~timing' /\ entries' \in {entries, entries + 1}
      BY <2>3
    <3> QED
      BY ONLY PhoneInv, races' = races, s \in Sessions, <1>2, <3>2, <3>3, EntriesCounted
  <2> QED
    BY <2>1, <2>2, <2>3
<1>12. MediaIsEstablished'
  BY <1>1 DEF MediaFollows, MediaIsEstablished, Live, LiveStates, TypeOK
<1>13. ButtonsShowTheCall'
  BY <1>1 DEF MediaFollows, ButtonsShowTheCall, Shows, MediaIsEstablished, SingleCall, LeftHasBegun,
     InHandIsLive, Controls, CallWaiting, SlowLogout, Live, LiveStates, TypeOK
<1>14. QED
  BY <1>2, <1>3, <1>4, <1>5, <1>6, <1>7, <1>8, <1>9, <1>10, <1>11, <1>12, <1>13

\* The phone is ready.
LEMMA RegisteredInv ==
    ASSUME PhoneInv, Registered, MediaEnds, races' = races
    PROVE  PhoneInv'
<1>1. MediaFollows
  BY MediaEndsFollows DEF PhoneInv
<1> USE PhoneAssumption DEF PhoneInv, Registered, sip, talk, shown, timer, panel
<1>2. TypeOK'
  BY <1>1 DEF MediaFollows, TypeOK, States, LiveStates
<1>3. InHandIsLive'
  BY DEF InHandIsLive, SingleCall, Live, LiveStates, TypeOK
<1>4. LeftHasBegun'
  BY DEF LeftHasBegun, SlowLogout, Live, LiveStates, TypeOK
<1>5. PanelIsOfReady'
  BY DEF PanelIsOfReady, TypeOK
<1>6. PanelShowsRinging'
  BY DEF PanelShowsRinging, PanelIsOfReady, InHandIsLive, LeftHasBegun, SlowLogout, Reregister,
     Live, LiveStates, TypeOK
<1>7. PromptStates'
  BY DEF PromptStates, SlowMic, TypeOK
<1>8. PromptAnswers'
  BY DEF PromptAnswers, PromptStates, InCallHasSession, LeftHasBegun, SlowLogout, SlowMic, Live,
     LiveStates, TypeOK
<1>9. SingleCall'
  BY DEF SingleCall, InHandIsLive, LeftHasBegun, CallWaiting, SlowLogout, Live, LiveStates, TypeOK
<1>10. OneCallAtATime'
  BY DEF OneCallAtATime, EstablishedIsInHand, SingleCall, PanelShowsRinging, LeftHasBegun,
     PromptStates, InHandIsLive, CallWaiting, SlowMic, SlowLogout, Live, LiveStates, TypeOK
<1>11. EntriesAreOver'
  <2>1. Over \subseteq Over' /\ entries' = entries
    BY DEF Over, TypeOK, Live, LiveStates
  <2>2. Quiet /\ timing' => current' # None
    BY DEF Quiet, EntriesAreOver, OneCallAtATime, EstablishedIsInHand, SingleCall, PromptStates,
       InHandIsLive, TypeOK, Live, LiveStates, CallWaiting, SlowMic, SlowLogout
  <2> QED
    BY ONLY PhoneInv, races' = races, <1>2, <2>1, <2>2, EntriesKept
<1>12. MediaIsEstablished'
  BY <1>1 DEF MediaFollows, MediaIsEstablished, Live, LiveStates, TypeOK
<1>13. ButtonsShowTheCall'
  BY <1>1 DEF MediaFollows, ButtonsShowTheCall, Shows, MediaIsEstablished, SingleCall, LeftHasBegun,
     InHandIsLive, Controls, CallWaiting, SlowLogout, Live, LiveStates, TypeOK
<1>14. QED
  BY <1>2, <1>3, <1>4, <1>5, <1>6, <1>7, <1>8, <1>9, <1>10, <1>11, <1>12, <1>13

\* The dial pad without a registration.
LEMMA SipSkipInv ==
    ASSUME PhoneInv, SipSkip, MediaEnds, races' = races
    PROVE  PhoneInv'
<1>1. MediaFollows
  BY MediaEndsFollows DEF PhoneInv
<1> USE PhoneAssumption DEF PhoneInv, SipSkip, sip, talk, shown, timer, panel
<1>2. TypeOK'
  BY <1>1 DEF MediaFollows, TypeOK, States, LiveStates
<1>3. InHandIsLive'
  BY DEF InHandIsLive, SingleCall, Live, LiveStates, TypeOK
<1>4. LeftHasBegun'
  BY DEF LeftHasBegun, SlowLogout, Live, LiveStates, TypeOK
<1>5. PanelIsOfReady'
  BY DEF PanelIsOfReady, TypeOK
<1>6. PanelShowsRinging'
  BY DEF PanelShowsRinging, PanelIsOfReady, InHandIsLive, LeftHasBegun, SlowLogout, Reregister,
     Live, LiveStates, TypeOK
<1>7. PromptStates'
  BY DEF PromptStates, SlowMic, TypeOK
<1>8. PromptAnswers'
  BY DEF PromptAnswers, PromptStates, InCallHasSession, LeftHasBegun, SlowLogout, SlowMic, Live,
     LiveStates, TypeOK
<1>9. SingleCall'
  BY DEF SingleCall, InHandIsLive, LeftHasBegun, CallWaiting, SlowLogout, Live, LiveStates, TypeOK
<1>10. OneCallAtATime'
  BY DEF OneCallAtATime, EstablishedIsInHand, SingleCall, PanelShowsRinging, LeftHasBegun,
     PromptStates, InHandIsLive, CallWaiting, SlowMic, SlowLogout, Live, LiveStates, TypeOK
<1>11. EntriesAreOver'
  <2>1. Over \subseteq Over' /\ entries' = entries
    BY DEF Over, TypeOK, Live, LiveStates
  <2>2. Quiet /\ timing' => current' # None
    BY DEF Quiet, EntriesAreOver, OneCallAtATime, EstablishedIsInHand, SingleCall, PromptStates,
       InHandIsLive, TypeOK, Live, LiveStates, CallWaiting, SlowMic, SlowLogout
  <2> QED
    BY ONLY PhoneInv, races' = races, <1>2, <2>1, <2>2, EntriesKept
<1>12. MediaIsEstablished'
  BY <1>1 DEF MediaFollows, MediaIsEstablished, Live, LiveStates, TypeOK
<1>13. ButtonsShowTheCall'
  BY <1>1 DEF MediaFollows, ButtonsShowTheCall, Shows, MediaIsEstablished, SingleCall, LeftHasBegun,
     InHandIsLive, Controls, CallWaiting, SlowLogout, Live, LiveStates, TypeOK
<1>14. QED
  BY <1>2, <1>3, <1>4, <1>5, <1>6, <1>7, <1>8, <1>9, <1>10, <1>11, <1>12, <1>13

\* Logging out.
LEMMA LogoutInv ==
    ASSUME PhoneInv, Logout, MediaEnds, races' = races
    PROVE  PhoneInv'
<1>1. MediaFollows
  BY MediaEndsFollows DEF PhoneInv
<1> USE PhoneAssumption DEF PhoneInv, Logout, Disconnect, Ended, Managed, MicReady, shown, timer
<1>2. TypeOK'
  BY <1>1 DEF MediaFollows, TypeOK, States, LiveStates
<1>3. InHandIsLive'
  BY DEF InHandIsLive, SingleCall, Live, LiveStates, TypeOK
<1>4. LeftHasBegun'
  BY DEF LeftHasBegun, SlowLogout, Live, LiveStates, TypeOK
<1>5. PanelIsOfReady'
  BY DEF PanelIsOfReady, TypeOK
<1>6. PanelShowsRinging'
  BY DEF PanelShowsRinging, PanelIsOfReady, InHandIsLive, LeftHasBegun, SlowLogout, Reregister,
     Live, LiveStates, TypeOK
<1>7. PromptStates'
  BY DEF PromptStates, SlowMic, TypeOK
<1>8. PromptAnswers'
  BY DEF PromptAnswers, PromptStates, InCallHasSession, LeftHasBegun, SlowLogout, SlowMic, Live,
     LiveStates, TypeOK
<1>9. SingleCall'
  BY DEF SingleCall, InHandIsLive, LeftHasBegun, CallWaiting, SlowLogout, Live, LiveStates, TypeOK
<1>10. OneCallAtATime'
  BY DEF OneCallAtATime, EstablishedIsInHand, SingleCall, PanelShowsRinging, LeftHasBegun,
     PromptStates, InHandIsLive, CallWaiting, SlowMic, SlowLogout, Live, LiveStates, TypeOK
<1>11. EntriesAreOver'
  <2>1. Over \subseteq Over' /\ entries' = entries
    BY DEF Over, TypeOK, Live, LiveStates
  <2>2. Quiet /\ timing' => current' # None
    BY DEF Quiet, EntriesAreOver, OneCallAtATime, EstablishedIsInHand, SingleCall, PromptStates,
       InHandIsLive, TypeOK, Live, LiveStates, CallWaiting, SlowMic, SlowLogout
  <2> QED
    BY ONLY PhoneInv, races' = races, <1>2, <2>1, <2>2, EntriesKept
<1>12. MediaIsEstablished'
  BY <1>1 DEF MediaFollows, MediaIsEstablished, Live, LiveStates, TypeOK
<1>13. ButtonsShowTheCall'
  BY <1>1 DEF MediaFollows, ButtonsShowTheCall, Shows, MediaIsEstablished, SingleCall, LeftHasBegun,
     InHandIsLive, Controls, CallWaiting, SlowLogout, Live, LiveStates, TypeOK
<1>14. QED
  BY <1>2, <1>3, <1>4, <1>5, <1>6, <1>7, <1>8, <1>9, <1>10, <1>11, <1>12, <1>13

\* A call is made.
LEMMA MakeCallInv ==
    ASSUME PhoneInv, NEW s \in Sessions, MakeCall(s), MediaEnds, races' = races
    PROVE  PhoneInv'
<1>1. MediaFollows
  BY MediaEndsFollows DEF PhoneInv
<1> USE PhoneAssumption DEF PhoneInv, MakeCall, Becomes, MicReady, Managed, login, talk, shown, panel
<1>2. TypeOK'
  BY <1>1 DEF MediaFollows, TypeOK, States, LiveStates
<1>3. InHandIsLive'
  BY DEF InHandIsLive, SingleCall, Live, LiveStates, LeftHasBegun, TypeOK
<1>4. LeftHasBegun'
  BY DEF LeftHasBegun, SlowLogout, Live, LiveStates, TypeOK
<1>5. PanelIsOfReady'
  BY DEF PanelIsOfReady, TypeOK
<1>6. PanelShowsRinging'
  BY DEF PanelShowsRinging, PanelIsOfReady, InHandIsLive, LeftHasBegun, SlowLogout, Reregister,
     Live, LiveStates, TypeOK
<1>7. PromptStates'
  BY DEF PromptStates, SlowMic, TypeOK
<1>8. PromptAnswers'
  BY DEF PromptAnswers, PromptStates, InCallHasSession, LeftHasBegun, SlowLogout, SlowMic, Live,
     LiveStates, TypeOK
<1>9. SingleCall'
  BY DEF SingleCall, InHandIsLive, LeftHasBegun, CallWaiting, SlowLogout, Live, LiveStates, TypeOK
<1>10. OneCallAtATime'
  BY DEF OneCallAtATime, EstablishedIsInHand, SingleCall, PanelShowsRinging, LeftHasBegun,
     PromptStates, InHandIsLive, CallWaiting, SlowMic, SlowLogout, Live, LiveStates, TypeOK
<1>11. EntriesAreOver'
  <2>1. Over \subseteq Over' /\ entries' = entries
    BY DEF Over, TypeOK, Live, LiveStates
  <2>2. Quiet /\ timing' => current' # None
    BY DEF Quiet, EntriesAreOver, OneCallAtATime, EstablishedIsInHand, SingleCall, PromptStates,
       InHandIsLive, TypeOK, Live, LiveStates, CallWaiting, SlowMic, SlowLogout
  <2> QED
    BY ONLY PhoneInv, races' = races, <1>2, <2>1, <2>2, EntriesKept
<1>12. MediaIsEstablished'
  BY <1>1 DEF MediaFollows, MediaIsEstablished, Live, LiveStates, TypeOK
<1>13. ButtonsShowTheCall'
  BY <1>1 DEF MediaFollows, ButtonsShowTheCall, Shows, MediaIsEstablished, SingleCall, LeftHasBegun,
     InHandIsLive, Controls, CallWaiting, SlowLogout, Live, LiveStates, TypeOK
<1>14. QED
  BY <1>2, <1>3, <1>4, <1>5, <1>6, <1>7, <1>8, <1>9, <1>10, <1>11, <1>12, <1>13

\* A second call is refused.
LEMMA MakeCallAgainInv ==
    ASSUME PhoneInv, MakeCallAgain, MediaEnds, races' = races
    PROVE  PhoneInv'
<1>1. MediaFollows
  BY MediaEndsFollows DEF PhoneInv
<1> USE PhoneAssumption DEF PhoneInv, MakeCallAgain, MicReady, sip, login, talk, shown
<1>2. TypeOK'
  BY <1>1 DEF MediaFollows, TypeOK, States, LiveStates
<1>3. InHandIsLive'
  BY DEF InHandIsLive, SingleCall, Live, LiveStates, TypeOK
<1>4. LeftHasBegun'
  BY DEF LeftHasBegun, SlowLogout, Live, LiveStates, TypeOK
<1>5. PanelIsOfReady'
  BY DEF PanelIsOfReady, TypeOK
<1>6. PanelShowsRinging'
  BY DEF PanelShowsRinging, PanelIsOfReady, InHandIsLive, LeftHasBegun, SlowLogout, Reregister,
     Live, LiveStates, TypeOK
<1>7. PromptStates'
  BY DEF PromptStates, SlowMic, TypeOK
<1>8. PromptAnswers'
  BY DEF PromptAnswers, PromptStates, InCallHasSession, LeftHasBegun, SlowLogout, SlowMic, Live,
     LiveStates, TypeOK
<1>9. SingleCall'
  BY DEF SingleCall, InHandIsLive, LeftHasBegun, CallWaiting, SlowLogout, Live, LiveStates, TypeOK
<1>10. OneCallAtATime'
  BY DEF OneCallAtATime, EstablishedIsInHand, SingleCall, PanelShowsRinging, LeftHasBegun,
     PromptStates, InHandIsLive, CallWaiting, SlowMic, SlowLogout, Live, LiveStates, TypeOK
<1>11. EntriesAreOver'
  <2>1. Over \subseteq Over' /\ entries' = entries
    BY DEF Over, TypeOK, Live, LiveStates
  <2>2. Quiet /\ timing' => current' # None
    BY DEF Quiet, EntriesAreOver, OneCallAtATime, EstablishedIsInHand, SingleCall, PromptStates,
       InHandIsLive, TypeOK, Live, LiveStates, CallWaiting, SlowMic, SlowLogout
  <2> QED
    BY ONLY PhoneInv, races' = races, <1>2, <2>1, <2>2, EntriesKept
<1>12. MediaIsEstablished'
  BY <1>1 DEF MediaFollows, MediaIsEstablished, Live, LiveStates, TypeOK
<1>13. ButtonsShowTheCall'
  BY <1>1 DEF MediaFollows, ButtonsShowTheCall, Shows, MediaIsEstablished, SingleCall, LeftHasBegun,
     InHandIsLive, Controls, CallWaiting, SlowLogout, Live, LiveStates, TypeOK
<1>14. QED
  BY <1>2, <1>3, <1>4, <1>5, <1>6, <1>7, <1>8, <1>9, <1>10, <1>11, <1>12, <1>13

\* The INVITE is sent.
LEMMA InviteSentInv ==
    ASSUME PhoneInv, NEW s \in Sessions, InviteSent(s), MediaEnds, races' = races
    PROVE  PhoneInv'
<1>1. MediaFollows
  BY MediaEndsFollows DEF PhoneInv
<1> USE PhoneAssumption DEF PhoneInv, InviteSent, Becomes, InCall, ClearTimeout, login
<1>2. TypeOK'
  BY <1>1 DEF MediaFollows, TypeOK, States, LiveStates
<1>3. InHandIsLive'
  BY DEF InHandIsLive, SingleCall, Live, LiveStates, TypeOK
<1>4. LeftHasBegun'
  BY DEF LeftHasBegun, SlowLogout, Live, LiveStates, TypeOK
<1>5. PanelIsOfReady'
  BY DEF PanelIsOfReady, TypeOK
<1>6. PanelShowsRinging'
  BY DEF PanelShowsRinging, PanelIsOfReady, InHandIsLive, LeftHasBegun, SlowLogout, Reregister,
     Live, LiveStates, TypeOK
<1>7. PromptStates'
  BY DEF PromptStates, SlowMic, TypeOK
<1>8. PromptAnswers'
  BY DEF PromptAnswers, PromptStates, InCallHasSession, LeftHasBegun, SlowLogout, SlowMic, Live,
     LiveStates, TypeOK
<1>9. SingleCall'
  BY DEF SingleCall, InHandIsLive, LeftHasBegun, CallWaiting, SlowLogout, Live, LiveStates, TypeOK
<1>10. OneCallAtATime'
  BY DEF OneCallAtATime, EstablishedIsInHand, SingleCall, PanelShowsRinging, LeftHasBegun,
     PromptStates, InHandIsLive, CallWaiting, SlowMic, SlowLogout, Live, LiveStates, TypeOK
<1>11. EntriesAreOver'
  <2>1. Over \subseteq Over' /\ entries' = entries
    BY DEF Over, TypeOK, Live, LiveStates
  <2>2. Quiet /\ timing' => current' # None
    BY DEF Quiet, EntriesAreOver, OneCallAtATime, EstablishedIsInHand, SingleCall, PromptStates,
       InHandIsLive, TypeOK, Live, LiveStates, CallWaiting, SlowMic, SlowLogout
  <2> QED
    BY ONLY PhoneInv, races' = races, <1>2, <2>1, <2>2, EntriesKept
<1>12. MediaIsEstablished'
  BY <1>1 DEF MediaFollows, MediaIsEstablished, Live, LiveStates, TypeOK
<1>13. ButtonsShowTheCall'
  BY <1>1 DEF MediaFollows, ButtonsShowTheCall, Shows, MediaIsEstablished, SingleCall, LeftHasBegun,
     InHandIsLive, Controls, CallWaiting, SlowLogout, Live, LiveStates, TypeOK
<1>14. QED
  BY <1>2, <1>3, <1>4, <1>5, <1>6, <1>7, <1>8, <1>9, <1>10, <1>11, <1>12, <1>13

\* The microphone is refused to a call.
LEMMA InviteFailsInv ==
    ASSUME PhoneInv, NEW s \in Sessions, InviteFails(s), MediaEnds, races' = races
    PROVE  PhoneInv'
<1>1. MediaFollows
  BY MediaEndsFollows DEF PhoneInv
<1> USE PhoneAssumption DEF PhoneInv, InviteFails, Becomes, OnCallHangup, EndCall, Unmarked, ClearTimeout, login
<1>2. TypeOK'
  <2>1. entries' \in Nat
    BY DEF TypeOK
  <2>2. sess' \in [Sessions -> States]
    BY DEF TypeOK, States, LiveStates
  <2>3. /\ {isInCall', timing', incoming', hangupBtn', isMuted', isOnHold'} \subseteq BOOLEAN
        /\ lit' \subseteq {"mute", "hold"} /\ said' \subseteq {"mute", "hold"}
    BY DEF TypeOK
  <2>4. /\ muted' \subseteq Sessions /\ held' \subseteq Sessions
        /\ reinvite' \subseteq Sessions /\ slipped' \subseteq Sessions
    BY <1>1 DEF MediaFollows, TypeOK
  <2> HIDE DEF EndCall, Unmarked
  <2> QED
    BY <2>1, <2>2, <2>3, <2>4 DEF TypeOK
<1>3. InHandIsLive'
  BY DEF InHandIsLive, SingleCall, Live, LiveStates, TypeOK
<1>4. LeftHasBegun'
  BY DEF LeftHasBegun, SlowLogout, Live, LiveStates, TypeOK
<1>5. PanelIsOfReady'
  BY DEF PanelIsOfReady, TypeOK
<1>6. PanelShowsRinging'
  BY DEF PanelShowsRinging, PanelIsOfReady, InHandIsLive, LeftHasBegun, SlowLogout, Reregister,
     Live, LiveStates, TypeOK
<1>7. PromptStates'
  BY DEF PromptStates, SlowMic, TypeOK
<1>8. PromptAnswers'
  BY DEF PromptAnswers, PromptStates, InCallHasSession, LeftHasBegun, SlowLogout, SlowMic, Live,
     LiveStates, TypeOK
<1>9. SingleCall'
  BY DEF SingleCall, InHandIsLive, LeftHasBegun, CallWaiting, SlowLogout, Live, LiveStates, TypeOK
<1>10. OneCallAtATime'
  BY DEF OneCallAtATime, EstablishedIsInHand, SingleCall, PanelShowsRinging, LeftHasBegun,
     PromptStates, InHandIsLive, CallWaiting, SlowMic, SlowLogout, Live, LiveStates, TypeOK
<1>11. EntriesAreOver'
  <2>1. s \notin Over /\ Over \cup {s} \subseteq Over'
    BY DEF Over, TypeOK, Live, LiveStates
  <2>2. ~timing' /\ entries' \in {entries, entries + 1}
    OBVIOUS
  <2> QED
    BY ONLY PhoneInv, races' = races, s \in Sessions, <1>2, <2>1, <2>2, EntriesCounted
<1>12. MediaIsEstablished'
  BY <1>1 DEF MediaFollows, MediaIsEstablished, Live, LiveStates, TypeOK
<1>13. ButtonsShowTheCall'
  BY <1>1 DEF MediaFollows, ButtonsShowTheCall, Shows, MediaIsEstablished, SingleCall, LeftHasBegun,
     InHandIsLive, Controls, CallWaiting, SlowLogout, Live, LiveStates, TypeOK
<1>14. QED
  BY <1>2, <1>3, <1>4, <1>5, <1>6, <1>7, <1>8, <1>9, <1>10, <1>11, <1>12, <1>13

\* A call that was hung up settles.
LEMMA WithdrawnSettlesInv ==
    ASSUME PhoneInv, NEW s \in Sessions, WithdrawnSettles(s), MediaEnds, races' = races
    PROVE  PhoneInv'
<1>1. MediaFollows
  BY MediaEndsFollows DEF PhoneInv
<1> USE PhoneAssumption DEF PhoneInv, WithdrawnSettles, Becomes, ClearTimeout, login, talk, shown
<1>2. TypeOK'
  BY <1>1 DEF MediaFollows, TypeOK, States, LiveStates
<1>3. InHandIsLive'
  BY DEF InHandIsLive, SingleCall, Live, LiveStates, TypeOK
<1>4. LeftHasBegun'
  BY DEF LeftHasBegun, SlowLogout, Live, LiveStates, TypeOK
<1>5. PanelIsOfReady'
  BY DEF PanelIsOfReady, TypeOK
<1>6. PanelShowsRinging'
  BY DEF PanelShowsRinging, PanelIsOfReady, InHandIsLive, LeftHasBegun, SlowLogout, Reregister,
     Live, LiveStates, TypeOK
<1>7. PromptStates'
  BY DEF PromptStates, SlowMic, TypeOK
<1>8. PromptAnswers'
  BY DEF PromptAnswers, PromptStates, InCallHasSession, LeftHasBegun, SlowLogout, SlowMic, Live,
     LiveStates, TypeOK
<1>9. SingleCall'
  BY DEF SingleCall, InHandIsLive, LeftHasBegun, CallWaiting, SlowLogout, Live, LiveStates, TypeOK
<1>10. OneCallAtATime'
  BY DEF OneCallAtATime, EstablishedIsInHand, SingleCall, PanelShowsRinging, LeftHasBegun,
     PromptStates, InHandIsLive, CallWaiting, SlowMic, SlowLogout, Live, LiveStates, TypeOK
<1>11. EntriesAreOver'
  <2>1. Over \subseteq Over' /\ entries' = entries
    BY DEF Over, TypeOK, Live, LiveStates
  <2>2. Quiet /\ timing' => current' # None
    BY DEF Quiet, EntriesAreOver, OneCallAtATime, EstablishedIsInHand, SingleCall, PromptStates,
       InHandIsLive, TypeOK, Live, LiveStates, CallWaiting, SlowMic, SlowLogout
  <2> QED
    BY ONLY PhoneInv, races' = races, <1>2, <2>1, <2>2, EntriesKept
<1>12. MediaIsEstablished'
  BY <1>1 DEF MediaFollows, MediaIsEstablished, Live, LiveStates, TypeOK
<1>13. ButtonsShowTheCall'
  BY <1>1 DEF MediaFollows, ButtonsShowTheCall, Shows, MediaIsEstablished, SingleCall, LeftHasBegun,
     InHandIsLive, Controls, CallWaiting, SlowLogout, Live, LiveStates, TypeOK
<1>14. QED
  BY <1>2, <1>3, <1>4, <1>5, <1>6, <1>7, <1>8, <1>9, <1>10, <1>11, <1>12, <1>13

\* The no-answer timer fires.
LEMMA NoAnswerTimerInv ==
    ASSUME PhoneInv, NEW s \in Sessions, NoAnswerTimer(s), MediaEnds, races' = races
    PROVE  PhoneInv'
<1>1. MediaFollows
  BY MediaEndsFollows DEF PhoneInv
<1> USE PhoneAssumption DEF PhoneInv, NoAnswerTimer, EndCall, Unmarked, HangUpCurrent, Ended, MicReady, login, talk, shown, panel
<1>2. TypeOK'
  <2>1. entries' \in Nat
    BY DEF TypeOK
  <2>2. sess' \in [Sessions -> States]
    BY DEF TypeOK, States, LiveStates
  <2>3. /\ {isInCall', timing', incoming', hangupBtn', isMuted', isOnHold'} \subseteq BOOLEAN
        /\ lit' \subseteq {"mute", "hold"} /\ said' \subseteq {"mute", "hold"}
    BY DEF TypeOK
  <2>4. /\ muted' \subseteq Sessions /\ held' \subseteq Sessions
        /\ reinvite' \subseteq Sessions /\ slipped' \subseteq Sessions
    BY <1>1 DEF MediaFollows, TypeOK
  <2> HIDE DEF EndCall, Unmarked
  <2> QED
    BY <2>1, <2>2, <2>3, <2>4 DEF TypeOK
<1>3. InHandIsLive'
  BY DEF InHandIsLive, SingleCall, Live, LiveStates, TypeOK
<1>4. LeftHasBegun'
  BY DEF LeftHasBegun, SlowLogout, Live, LiveStates, TypeOK
<1>5. PanelIsOfReady'
  BY DEF PanelIsOfReady, TypeOK
<1>6. PanelShowsRinging'
  BY DEF PanelShowsRinging, PanelIsOfReady, InHandIsLive, LeftHasBegun, SlowLogout, Reregister,
     Live, LiveStates, TypeOK
<1>7. PromptStates'
  BY DEF PromptStates, SlowMic, TypeOK
<1>8. PromptAnswers'
  BY DEF PromptAnswers, PromptStates, InCallHasSession, LeftHasBegun, SlowLogout, SlowMic, Live,
     LiveStates, TypeOK
<1>9. SingleCall'
  BY DEF SingleCall, InHandIsLive, LeftHasBegun, CallWaiting, SlowLogout, Live, LiveStates, TypeOK
<1>10. OneCallAtATime'
  BY DEF OneCallAtATime, EstablishedIsInHand, SingleCall, PanelShowsRinging, LeftHasBegun,
     PromptStates, InHandIsLive, CallWaiting, SlowMic, SlowLogout, Live, LiveStates, TypeOK
<1>11. EntriesAreOver'
  <2>1. CASE sess' = sess /\ timing' = timing /\ entries' = entries /\ current' = current
    <3>1. Over' = Over
      BY <2>1 DEF Over, Live
    <3> QED
      BY <2>1, <3>1 DEF EntriesAreOver, CallWaiting, SlowMic, SlowLogout
  <2>2. CASE current = None /\ sess' = sess /\ ~timing'
    <3>1. Over' = Over
      BY <2>2 DEF Over, Live
    <3>2. Quiet => entries' = entries
      BY <2>2 DEF Quiet, EntriesAreOver, CallWaiting, SlowMic, SlowLogout
    <3> QED
      BY <2>2, <3>1, <3>2 DEF Quiet, EntriesAreOver, CallWaiting, SlowMic, SlowLogout
  <2>3. CASE current # None /\ sess' = [sess EXCEPT ![current] = Ended(current)] /\ ~timing'
    <3>1. current \in Sessions /\ current \notin Over /\ Over \cup {current} \subseteq Over'
      BY <2>3 DEF Over, TypeOK, InHandIsLive, Live, LiveStates
    <3>2. ~timing' /\ entries' \in {entries, entries + 1}
      BY <2>3
    <3> QED
      BY ONLY PhoneInv, races' = races, <1>2, <3>1, <3>2, EntriesCounted
  <2> QED
    BY <2>1, <2>2, <2>3
<1>12. MediaIsEstablished'
  BY <1>1 DEF MediaFollows, MediaIsEstablished, Live, LiveStates, TypeOK
<1>13. ButtonsShowTheCall'
  BY <1>1 DEF MediaFollows, ButtonsShowTheCall, Shows, MediaIsEstablished, SingleCall, LeftHasBegun,
     InHandIsLive, Controls, CallWaiting, SlowLogout, Live, LiveStates, TypeOK
<1>14. QED
  BY <1>2, <1>3, <1>4, <1>5, <1>6, <1>7, <1>8, <1>9, <1>10, <1>11, <1>12, <1>13

\* The callee answers.
LEMMA CalleeAnswersInv ==
    ASSUME PhoneInv, NEW s \in Sessions, CalleeAnswers(s), MediaEnds, races' = races
    PROVE  PhoneInv'
<1>1. MediaFollows
  BY MediaEndsFollows DEF PhoneInv
<1> USE PhoneAssumption DEF PhoneInv, CalleeAnswers, OnCallAnswered, Becomes, InCall, login, timer
<1>2. TypeOK'
  BY <1>1 DEF MediaFollows, TypeOK, States, LiveStates
<1>3. InHandIsLive'
  BY DEF InHandIsLive, SingleCall, Live, LiveStates, TypeOK
<1>4. LeftHasBegun'
  BY DEF LeftHasBegun, SlowLogout, Live, LiveStates, TypeOK
<1>5. PanelIsOfReady'
  BY DEF PanelIsOfReady, TypeOK
<1>6. PanelShowsRinging'
  BY DEF PanelShowsRinging, PanelIsOfReady, InHandIsLive, LeftHasBegun, SlowLogout, Reregister,
     Live, LiveStates, TypeOK
<1>7. PromptStates'
  BY DEF PromptStates, SlowMic, TypeOK
<1>8. PromptAnswers'
  BY DEF PromptAnswers, PromptStates, InCallHasSession, LeftHasBegun, SlowLogout, SlowMic, Live,
     LiveStates, TypeOK
<1>9. SingleCall'
  BY DEF SingleCall, InHandIsLive, LeftHasBegun, CallWaiting, SlowLogout, Live, LiveStates, TypeOK
<1>10. OneCallAtATime'
  BY DEF OneCallAtATime, EstablishedIsInHand, SingleCall, PanelShowsRinging, LeftHasBegun,
     PromptStates, InHandIsLive, CallWaiting, SlowMic, SlowLogout, Live, LiveStates, TypeOK
<1>11. EntriesAreOver'
  <2>1. Over \subseteq Over' /\ entries' = entries
    BY DEF Over, TypeOK, Live, LiveStates
  <2>2. Quiet /\ timing' => current' # None
    BY DEF Quiet, EntriesAreOver, OneCallAtATime, EstablishedIsInHand, SingleCall, PromptStates,
       InHandIsLive, TypeOK, Live, LiveStates, CallWaiting, SlowMic, SlowLogout
  <2> QED
    BY ONLY PhoneInv, races' = races, <1>2, <2>1, <2>2, EntriesKept
<1>12. MediaIsEstablished'
  BY <1>1 DEF MediaFollows, MediaIsEstablished, Live, LiveStates, TypeOK
<1>13. ButtonsShowTheCall'
  <2> SUFFICES ASSUME Controls, ~CallWaiting, ~SlowLogout,
                      NEW t \in Sessions \ left, sess'[t] = "established"
               PROVE  /\ isMuted' = (t \in muted') /\ Shows("mute", t \in muted)'
                      /\ isOnHold' = (t \in held') /\ Shows("hold", t \in held)'
    BY DEF ButtonsShowTheCall, Controls, CallWaiting, SlowLogout
  <2>1. t = s
    BY DEF SingleCall, TypeOK, Live, LiveStates
  <2>2. s \notin muted /\ s \notin held
    BY DEF MediaIsEstablished
  <2>3. t \notin muted' /\ t \notin held'
    BY <1>1, <2>1, <2>2 DEF MediaFollows
  <2>4. ~isMuted' /\ ~isOnHold' /\ isMuted' \in BOOLEAN /\ isOnHold' \in BOOLEAN /\ lit' = {}
    OBVIOUS
  <2> QED
    BY ONLY <2>3, <2>4 DEF Shows
<1>14. QED
  BY <1>2, <1>3, <1>4, <1>5, <1>6, <1>7, <1>8, <1>9, <1>10, <1>11, <1>12, <1>13

\* A call comes in.
LEMMA ReceiveInviteInv ==
    ASSUME PhoneInv, NEW s \in Sessions, ReceiveInvite(s), MediaEnds, races' = races
    PROVE  PhoneInv'
<1>1. MediaFollows
  BY MediaEndsFollows DEF PhoneInv
<1> USE PhoneAssumption DEF PhoneInv, ReceiveInvite, Becomes, MicReady, Managed, login, talk, shown, timer, panel
<1>2. TypeOK'
  BY <1>1 DEF MediaFollows, TypeOK, States, LiveStates
<1>3. InHandIsLive'
  BY DEF InHandIsLive, SingleCall, Live, LiveStates, LeftHasBegun, TypeOK
<1>4. LeftHasBegun'
  BY DEF LeftHasBegun, SlowLogout, Live, LiveStates, TypeOK
<1>5. PanelIsOfReady'
  BY DEF PanelIsOfReady, TypeOK
<1>6. PanelShowsRinging'
  BY DEF PanelShowsRinging, PanelIsOfReady, InHandIsLive, LeftHasBegun, SlowLogout, Reregister,
     Live, LiveStates, TypeOK
<1>7. PromptStates'
  BY DEF PromptStates, SlowMic, TypeOK
<1>8. PromptAnswers'
  BY DEF PromptAnswers, PromptStates, InCallHasSession, LeftHasBegun, SlowLogout, SlowMic, Live,
     LiveStates, TypeOK
<1>9. SingleCall'
  BY DEF SingleCall, InHandIsLive, LeftHasBegun, CallWaiting, SlowLogout, Live, LiveStates, TypeOK
<1>10. OneCallAtATime'
  BY DEF OneCallAtATime, EstablishedIsInHand, SingleCall, PanelShowsRinging, LeftHasBegun,
     PromptStates, InHandIsLive, CallWaiting, SlowMic, SlowLogout, Live, LiveStates, TypeOK
<1>11. EntriesAreOver'
  <2>1. Over \subseteq Over' /\ entries' = entries
    BY DEF Over, TypeOK, Live, LiveStates
  <2>2. Quiet /\ timing' => current' # None
    BY DEF Quiet, EntriesAreOver, OneCallAtATime, EstablishedIsInHand, SingleCall, PromptStates,
       InHandIsLive, TypeOK, Live, LiveStates, CallWaiting, SlowMic, SlowLogout
  <2> QED
    BY ONLY PhoneInv, races' = races, <1>2, <2>1, <2>2, EntriesKept
<1>12. MediaIsEstablished'
  BY <1>1 DEF MediaFollows, MediaIsEstablished, Live, LiveStates, TypeOK
<1>13. ButtonsShowTheCall'
  BY <1>1 DEF MediaFollows, ButtonsShowTheCall, Shows, MediaIsEstablished, SingleCall, LeftHasBegun,
     InHandIsLive, Controls, CallWaiting, SlowLogout, Live, LiveStates, TypeOK
<1>14. QED
  BY <1>2, <1>3, <1>4, <1>5, <1>6, <1>7, <1>8, <1>9, <1>10, <1>11, <1>12, <1>13

\* The answer button.
LEMMA AnswerInv ==
    ASSUME PhoneInv, Answer, MediaEnds, races' = races
    PROVE  PhoneInv'
<1>1. MediaFollows
  BY MediaEndsFollows DEF PhoneInv
<1> USE PhoneAssumption DEF PhoneInv, Answer, Becomes, login, shown, timer
<1>2. TypeOK'
  BY <1>1 DEF MediaFollows, TypeOK, States, LiveStates
<1>3. InHandIsLive'
  BY DEF InHandIsLive, SingleCall, Live, LiveStates, TypeOK
<1>4. LeftHasBegun'
  BY DEF LeftHasBegun, SlowLogout, Live, LiveStates, TypeOK
<1>5. PanelIsOfReady'
  BY DEF PanelIsOfReady, TypeOK
<1>6. PanelShowsRinging'
  BY DEF PanelShowsRinging, PanelIsOfReady, InHandIsLive, LeftHasBegun, SlowLogout, Reregister,
     Live, LiveStates, TypeOK
<1>7. PromptStates'
  BY DEF PromptStates, SlowMic, TypeOK
<1>8. PromptAnswers'
  BY DEF PromptAnswers, PromptStates, InCallHasSession, LeftHasBegun, SlowLogout, SlowMic, Live,
     LiveStates, TypeOK
<1>9. SingleCall'
  BY DEF SingleCall, InHandIsLive, LeftHasBegun, CallWaiting, SlowLogout, Live, LiveStates, TypeOK
<1>10. OneCallAtATime'
  BY DEF OneCallAtATime, EstablishedIsInHand, SingleCall, PanelShowsRinging, LeftHasBegun,
     PromptStates, InHandIsLive, CallWaiting, SlowMic, SlowLogout, Live, LiveStates, TypeOK
<1>11. EntriesAreOver'
  <2>1. Over \subseteq Over' /\ entries' = entries
    BY DEF Over, TypeOK, Live, LiveStates
  <2>2. Quiet /\ timing' => current' # None
    BY DEF Quiet, EntriesAreOver, OneCallAtATime, EstablishedIsInHand, SingleCall, PromptStates,
       InHandIsLive, TypeOK, Live, LiveStates, CallWaiting, SlowMic, SlowLogout
  <2> QED
    BY ONLY PhoneInv, races' = races, <1>2, <2>1, <2>2, EntriesKept
<1>12. MediaIsEstablished'
  BY <1>1 DEF MediaFollows, MediaIsEstablished, Live, LiveStates, TypeOK
<1>13. ButtonsShowTheCall'
  BY <1>1 DEF MediaFollows, ButtonsShowTheCall, Shows, MediaIsEstablished, SingleCall, LeftHasBegun,
     InHandIsLive, Controls, CallWaiting, SlowLogout, Live, LiveStates, TypeOK
<1>14. QED
  BY <1>2, <1>3, <1>4, <1>5, <1>6, <1>7, <1>8, <1>9, <1>10, <1>11, <1>12, <1>13

\* The answer is sent.
LEMMA AnswerSentInv ==
    ASSUME PhoneInv, NEW s \in Sessions, AnswerSent(s), MediaEnds, races' = races
    PROVE  PhoneInv'
<1>1. MediaFollows
  BY MediaEndsFollows DEF PhoneInv
<1> USE PhoneAssumption DEF PhoneInv, AnswerSent, OnCallAnswered, Becomes, InCall, login, timer
<1>2. TypeOK'
  BY <1>1 DEF MediaFollows, TypeOK, States, LiveStates
<1>3. InHandIsLive'
  BY DEF InHandIsLive, SingleCall, Live, LiveStates, TypeOK
<1>4. LeftHasBegun'
  BY DEF LeftHasBegun, SlowLogout, Live, LiveStates, TypeOK
<1>5. PanelIsOfReady'
  BY DEF PanelIsOfReady, TypeOK
<1>6. PanelShowsRinging'
  BY DEF PanelShowsRinging, PanelIsOfReady, InHandIsLive, LeftHasBegun, SlowLogout, Reregister,
     Live, LiveStates, TypeOK
<1>7. PromptStates'
  BY DEF PromptStates, SlowMic, TypeOK
<1>8. PromptAnswers'
  BY DEF PromptAnswers, PromptStates, InCallHasSession, LeftHasBegun, SlowLogout, SlowMic, Live,
     LiveStates, TypeOK
<1>9. SingleCall'
  BY DEF SingleCall, InHandIsLive, LeftHasBegun, CallWaiting, SlowLogout, Live, LiveStates, TypeOK
<1>10. OneCallAtATime'
  BY DEF OneCallAtATime, EstablishedIsInHand, SingleCall, PanelShowsRinging, LeftHasBegun,
     PromptStates, InHandIsLive, CallWaiting, SlowMic, SlowLogout, Live, LiveStates, TypeOK
<1>11. EntriesAreOver'
  <2>1. Over \subseteq Over' /\ entries' = entries
    BY DEF Over, TypeOK, Live, LiveStates
  <2>2. Quiet /\ timing' => current' # None
    BY DEF Quiet, EntriesAreOver, OneCallAtATime, EstablishedIsInHand, SingleCall, PromptStates,
       InHandIsLive, TypeOK, Live, LiveStates, CallWaiting, SlowMic, SlowLogout
  <2> QED
    BY ONLY PhoneInv, races' = races, <1>2, <2>1, <2>2, EntriesKept
<1>12. MediaIsEstablished'
  BY <1>1 DEF MediaFollows, MediaIsEstablished, Live, LiveStates, TypeOK
<1>13. ButtonsShowTheCall'
  <2> SUFFICES ASSUME Controls, ~CallWaiting, ~SlowLogout,
                      NEW t \in Sessions \ left, sess'[t] = "established"
               PROVE  /\ isMuted' = (t \in muted') /\ Shows("mute", t \in muted)'
                      /\ isOnHold' = (t \in held') /\ Shows("hold", t \in held)'
    BY DEF ButtonsShowTheCall, Controls, CallWaiting, SlowLogout
  <2>1. t = s
    BY DEF SingleCall, TypeOK, Live, LiveStates
  <2>2. s \notin muted /\ s \notin held
    BY DEF MediaIsEstablished
  <2>3. t \notin muted' /\ t \notin held'
    BY <1>1, <2>1, <2>2 DEF MediaFollows
  <2>4. ~isMuted' /\ ~isOnHold' /\ isMuted' \in BOOLEAN /\ isOnHold' \in BOOLEAN /\ lit' = {}
    OBVIOUS
  <2> QED
    BY ONLY <2>3, <2>4 DEF Shows
<1>14. QED
  BY <1>2, <1>3, <1>4, <1>5, <1>6, <1>7, <1>8, <1>9, <1>10, <1>11, <1>12, <1>13

\* The microphone is refused to an answer.
LEMMA AnswerFailsInv ==
    ASSUME PhoneInv, NEW s \in Sessions, AnswerFails(s), MediaEnds, races' = races
    PROVE  PhoneInv'
<1>1. MediaFollows
  BY MediaEndsFollows DEF PhoneInv
<1> USE PhoneAssumption DEF PhoneInv, AnswerFails, Becomes, OnCallHangup, EndCall, Unmarked, login, timer
<1>2. TypeOK'
  <2>1. entries' \in Nat
    BY DEF TypeOK
  <2>2. sess' \in [Sessions -> States]
    BY DEF TypeOK, States, LiveStates
  <2>3. /\ {isInCall', timing', incoming', hangupBtn', isMuted', isOnHold'} \subseteq BOOLEAN
        /\ lit' \subseteq {"mute", "hold"} /\ said' \subseteq {"mute", "hold"}
    BY DEF TypeOK
  <2>4. /\ muted' \subseteq Sessions /\ held' \subseteq Sessions
        /\ reinvite' \subseteq Sessions /\ slipped' \subseteq Sessions
    BY <1>1 DEF MediaFollows, TypeOK
  <2> HIDE DEF EndCall, Unmarked
  <2> QED
    BY <2>1, <2>2, <2>3, <2>4 DEF TypeOK
<1>3. InHandIsLive'
  BY DEF InHandIsLive, SingleCall, Live, LiveStates, TypeOK
<1>4. LeftHasBegun'
  BY DEF LeftHasBegun, SlowLogout, Live, LiveStates, TypeOK
<1>5. PanelIsOfReady'
  BY DEF PanelIsOfReady, TypeOK
<1>6. PanelShowsRinging'
  BY DEF PanelShowsRinging, PanelIsOfReady, InHandIsLive, LeftHasBegun, SlowLogout, Reregister,
     Live, LiveStates, TypeOK
<1>7. PromptStates'
  BY DEF PromptStates, SlowMic, TypeOK
<1>8. PromptAnswers'
  BY DEF PromptAnswers, PromptStates, InCallHasSession, LeftHasBegun, SlowLogout, SlowMic, Live,
     LiveStates, TypeOK
<1>9. SingleCall'
  BY DEF SingleCall, InHandIsLive, LeftHasBegun, CallWaiting, SlowLogout, Live, LiveStates, TypeOK
<1>10. OneCallAtATime'
  BY DEF OneCallAtATime, EstablishedIsInHand, SingleCall, PanelShowsRinging, LeftHasBegun,
     PromptStates, InHandIsLive, CallWaiting, SlowMic, SlowLogout, Live, LiveStates, TypeOK
<1>11. EntriesAreOver'
  <2>1. s \notin Over /\ Over \cup {s} \subseteq Over'
    BY DEF Over, TypeOK, Live, LiveStates
  <2>2. ~timing' /\ entries' \in {entries, entries + 1}
    OBVIOUS
  <2> QED
    BY ONLY PhoneInv, races' = races, s \in Sessions, <1>2, <2>1, <2>2, EntriesCounted
<1>12. MediaIsEstablished'
  BY <1>1 DEF MediaFollows, MediaIsEstablished, Live, LiveStates, TypeOK
<1>13. ButtonsShowTheCall'
  BY <1>1 DEF MediaFollows, ButtonsShowTheCall, Shows, MediaIsEstablished, SingleCall, LeftHasBegun,
     InHandIsLive, Controls, CallWaiting, SlowLogout, Live, LiveStates, TypeOK
<1>14. QED
  BY <1>2, <1>3, <1>4, <1>5, <1>6, <1>7, <1>8, <1>9, <1>10, <1>11, <1>12, <1>13

\* An answer that was hung up settles.
LEMMA RefusedSettlesInv ==
    ASSUME PhoneInv, NEW s \in Sessions, RefusedSettles(s), MediaEnds, races' = races
    PROVE  PhoneInv'
<1>1. MediaFollows
  BY MediaEndsFollows DEF PhoneInv
<1> USE PhoneAssumption DEF PhoneInv, RefusedSettles, Becomes, login, shown, timer
<1>2. TypeOK'
  BY <1>1 DEF MediaFollows, TypeOK, States, LiveStates
<1>3. InHandIsLive'
  BY DEF InHandIsLive, SingleCall, Live, LiveStates, TypeOK
<1>4. LeftHasBegun'
  BY DEF LeftHasBegun, SlowLogout, Live, LiveStates, TypeOK
<1>5. PanelIsOfReady'
  BY DEF PanelIsOfReady, TypeOK
<1>6. PanelShowsRinging'
  BY DEF PanelShowsRinging, PanelIsOfReady, InHandIsLive, LeftHasBegun, SlowLogout, Reregister,
     Live, LiveStates, TypeOK
<1>7. PromptStates'
  BY DEF PromptStates, SlowMic, TypeOK
<1>8. PromptAnswers'
  BY DEF PromptAnswers, PromptStates, InCallHasSession, LeftHasBegun, SlowLogout, SlowMic, Live,
     LiveStates, TypeOK
<1>9. SingleCall'
  BY DEF SingleCall, InHandIsLive, LeftHasBegun, CallWaiting, SlowLogout, Live, LiveStates, TypeOK
<1>10. OneCallAtATime'
  BY DEF OneCallAtATime, EstablishedIsInHand, SingleCall, PanelShowsRinging, LeftHasBegun,
     PromptStates, InHandIsLive, CallWaiting, SlowMic, SlowLogout, Live, LiveStates, TypeOK
<1>11. EntriesAreOver'
  <2>1. Over \subseteq Over' /\ entries' = entries
    BY DEF Over, TypeOK, Live, LiveStates
  <2>2. Quiet /\ timing' => current' # None
    BY DEF Quiet, EntriesAreOver, OneCallAtATime, EstablishedIsInHand, SingleCall, PromptStates,
       InHandIsLive, TypeOK, Live, LiveStates, CallWaiting, SlowMic, SlowLogout
  <2> QED
    BY ONLY PhoneInv, races' = races, <1>2, <2>1, <2>2, EntriesKept
<1>12. MediaIsEstablished'
  BY <1>1 DEF MediaFollows, MediaIsEstablished, Live, LiveStates, TypeOK
<1>13. ButtonsShowTheCall'
  BY <1>1 DEF MediaFollows, ButtonsShowTheCall, Shows, MediaIsEstablished, SingleCall, LeftHasBegun,
     InHandIsLive, Controls, CallWaiting, SlowLogout, Live, LiveStates, TypeOK
<1>14. QED
  BY <1>2, <1>3, <1>4, <1>5, <1>6, <1>7, <1>8, <1>9, <1>10, <1>11, <1>12, <1>13

\* An answer that was cancelled settles.
LEMMA CanceledSettlesInv ==
    ASSUME PhoneInv, NEW s \in Sessions, CanceledSettles(s), MediaEnds, races' = races
    PROVE  PhoneInv'
<1>1. MediaFollows
  BY MediaEndsFollows DEF PhoneInv
<1> USE PhoneAssumption DEF PhoneInv, CanceledSettles, Becomes, login, shown, timer
<1>2. TypeOK'
  BY <1>1 DEF MediaFollows, TypeOK, States, LiveStates
<1>3. InHandIsLive'
  BY DEF InHandIsLive, SingleCall, Live, LiveStates, TypeOK
<1>4. LeftHasBegun'
  BY DEF LeftHasBegun, SlowLogout, Live, LiveStates, TypeOK
<1>5. PanelIsOfReady'
  BY DEF PanelIsOfReady, TypeOK
<1>6. PanelShowsRinging'
  BY DEF PanelShowsRinging, PanelIsOfReady, InHandIsLive, LeftHasBegun, SlowLogout, Reregister,
     Live, LiveStates, TypeOK
<1>7. PromptStates'
  BY DEF PromptStates, SlowMic, TypeOK
<1>8. PromptAnswers'
  BY DEF PromptAnswers, PromptStates, InCallHasSession, LeftHasBegun, SlowLogout, SlowMic, Live,
     LiveStates, TypeOK
<1>9. SingleCall'
  BY DEF SingleCall, InHandIsLive, LeftHasBegun, CallWaiting, SlowLogout, Live, LiveStates, TypeOK
<1>10. OneCallAtATime'
  BY DEF OneCallAtATime, EstablishedIsInHand, SingleCall, PanelShowsRinging, LeftHasBegun,
     PromptStates, InHandIsLive, CallWaiting, SlowMic, SlowLogout, Live, LiveStates, TypeOK
<1>11. EntriesAreOver'
  <2>1. Over \subseteq Over' /\ entries' = entries
    BY DEF Over, TypeOK, Live, LiveStates
  <2>2. Quiet /\ timing' => current' # None
    BY DEF Quiet, EntriesAreOver, OneCallAtATime, EstablishedIsInHand, SingleCall, PromptStates,
       InHandIsLive, TypeOK, Live, LiveStates, CallWaiting, SlowMic, SlowLogout
  <2> QED
    BY ONLY PhoneInv, races' = races, <1>2, <2>1, <2>2, EntriesKept
<1>12. MediaIsEstablished'
  BY <1>1 DEF MediaFollows, MediaIsEstablished, Live, LiveStates, TypeOK
<1>13. ButtonsShowTheCall'
  BY <1>1 DEF MediaFollows, ButtonsShowTheCall, Shows, MediaIsEstablished, SingleCall, LeftHasBegun,
     InHandIsLive, Controls, CallWaiting, SlowLogout, Live, LiveStates, TypeOK
<1>14. QED
  BY <1>2, <1>3, <1>4, <1>5, <1>6, <1>7, <1>8, <1>9, <1>10, <1>11, <1>12, <1>13

\* The reject button.
LEMMA RejectInv ==
    ASSUME PhoneInv, Reject, MediaEnds, races' = races
    PROVE  PhoneInv'
<1>1. MediaFollows
  BY MediaEndsFollows DEF PhoneInv
<1> USE PhoneAssumption DEF PhoneInv, Reject, EndCall, Unmarked, HangUpCurrent, Ended, MicReady, login, shown, timer
<1>2. TypeOK'
  <2>1. entries' \in Nat
    BY DEF TypeOK
  <2>2. sess' \in [Sessions -> States]
    BY DEF TypeOK, States, LiveStates
  <2>3. /\ {isInCall', timing', incoming', hangupBtn', isMuted', isOnHold'} \subseteq BOOLEAN
        /\ lit' \subseteq {"mute", "hold"} /\ said' \subseteq {"mute", "hold"}
    BY DEF TypeOK
  <2>4. /\ muted' \subseteq Sessions /\ held' \subseteq Sessions
        /\ reinvite' \subseteq Sessions /\ slipped' \subseteq Sessions
    BY <1>1 DEF MediaFollows, TypeOK
  <2> HIDE DEF EndCall, Unmarked
  <2> QED
    BY <2>1, <2>2, <2>3, <2>4 DEF TypeOK
<1>3. InHandIsLive'
  BY DEF InHandIsLive, SingleCall, Live, LiveStates, TypeOK
<1>4. LeftHasBegun'
  BY DEF LeftHasBegun, SlowLogout, Live, LiveStates, TypeOK
<1>5. PanelIsOfReady'
  BY DEF PanelIsOfReady, TypeOK
<1>6. PanelShowsRinging'
  BY DEF PanelShowsRinging, PanelIsOfReady, InHandIsLive, LeftHasBegun, SlowLogout, Reregister,
     Live, LiveStates, TypeOK
<1>7. PromptStates'
  BY DEF PromptStates, SlowMic, TypeOK
<1>8. PromptAnswers'
  BY DEF PromptAnswers, PromptStates, InCallHasSession, LeftHasBegun, SlowLogout, SlowMic, Live,
     LiveStates, TypeOK
<1>9. SingleCall'
  BY DEF SingleCall, InHandIsLive, LeftHasBegun, CallWaiting, SlowLogout, Live, LiveStates, TypeOK
<1>10. OneCallAtATime'
  BY DEF OneCallAtATime, EstablishedIsInHand, SingleCall, PanelShowsRinging, LeftHasBegun,
     PromptStates, InHandIsLive, CallWaiting, SlowMic, SlowLogout, Live, LiveStates, TypeOK
<1>11. EntriesAreOver'
  <2>1. CASE sess' = sess /\ timing' = timing /\ entries' = entries /\ current' = current
    <3>1. Over' = Over
      BY <2>1 DEF Over, Live
    <3> QED
      BY <2>1, <3>1 DEF EntriesAreOver, CallWaiting, SlowMic, SlowLogout
  <2>2. CASE current = None /\ sess' = sess /\ ~timing'
    <3>1. Over' = Over
      BY <2>2 DEF Over, Live
    <3>2. Quiet => entries' = entries
      BY <2>2 DEF Quiet, EntriesAreOver, CallWaiting, SlowMic, SlowLogout
    <3> QED
      BY <2>2, <3>1, <3>2 DEF Quiet, EntriesAreOver, CallWaiting, SlowMic, SlowLogout
  <2>3. CASE current # None /\ sess' = [sess EXCEPT ![current] = Ended(current)] /\ ~timing'
    <3>1. current \in Sessions /\ current \notin Over /\ Over \cup {current} \subseteq Over'
      BY <2>3 DEF Over, TypeOK, InHandIsLive, Live, LiveStates
    <3>2. ~timing' /\ entries' \in {entries, entries + 1}
      BY <2>3
    <3> QED
      BY ONLY PhoneInv, races' = races, <1>2, <3>1, <3>2, EntriesCounted
  <2> QED
    BY <2>1, <2>2, <2>3
<1>12. MediaIsEstablished'
  BY <1>1 DEF MediaFollows, MediaIsEstablished, Live, LiveStates, TypeOK
<1>13. ButtonsShowTheCall'
  BY <1>1 DEF MediaFollows, ButtonsShowTheCall, Shows, MediaIsEstablished, SingleCall, LeftHasBegun,
     InHandIsLive, Controls, CallWaiting, SlowLogout, Live, LiveStates, TypeOK
<1>14. QED
  BY <1>2, <1>3, <1>4, <1>5, <1>6, <1>7, <1>8, <1>9, <1>10, <1>11, <1>12, <1>13

\* The other party ends a session.
LEMMA RemoteEndsInv ==
    ASSUME PhoneInv, NEW s \in Sessions, RemoteEnds(s), MediaEnds, races' = races
    PROVE  PhoneInv'
<1>1. MediaFollows
  BY MediaEndsFollows DEF PhoneInv
<1> USE PhoneAssumption DEF PhoneInv, RemoteEnds, Becomes, OnCallHangup, EndCall, Unmarked, MicReady, login, timer
<1>2. TypeOK'
  <2>1. entries' \in Nat
    BY DEF TypeOK
  <2>2. sess' \in [Sessions -> States]
    BY DEF TypeOK, States, LiveStates
  <2>3. /\ {isInCall', timing', incoming', hangupBtn', isMuted', isOnHold'} \subseteq BOOLEAN
        /\ lit' \subseteq {"mute", "hold"} /\ said' \subseteq {"mute", "hold"}
    BY DEF TypeOK
  <2>4. /\ muted' \subseteq Sessions /\ held' \subseteq Sessions
        /\ reinvite' \subseteq Sessions /\ slipped' \subseteq Sessions
    BY <1>1 DEF MediaFollows, TypeOK
  <2> HIDE DEF EndCall, Unmarked
  <2> QED
    BY <2>1, <2>2, <2>3, <2>4 DEF TypeOK
<1>3. InHandIsLive'
  BY DEF InHandIsLive, SingleCall, Live, LiveStates, TypeOK
<1>4. LeftHasBegun'
  BY DEF LeftHasBegun, SlowLogout, Live, LiveStates, TypeOK
<1>5. PanelIsOfReady'
  BY DEF PanelIsOfReady, TypeOK
<1>6. PanelShowsRinging'
  BY DEF PanelShowsRinging, PanelIsOfReady, InHandIsLive, LeftHasBegun, SlowLogout, Reregister,
     Live, LiveStates, TypeOK
<1>7. PromptStates'
  BY DEF PromptStates, SlowMic, TypeOK
<1>8. PromptAnswers'
  BY DEF PromptAnswers, PromptStates, InCallHasSession, LeftHasBegun, SlowLogout, SlowMic, Live,
     LiveStates, TypeOK
<1>9. SingleCall'
  BY DEF SingleCall, InHandIsLive, LeftHasBegun, CallWaiting, SlowLogout, Live, LiveStates, TypeOK
<1>10. OneCallAtATime'
  BY DEF OneCallAtATime, EstablishedIsInHand, SingleCall, PanelShowsRinging, LeftHasBegun,
     PromptStates, InHandIsLive, CallWaiting, SlowMic, SlowLogout, Live, LiveStates, TypeOK
<1>11. EntriesAreOver'
  <2>1. s \notin Over /\ Over \cup {s} \subseteq Over'
    BY DEF Over, TypeOK, Live, LiveStates
  <2>2. ~timing' /\ entries' \in {entries, entries + 1}
    OBVIOUS
  <2> QED
    BY ONLY PhoneInv, races' = races, s \in Sessions, <1>2, <2>1, <2>2, EntriesCounted
<1>12. MediaIsEstablished'
  BY <1>1 DEF MediaFollows, MediaIsEstablished, Live, LiveStates, TypeOK
<1>13. ButtonsShowTheCall'
  BY <1>1 DEF MediaFollows, ButtonsShowTheCall, Shows, MediaIsEstablished, SingleCall, LeftHasBegun,
     InHandIsLive, Controls, CallWaiting, SlowLogout, Live, LiveStates, TypeOK
<1>14. QED
  BY <1>2, <1>3, <1>4, <1>5, <1>6, <1>7, <1>8, <1>9, <1>10, <1>11, <1>12, <1>13

\* A disconnected phone ends a session.
LEMMA DisposeInv ==
    ASSUME PhoneInv, NEW s \in Sessions, Dispose(s), MediaEnds, races' = races
    PROVE  PhoneInv'
<1>1. MediaFollows
  BY MediaEndsFollows DEF PhoneInv
<1> USE PhoneAssumption DEF PhoneInv, Dispose, Becomes, OnCallHangup, EndCall, Unmarked, Ended, MicReady, login, timer
<1>2. TypeOK'
  <2>1. entries' \in Nat
    BY DEF TypeOK
  <2>2. sess' \in [Sessions -> States]
    BY DEF TypeOK, States, LiveStates
  <2>3. /\ {isInCall', timing', incoming', hangupBtn', isMuted', isOnHold'} \subseteq BOOLEAN
        /\ lit' \subseteq {"mute", "hold"} /\ said' \subseteq {"mute", "hold"}
    BY DEF TypeOK
  <2>4. /\ muted' \subseteq Sessions /\ held' \subseteq Sessions
        /\ reinvite' \subseteq Sessions /\ slipped' \subseteq Sessions
    BY <1>1 DEF MediaFollows, TypeOK
  <2> HIDE DEF EndCall, Unmarked
  <2> QED
    BY <2>1, <2>2, <2>3, <2>4 DEF TypeOK
<1>3. InHandIsLive'
  BY DEF InHandIsLive, SingleCall, Live, LiveStates, TypeOK
<1>4. LeftHasBegun'
  BY DEF LeftHasBegun, SlowLogout, Live, LiveStates, TypeOK
<1>5. PanelIsOfReady'
  BY DEF PanelIsOfReady, TypeOK
<1>6. PanelShowsRinging'
  BY DEF PanelShowsRinging, PanelIsOfReady, InHandIsLive, LeftHasBegun, SlowLogout, Reregister,
     Live, LiveStates, TypeOK
<1>7. PromptStates'
  BY DEF PromptStates, SlowMic, TypeOK
<1>8. PromptAnswers'
  BY DEF PromptAnswers, PromptStates, InCallHasSession, LeftHasBegun, SlowLogout, SlowMic, Live,
     LiveStates, TypeOK
<1>9. SingleCall'
  BY DEF SingleCall, InHandIsLive, LeftHasBegun, CallWaiting, SlowLogout, Live, LiveStates, TypeOK
<1>10. OneCallAtATime'
  BY DEF OneCallAtATime, EstablishedIsInHand, SingleCall, PanelShowsRinging, LeftHasBegun,
     PromptStates, InHandIsLive, CallWaiting, SlowMic, SlowLogout, Live, LiveStates, TypeOK
<1>11. EntriesAreOver'
  <2>1. s \notin Over /\ Over \cup {s} \subseteq Over'
    BY DEF Over, TypeOK, Live, LiveStates
  <2>2. ~timing' /\ entries' \in {entries, entries + 1}
    OBVIOUS
  <2> QED
    BY ONLY PhoneInv, races' = races, s \in Sessions, <1>2, <2>1, <2>2, EntriesCounted
<1>12. MediaIsEstablished'
  BY <1>1 DEF MediaFollows, MediaIsEstablished, Live, LiveStates, TypeOK
<1>13. ButtonsShowTheCall'
  BY <1>1 DEF MediaFollows, ButtonsShowTheCall, Shows, MediaIsEstablished, SingleCall, LeftHasBegun,
     InHandIsLive, Controls, CallWaiting, SlowLogout, Live, LiveStates, TypeOK
<1>14. QED
  BY <1>2, <1>3, <1>4, <1>5, <1>6, <1>7, <1>8, <1>9, <1>10, <1>11, <1>12, <1>13

\* The hang-up button.
LEMMA HangupInv ==
    ASSUME PhoneInv, Hangup, MediaEnds, races' = races
    PROVE  PhoneInv'
<1>1. MediaFollows
  BY MediaEndsFollows DEF PhoneInv
<1> USE PhoneAssumption DEF PhoneInv, Hangup, EndCall, Unmarked, HangUpCurrent, Ended, MicReady, login, timer
<1>2. TypeOK'
  <2>1. entries' \in Nat
    BY DEF TypeOK
  <2>2. sess' \in [Sessions -> States]
    BY DEF TypeOK, States, LiveStates
  <2>3. /\ {isInCall', timing', incoming', hangupBtn', isMuted', isOnHold'} \subseteq BOOLEAN
        /\ lit' \subseteq {"mute", "hold"} /\ said' \subseteq {"mute", "hold"}
    BY DEF TypeOK
  <2>4. /\ muted' \subseteq Sessions /\ held' \subseteq Sessions
        /\ reinvite' \subseteq Sessions /\ slipped' \subseteq Sessions
    BY <1>1 DEF MediaFollows, TypeOK
  <2> HIDE DEF EndCall, Unmarked
  <2> QED
    BY <2>1, <2>2, <2>3, <2>4 DEF TypeOK
<1>3. InHandIsLive'
  BY DEF InHandIsLive, SingleCall, Live, LiveStates, TypeOK
<1>4. LeftHasBegun'
  BY DEF LeftHasBegun, SlowLogout, Live, LiveStates, TypeOK
<1>5. PanelIsOfReady'
  BY DEF PanelIsOfReady, TypeOK
<1>6. PanelShowsRinging'
  BY DEF PanelShowsRinging, PanelIsOfReady, InHandIsLive, LeftHasBegun, SlowLogout, Reregister,
     Live, LiveStates, TypeOK
<1>7. PromptStates'
  BY DEF PromptStates, SlowMic, TypeOK
<1>8. PromptAnswers'
  BY DEF PromptAnswers, PromptStates, InCallHasSession, LeftHasBegun, SlowLogout, SlowMic, Live,
     LiveStates, TypeOK
<1>9. SingleCall'
  BY DEF SingleCall, InHandIsLive, LeftHasBegun, CallWaiting, SlowLogout, Live, LiveStates, TypeOK
<1>10. OneCallAtATime'
  BY DEF OneCallAtATime, EstablishedIsInHand, SingleCall, PanelShowsRinging, LeftHasBegun,
     PromptStates, InHandIsLive, CallWaiting, SlowMic, SlowLogout, Live, LiveStates, TypeOK
<1>11. EntriesAreOver'
  <2>1. CASE sess' = sess /\ timing' = timing /\ entries' = entries /\ current' = current
    <3>1. Over' = Over
      BY <2>1 DEF Over, Live
    <3> QED
      BY <2>1, <3>1 DEF EntriesAreOver, CallWaiting, SlowMic, SlowLogout
  <2>2. CASE current = None /\ sess' = sess /\ ~timing'
    <3>1. Over' = Over
      BY <2>2 DEF Over, Live
    <3>2. Quiet => entries' = entries
      BY <2>2 DEF Quiet, EntriesAreOver, CallWaiting, SlowMic, SlowLogout
    <3> QED
      BY <2>2, <3>1, <3>2 DEF Quiet, EntriesAreOver, CallWaiting, SlowMic, SlowLogout
  <2>3. CASE current # None /\ sess' = [sess EXCEPT ![current] = Ended(current)] /\ ~timing'
    <3>1. current \in Sessions /\ current \notin Over /\ Over \cup {current} \subseteq Over'
      BY <2>3 DEF Over, TypeOK, InHandIsLive, Live, LiveStates
    <3>2. ~timing' /\ entries' \in {entries, entries + 1}
      BY <2>3
    <3> QED
      BY ONLY PhoneInv, races' = races, <1>2, <3>1, <3>2, EntriesCounted
  <2> QED
    BY <2>1, <2>2, <2>3
<1>12. MediaIsEstablished'
  BY <1>1 DEF MediaFollows, MediaIsEstablished, Live, LiveStates, TypeOK
<1>13. ButtonsShowTheCall'
  BY <1>1 DEF MediaFollows, ButtonsShowTheCall, Shows, MediaIsEstablished, SingleCall, LeftHasBegun,
     InHandIsLive, Controls, CallWaiting, SlowLogout, Live, LiveStates, TypeOK
<1>14. QED
  BY <1>2, <1>3, <1>4, <1>5, <1>6, <1>7, <1>8, <1>9, <1>10, <1>11, <1>12, <1>13

\* Escape hides the panel.
LEMMA EscapeInv ==
    ASSUME PhoneInv, Escape, MediaEnds, races' = races
    PROVE  PhoneInv'
<1>1. MediaFollows
  BY MediaEndsFollows DEF PhoneInv
<1> USE PhoneAssumption DEF PhoneInv, Escape, MicReady, sip, login, talk, shown, timer
<1>2. TypeOK'
  BY <1>1 DEF MediaFollows, TypeOK, States, LiveStates
<1>3. InHandIsLive'
  BY DEF InHandIsLive, SingleCall, Live, LiveStates, TypeOK
<1>4. LeftHasBegun'
  BY DEF LeftHasBegun, SlowLogout, Live, LiveStates, TypeOK
<1>5. PanelIsOfReady'
  BY DEF PanelIsOfReady, TypeOK
<1>6. PanelShowsRinging'
  BY DEF PanelShowsRinging, PanelIsOfReady, InHandIsLive, LeftHasBegun, SlowLogout, Reregister,
     Live, LiveStates, TypeOK
<1>7. PromptStates'
  BY DEF PromptStates, SlowMic, TypeOK
<1>8. PromptAnswers'
  BY DEF PromptAnswers, PromptStates, InCallHasSession, LeftHasBegun, SlowLogout, SlowMic, Live,
     LiveStates, TypeOK
<1>9. SingleCall'
  BY DEF SingleCall, InHandIsLive, LeftHasBegun, CallWaiting, SlowLogout, Live, LiveStates, TypeOK
<1>10. OneCallAtATime'
  BY DEF OneCallAtATime, EstablishedIsInHand, SingleCall, PanelShowsRinging, LeftHasBegun,
     PromptStates, InHandIsLive, CallWaiting, SlowMic, SlowLogout, Live, LiveStates, TypeOK
<1>11. EntriesAreOver'
  <2>1. Over \subseteq Over' /\ entries' = entries
    BY DEF Over, TypeOK, Live, LiveStates
  <2>2. Quiet /\ timing' => current' # None
    BY DEF Quiet, EntriesAreOver, OneCallAtATime, EstablishedIsInHand, SingleCall, PromptStates,
       InHandIsLive, TypeOK, Live, LiveStates, CallWaiting, SlowMic, SlowLogout
  <2> QED
    BY ONLY PhoneInv, races' = races, <1>2, <2>1, <2>2, EntriesKept
<1>12. MediaIsEstablished'
  BY <1>1 DEF MediaFollows, MediaIsEstablished, Live, LiveStates, TypeOK
<1>13. ButtonsShowTheCall'
  BY <1>1 DEF MediaFollows, ButtonsShowTheCall, Shows, MediaIsEstablished, SingleCall, LeftHasBegun,
     InHandIsLive, Controls, CallWaiting, SlowLogout, Live, LiveStates, TypeOK
<1>14. QED
  BY <1>2, <1>3, <1>4, <1>5, <1>6, <1>7, <1>8, <1>9, <1>10, <1>11, <1>12, <1>13

\* The buttons of a call.
LEMMA ButtonsInv ==
    ASSUME PhoneInv, Buttons, races' = races,
           UNCHANGED <<sip, login, isInCall, timing, entries, timer, panel, answered>>
    PROVE  PhoneInv'
<1> USE DEF PhoneInv, Buttons, sip, login, timer, panel, shown
<1>1. TypeOK'
  BY DEF TypeOK, ToggleMute, ToggleHold, HoldSettles, Marks, With
<1>2. /\ InHandIsLive' /\ LeftHasBegun' /\ PanelIsOfReady' /\ PanelShowsRinging'
      /\ PromptStates' /\ PromptAnswers' /\ SingleCall' /\ OneCallAtATime'
  BY DEF InHandIsLive, LeftHasBegun, PanelIsOfReady, PanelShowsRinging, PromptStates,
     PromptAnswers, SingleCall, OneCallAtATime, EstablishedIsInHand, InCallHasSession, Live,
     CallWaiting, SlowMic, SlowLogout, Reregister
<1>3. EntriesAreOver'
  BY DEF EntriesAreOver, Over, Live, CallWaiting, SlowMic, SlowLogout
<1>4. MediaIsEstablished'
  BY DEF MediaIsEstablished, TypeOK, ToggleMute, ToggleHold, HoldSettles, With
<1>5. ButtonsShowTheCall'
  <2> SUFFICES ASSUME Controls, ~CallWaiting, ~SlowLogout,
                      NEW t \in Sessions \ left, sess[t] = "established"
               PROVE  /\ isMuted' = (t \in muted') /\ Shows("mute", t \in muted)'
                      /\ t \notin slipped' =>
                             isOnHold' = (t \in held') /\ Shows("hold", t \in held)'
    BY DEF ButtonsShowTheCall, Controls, CallWaiting, SlowLogout
  <2>1. t = current
    BY DEF SingleCall, Live, LiveStates
  <2>2. /\ isMuted = (t \in muted) /\ Shows("mute", t \in muted)
        /\ t \notin slipped => isOnHold = (t \in held) /\ Shows("hold", t \in held)
    BY DEF ButtonsShowTheCall
  <2>3. {isMuted, isOnHold} \subseteq BOOLEAN
    BY DEF TypeOK
  <2> HIDE DEF PhoneInv
  <2>4. CASE ToggleMute
    <3>1. /\ muted' = (IF isMuted' THEN muted \cup {t} ELSE muted \ {t}) /\ isMuted' \in BOOLEAN
          /\ lit' = (IF isMuted' THEN lit \cup {"mute"} ELSE lit \ {"mute"})
          /\ said' = (IF isMuted' THEN said \cup {"mute"} ELSE said \ {"mute"})
      BY <2>1, <2>3, <2>4 DEF ToggleMute, Marks, With
    <3>2. isMuted' = (t \in muted') /\ Shows("mute", t \in muted)'
      <4>1. CASE isMuted'
        <5>1. isMuted' = TRUE /\ t \in muted' /\ "mute" \in lit' /\ "mute" \in said'
          BY ONLY <3>1, <4>1
        <5> QED
          BY ONLY <5>1 DEF Shows
      <4>2. CASE ~isMuted'
        BY ONLY <3>1, <4>2 DEF Shows
      <4> QED
        BY <4>1, <4>2
    <3>3. /\ UNCHANGED <<isOnHold, held, slipped>>
          /\ "hold" \in lit' <=> "hold" \in lit
          /\ "hold" \in said' <=> "hold" \in said
      BY <2>4, <3>1 DEF ToggleMute
    <3> QED
      BY ONLY <2>2, <3>2, <3>3 DEF Shows
  <2>5. CASE ToggleHold
    <3>1. /\ isMuted' = isMuted /\ muted' = muted /\ isOnHold' \in BOOLEAN
          /\ lit' = (IF isOnHold' THEN lit \cup {"hold"} ELSE lit \ {"hold"})
          /\ said' = (IF isOnHold' THEN said \cup {"hold"} ELSE said \ {"hold"})
      BY <2>3, <2>5 DEF ToggleHold, Marks, With
    <3>2. /\ "mute" \in lit' <=> "mute" \in lit
          /\ "mute" \in said' <=> "mute" \in said
      BY <3>1
    <3>3. isMuted' = (t \in muted') /\ Shows("mute", t \in muted)'
      BY ONLY <2>2, <3>1, <3>2 DEF Shows
    <3>4. CASE t \in reinvite
      <4>1. t \in slipped'
        BY <2>1, <2>5, <3>4 DEF ToggleHold, With
      <4> QED
        BY ONLY <3>3, <4>1
    <3>5. CASE t \notin reinvite
      <4>1. held' = (IF isOnHold' THEN held \cup {t} ELSE held \ {t})
        BY <2>1, <2>5, <3>5 DEF ToggleHold, With
      <4>2. isOnHold' = (t \in held') /\ Shows("hold", t \in held)'
        <5>1. CASE isOnHold'
          <6>1. isOnHold' = TRUE /\ t \in held' /\ "hold" \in lit' /\ "hold" \in said'
            BY ONLY <3>1, <4>1, <5>1
          <6> QED
            BY ONLY <6>1 DEF Shows
        <5>2. CASE ~isOnHold'
          BY ONLY <3>1, <4>1, <5>2 DEF Shows
        <5> QED
          BY <5>1, <5>2
      <4> QED
        BY ONLY <3>3, <4>2
    <3> QED
      BY <3>4, <3>5
  <2>6. CASE \E s \in Sessions : HoldSettles(s)
    BY <2>1, <2>2, <2>3, <2>6 DEF HoldSettles, With, Shows
  <2> QED
    BY <2>4, <2>5, <2>6
<1>6. QED
  BY <1>1, <1>2, <1>3, <1>4, <1>5

LEMMA NextInv == PhoneInv /\ [Next]_vars => PhoneInv'
<1> SUFFICES ASSUME PhoneInv, [Next]_vars PROVE PhoneInv'
  OBVIOUS
<1>1. CASE UNCHANGED vars
  BY <1>1 DEF vars, sip, login, shown, talk, timer, panel, media, PhoneInv, TypeOK,
     InHandIsLive, LeftHasBegun, PanelIsOfReady, PanelShowsRinging, PromptStates,
     PromptAnswers, SingleCall, OneCallAtATime, EstablishedIsInHand, InCallHasSession,
     EntriesAreOver, Over, MediaIsEstablished, ButtonsShowTheCall, Shows, Live, CallWaiting,
     SlowMic, SlowLogout, Reregister, Controls
<1>2. CASE Next
  <2>1. races' = races
    BY <1>2 DEF Next
  <2>2. ASSUME User, MediaEnds PROVE PhoneInv'
    BY <2>1, <2>2, SipRegisterInv, SipSkipInv, LogoutInv, MakeCallAgainInv, AnswerInv,
       RejectInv, HangupInv, EscapeInv DEF User
  <2>3. ASSUME Registered, MediaEnds PROVE PhoneInv'
    BY <2>1, <2>3, RegisteredInv
  <2>4. ASSUME NEW s \in Sessions, MediaEnds, MakeCall(s) \/ NoAnswerTimer(s) \/ Dispose(s)
        PROVE  PhoneInv'
    BY <2>1, <2>4, MakeCallInv, NoAnswerTimerInv, DisposeInv
  <2>5. ASSUME NEW s \in Sessions, MediaEnds, Settles(s)
        PROVE  PhoneInv'
    BY <2>1, <2>5, InviteSentInv, InviteFailsInv, WithdrawnSettlesInv, AnswerSentInv,
       AnswerFailsInv, RefusedSettlesInv, CanceledSettlesInv DEF Settles
  <2>6. ASSUME NEW s \in Sessions, MediaEnds, Remote(s)
        PROVE  PhoneInv'
    BY <2>1, <2>6, ReceiveInviteInv, CalleeAnswersInv, RemoteEndsInv DEF Remote
  <2>7. ASSUME Buttons, UNCHANGED <<sip, login, isInCall, timing, entries, timer, panel, answered>>
        PROVE  PhoneInv'
    BY <2>1, <2>7, ButtonsInv
  <2> QED
    BY <1>2, <2>2, <2>3, <2>4, <2>5, <2>6, <2>7 DEF Next
<1>3. QED
  BY <1>1, <1>2

-----------------------------------------------------------------------------

\* The inductive invariant of the phone: which call is in hand, what the panel,
\* the buttons and the history know of it, with and without each of the races.
THEOREM PhoneInvariance == Spec => []PhoneInv
BY InitInv, NextInv, PTL DEF Spec

\* The types, for any number of sessions.
THEOREM PhoneTypes == Spec => []TypeOK
BY PhoneInvariance, PTL DEF PhoneInv

\* The incoming-call panel never outlives its call.
THEOREM PanelIsOfACall == Spec => []PanelShowsRinging
BY PhoneInvariance, PTL DEF PhoneInv

\* With a prompt microphone a phone that says it is in a call has one.
THEOREM InCallIsTrue == Spec => []PromptAnswers
BY PhoneInvariance, PTL DEF PhoneInv

\* Without the races a call on which two parties speak is the one hang-up ends.
THEOREM CallsAreInHand == Spec => []OneCallAtATime
BY PhoneInvariance, PTL DEF PhoneInv

\* The colour of the mute and hold buttons shows what SIP.js does to the call,
\* and their texts never hide that a call is muted or held.
THEOREM ButtonsAreTrue == Spec => []ButtonsShowTheCall
BY PhoneInvariance, PTL DEF PhoneInv

\* The history has an entry at most for each call.
THEOREM EntriesAreOfCalls == Spec => []OneEntryPerCall
<1>1. PhoneInv => OneEntryPerCall
  <2> SUFFICES ASSUME PhoneInv, Quiet
               PROVE  entries <= Cardinality({s \in Sessions : sess[s] # "none"})
    BY DEF OneEntryPerCall, Quiet
  <2> DEFINE Begun == {s \in Sessions : sess[s] # "none"}
             m == Cardinality(Over)
             n == Cardinality(Begun)
  <2>1. Over \subseteq Begun /\ Begun \subseteq Sessions /\ Over \subseteq Sessions
    BY DEF Over
  <2> HIDE DEF Begun
  <2>2. m \in Nat /\ n \in Nat /\ m <= n
    BY <2>1, OverIsFinite, FS_Subset
  <2>3. entries \in Nat /\ entries <= m
    BY DEF PhoneInv, TypeOK, EntriesAreOver, Quiet
  <2>4. entries <= n
    BY <2>2, <2>3
  <2> QED
    BY <2>4 DEF Begun
<1>2. QED
  BY <1>1, PhoneInvariance, PTL
=============================================================================
