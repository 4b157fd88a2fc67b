------------------------------ MODULE WebPhone ------------------------------
(***************************************************************************)
(* The browser's phone (backend/gateway/frontend/js/app.js): its flags,    *)
(* its no-answer timer and its buttons, over the sessions of SIP.js's      *)
(* SimpleUser (js/sip.js) and the other parties.  WebSession says who may  *)
(* log in, register and log out when; here these come at any time.         *)
(*                                                                         *)
(* A step is one event of the browser's loop: a click, a SIP message, a    *)
(* timer, or the microphone that a call or an answer waits for, with every *)
(* callback it runs before the next event.  SimpleUser has one session in  *)
(* hand, the latest one made or received, and forgets it when any of its   *)
(* sessions ends; a second session is refused only from two on.            *)
(***************************************************************************)
EXTENDS Integers, FiniteSets

CONSTANTS
    Sessions,     \* bound: calls made or received
    None,         \* no session
    Races         \* races that may happen, see below

ASSUME PhoneAssumption ==
    /\ None \notin Sessions /\ IsFiniteSet(Sessions)
    /\ Races \subseteq {"CallWaiting", "SlowMic", "SlowLogout", "Reregister", "Controls"}

VARIABLES
    races,        \* those of Races that may happen in this behaviour (constant)
    sess,         \* [Sessions -> state of the SIP session]
    left,         \* sessions of a SimpleUser that has been disconnected
    current,      \* simpleUser.session
    simpleUser,   \* is there a SimpleUser?
    registered,   \* has this SimpleUser sent its REGISTER?
    isReady,
    isInCall,
    timing,       \* is callStartTime set?
    callTimeout,  \* the timer makeCall remembers, named after its call
    armed,        \* timers that will fire
    incoming,     \* is the incoming-call panel shown?
    hangupBtn,    \* is the hang-up button shown?
    callSection,  \* is the dial pad shown?
    isMuted,
    isOnHold,
    lit,          \* the buttons, "mute" and "hold", that are coloured
    said,         \* the buttons whose text says that the call is muted, or held
    muted,        \* sessions whose microphone SIP.js has disabled
    held,         \* sessions that SIP.js takes for held
    reinvite,     \* sessions with a re-INVITE under way
    slipped,      \* sessions of which a hold was refused, or asked for too early (history)
    entries,      \* entries 'answered' added to the history
    answered      \* sessions that were ever established (history)

sip   == <<sess, left, current>>
login == <<simpleUser, registered, isReady, callSection>>
shown == <<isMuted, isOnHold, lit, said>>
talk  == <<isInCall, timing, entries, shown>>
timer == <<callTimeout, armed>>
panel == <<incoming, hangupBtn>>
media == <<muted, held, reinvite, slipped>>
vars  == <<races, sip, login, talk, timer, panel, media, answered>>

\* offering: call() waits for the microphone; inviting: the INVITE is sent;
\* ringing: an INVITE came in; accepting: answer() waits for the microphone.
\* When a session ends while call() or answer() waits, that promise is still
\* to settle: call() rejects (withdrawn); answer() rejects (refused), except
\* after a CANCEL (canceled), when SIP.js ignores the error and it resolves.
LiveStates == {"offering", "inviting", "ringing", "accepting", "established"}
States     == LiveStates \cup {"none", "withdrawn", "refused", "canceled", "over"}
Live(s)    == sess[s] \in LiveStates
Managed    == {s \in Sessions \ left : Live(s)}

CallWaiting == "CallWaiting" \in races  \* a call may come in while another one is there
SlowMic     == "SlowMic" \in races      \* a call or an answer may wait for the microphone
SlowLogout  == "SlowLogout" \in races   \* disconnect() ends the sessions later, in the background
Controls    == "Controls" \in races    \* the mute and hold buttons are used
Reregister  == "Reregister" \in races   \* another registration takes a ready phone's place

TypeOK ==
    /\ races \subseteq Races
    /\ sess \in [Sessions -> States]
    /\ left \subseteq Sessions
    /\ current \in Sessions \cup {None}
    /\ {simpleUser, registered, isReady, isInCall, timing, incoming, hangupBtn, callSection} \subseteq BOOLEAN
    /\ registered => isReady
    /\ isReady => simpleUser /\ callSection
    /\ callTimeout \in Sessions \cup {None}
    /\ armed \subseteq Sessions
    /\ {isMuted, isOnHold} \subseteq BOOLEAN
    /\ lit \subseteq {"mute", "hold"} /\ said \subseteq {"mute", "hold"}
    /\ muted \subseteq Sessions /\ held \subseteq Sessions
    /\ reinvite \subseteq Sessions /\ slipped \subseteq Sessions
    /\ entries \in Nat
    /\ answered \subseteq Sessions

Init ==
    /\ races \in {R \in SUBSET Races : "Controls" \in R => Cardinality(R) <= 2}
    /\ sess = [s \in Sessions |-> "none"]
    /\ left = {} /\ current = None
    /\ simpleUser = FALSE /\ registered = FALSE /\ isReady = FALSE /\ callSection = TRUE
    /\ isInCall = FALSE /\ timing = FALSE /\ entries = 0
    /\ callTimeout = None /\ armed = {}
    /\ incoming = FALSE /\ hangupBtn = FALSE
    /\ isMuted = FALSE /\ isOnHold = FALSE /\ lit = {} /\ said = {}
    /\ muted = {} /\ held = {} /\ reinvite = {} /\ slipped = {}
    /\ answered = {}

\* The microphone was allowed before and is there at once, or not.
MicReady == SlowMic \/ (\A s \in Sessions : sess[s] \notin {"offering", "accepting"})

Becomes(s, state) == sess' = [sess EXCEPT ![s] = state]

-----------------------------------------------------------------------------
(* What the callbacks have in common.                                      *)

\* The call is neither muted nor held, and its buttons lose their colour; their
\* texts stay as the last click left them.
Unmarked ==
    /\ isMuted' = FALSE /\ isOnHold' = FALSE
    /\ lit' = {}
    /\ UNCHANGED said

\* Mutant of EndCall: the incoming-call panel is left as it is.
EndCallKeepsPanel ==
    /\ isInCall' = FALSE /\ timing' = FALSE /\ hangupBtn' = FALSE
    /\ Unmarked
    /\ entries' = IF timing THEN entries + 1 ELSE entries
    /\ UNCHANGED incoming

\* endCall; called twice in a row it does the same as once.
EndCall ==
    /\ isInCall' = FALSE /\ Unmarked
    /\ timing' = FALSE
    /\ entries' = IF timing THEN entries + 1 ELSE entries
    /\ incoming' = FALSE
    /\ hangupBtn' = FALSE

\* Mutant of OnCallHangup: only the end of the session in hand ends the call.
OnCurrentHangup(s) ==
    IF s = current THEN current' = None /\ EndCall
    ELSE UNCHANGED <<current, talk, panel>>

\* onCallHangup: SimpleUser forgets its session, whichever one ended.
OnCallHangup(s) ==
    /\ current' = IF s \in left THEN current ELSE None
    /\ EndCall

\* Mutant of InCall: the history entry is made when the call begins.
InCallWithEntry ==
    /\ isInCall' = TRUE /\ timing' = FALSE /\ hangupBtn' = TRUE
    /\ isMuted' = FALSE /\ isOnHold' = FALSE
    /\ entries' = entries + 1
    /\ UNCHANGED said

\* Mutant of InCall: the flags of the buttons are left as they are.
InCallKeepsButtons ==
    /\ isInCall' = TRUE /\ timing' = TRUE /\ hangupBtn' = TRUE
    /\ UNCHANGED <<entries, isMuted, isOnHold, said>>

\* The flags of a call that is on, in onCallAnswered and in makeCall's .then.
InCall ==
    /\ isInCall' = TRUE /\ timing' = TRUE /\ hangupBtn' = TRUE
    /\ isMuted' = FALSE /\ isOnHold' = FALSE
    /\ UNCHANGED <<entries, said>>

\* onCallAnswered: the panel goes, the buttons lose their colour.
OnCallAnswered(s) ==
    /\ Becomes(s, "established")
    /\ answered' = answered \cup {s}
    /\ InCall
    /\ lit' = {}
    /\ incoming' = FALSE

\* clearTimeout(callTimeout), when there is one.
ClearTimeout ==
    /\ armed' = armed \ {callTimeout}
    /\ callTimeout' = None

\* What a session becomes when this side ends it.
Ended(s) == CASE sess[s] = "offering"  -> "withdrawn"
              [] sess[s] = "accepting" -> "refused"
              [] OTHER                 -> "over"

\* simpleUser.hangup(): the session in hand ends; without one the promise is
\* rejected.
HangUpCurrent ==
    /\ sess' = IF current = None THEN sess ELSE [sess EXCEPT ![current] = Ended(current)]
    /\ current' = None

-----------------------------------------------------------------------------
(* Logging in and out.                                                     *)

\* simpleUser.disconnect(): its sessions end, at once or later.
Disconnect ==
    /\ MicReady
    /\ left' = left \cup {s \in Sessions : Live(s)}
    /\ current' = None
    /\ sess' = IF SlowLogout THEN sess
               ELSE [s \in Sessions |-> IF Live(s) THEN Ended(s) ELSE sess[s]]

\* sipRegisterWithCreds: a new SimpleUser takes the place of the old one, whose
\* delegate still hears its sessions end.
SipRegister ==
    /\ ~isReady \/ Reregister
    /\ Disconnect
    /\ simpleUser' = TRUE /\ registered' = FALSE
    /\ IF SlowLogout \/ Managed = {} THEN UNCHANGED <<talk, panel>> ELSE EndCall
    /\ UNCHANGED <<isReady, callSection, timer, answered>>

\* onServerConnect: register() resolves when the REGISTER has been sent.
Registered ==
    /\ simpleUser /\ ~registered
    /\ registered' = TRUE /\ isReady' = TRUE /\ callSection' = TRUE
    /\ UNCHANGED <<sip, simpleUser, talk, timer, panel, answered>>

\* sipSkip: the dial pad without a registration.
SipSkip ==
    /\ ~callSection
    /\ callSection' = TRUE
    /\ UNCHANGED <<sip, simpleUser, registered, isReady, talk, timer, panel, answered>>

\* Mutant of Logout: isReady is not reset.
LogoutStaysReady ==
    /\ simpleUser \/ callSection
    /\ Disconnect
    /\ isInCall' = FALSE /\ timing' = FALSE
    /\ simpleUser' = FALSE /\ registered' = FALSE /\ callSection' = FALSE
    /\ incoming' = FALSE /\ hangupBtn' = FALSE
    /\ UNCHANGED <<isReady, entries, shown, timer, answered>>

\* logout; callTimeout stays as it is.
Logout ==
    /\ simpleUser \/ callSection
    /\ Disconnect
    /\ isInCall' = FALSE /\ isReady' = FALSE /\ timing' = FALSE
    /\ simpleUser' = FALSE /\ registered' = FALSE /\ callSection' = FALSE
    /\ incoming' = FALSE /\ hangupBtn' = FALSE
    /\ UNCHANGED <<entries, shown, timer, answered>>

\* The disconnected SimpleUser ends its sessions, one by one; its delegate is
\* the same code, on the same flags.
Dispose(s) ==
    /\ s \in left /\ Live(s) /\ MicReady
    /\ Becomes(s, Ended(s))
    /\ OnCallHangup(s)
    /\ UNCHANGED <<left, login, timer, answered>>

-----------------------------------------------------------------------------
(* Calling.                                                                *)

\* makeCall: the timer is armed, and call() waits for the microphone.
MakeCall(s) ==
    /\ callSection /\ simpleUser /\ current = None /\ Cardinality(Managed) <= 1
    /\ MicReady
    /\ sess[s] = "none"
    /\ Becomes(s, "offering")
    /\ current' = s
    /\ armed' = armed \cup {s} /\ callTimeout' = s
    /\ UNCHANGED <<left, login, talk, panel, answered>>

\* makeCall while SimpleUser has a session in hand: a second timer takes the
\* place of the first one, call() is rejected, and .catch clears the second.
MakeCallAgain ==
    /\ callSection /\ simpleUser /\ current # None
    /\ MicReady
    /\ callTimeout' = None
    /\ hangupBtn' = FALSE
    /\ UNCHANGED <<sip, login, talk, armed, incoming, answered>>

\* The microphone is there: the INVITE is sent and call() resolves.
InviteSent(s) ==
    /\ sess[s] = "offering"
    /\ Becomes(s, "inviting")
    /\ ClearTimeout
    /\ InCall
    /\ UNCHANGED <<left, current, login, lit, incoming, answered>>

\* The microphone is refused: the session ends, call() rejects.
InviteFails(s) ==
    /\ sess[s] = "offering"
    /\ Becomes(s, "over")
    /\ OnCallHangup(s)
    /\ ClearTimeout
    /\ UNCHANGED <<left, login, answered>>

\* The call was hung up before the microphone was there: call() rejects.
WithdrawnSettles(s) ==
    /\ sess[s] = "withdrawn"
    /\ Becomes(s, "over")
    /\ ClearTimeout
    /\ hangupBtn' = FALSE
    /\ UNCHANGED <<left, current, login, talk, incoming, answered>>

\* 30 s after makeCall: nothing during a call, otherwise "no answer".
NoAnswerTimer(s) ==
    /\ s \in armed /\ MicReady
    /\ armed' = armed \ {s}
    /\ \/ /\ isInCall
          /\ UNCHANGED <<sess, current, talk, panel>>
       \/ /\ ~isInCall /\ current # None
          /\ HangUpCurrent /\ EndCall
       \/ /\ ~isInCall /\ current = None
          /\ hangupBtn' = FALSE
          /\ UNCHANGED <<sess, current, talk, incoming>>
    /\ UNCHANGED <<left, login, callTimeout, answered>>

\* The callee answers: onCallAnswered.
CalleeAnswers(s) ==
    /\ sess[s] = "inviting"
    /\ OnCallAnswered(s)
    /\ UNCHANGED <<left, current, login, timer>>

-----------------------------------------------------------------------------
(* Being called.                                                           *)

\* An INVITE comes in: SimpleUser takes it in hand, and then onCallReceived
\* may ignore it.
ReceiveInvite(s) ==
    /\ registered /\ sess[s] = "none" /\ Cardinality(Managed) <= 1
    /\ MicReady /\ (CallWaiting \/ \A r \in Sessions : ~Live(r))
    /\ Becomes(s, "ringing")
    /\ current' = s
    /\ IF ~isInCall
         THEN incoming' = TRUE /\ hangupBtn' = FALSE
         ELSE UNCHANGED panel
    /\ UNCHANGED <<left, login, talk, timer, answered>>

\* The answer button: answer() waits for the microphone, or is rejected when
\* the session in hand is not a ringing one.
Answer ==
    /\ incoming /\ incoming' = FALSE
    /\ IF current # None /\ sess[current] = "ringing"
         THEN Becomes(current, "accepting") /\ UNCHANGED <<isInCall, hangupBtn>>
         ELSE isInCall' = FALSE /\ hangupBtn' = FALSE /\ UNCHANGED sess
    /\ UNCHANGED <<left, current, login, timing, entries, shown, timer, answered>>

\* The microphone is there: 200 OK, onCallAnswered, and answer() resolves.
AnswerSent(s) ==
    /\ sess[s] = "accepting"
    /\ OnCallAnswered(s)
    /\ UNCHANGED <<left, current, login, timer>>

\* The microphone is refused: the call is rejected, then answer().
AnswerFails(s) ==
    /\ sess[s] = "accepting"
    /\ Becomes(s, "over")
    /\ OnCallHangup(s)
    /\ UNCHANGED <<left, login, timer, answered>>

\* The call ended from this side while answer() waited: answer() rejects.
RefusedSettles(s) ==
    /\ sess[s] = "refused"
    /\ Becomes(s, "over")
    /\ isInCall' = FALSE /\ hangupBtn' = FALSE
    /\ UNCHANGED <<left, current, login, timing, entries, shown, timer, incoming, answered>>

\* The caller gave up while answer() waited: answer() resolves all the same.
CanceledSettles(s) ==
    /\ sess[s] = "canceled"
    /\ Becomes(s, "over")
    /\ isInCall' = TRUE /\ timing' = TRUE /\ hangupBtn' = TRUE
    /\ UNCHANGED <<left, current, login, timer, entries, shown, incoming, answered>>

\* The reject button.
Reject ==
    /\ incoming /\ MicReady
    /\ IF current # None /\ sess[current] = "ringing"
         THEN HangUpCurrent /\ EndCall
         ELSE /\ incoming' = FALSE /\ isInCall' = FALSE /\ hangupBtn' = FALSE
              /\ UNCHANGED <<sess, current, timing, entries, shown>>
    /\ UNCHANGED <<left, login, timer, answered>>

-----------------------------------------------------------------------------
(* The end of a call.                                                      *)

\* The other party rejects, gives up or hangs up.
RemoteEnds(s) ==
    /\ \/ sess[s] \in {"inviting", "ringing", "established"} /\ Becomes(s, "over")
       \/ sess[s] = "accepting" /\ Becomes(s, "canceled")
    /\ MicReady
    /\ OnCallHangup(s)
    /\ UNCHANGED <<left, login, timer, answered>>

\* Mutant of Hangup: the screen is reset, SIP.js is not told.
HangupScreenOnly ==
    /\ (isInCall \/ hangupBtn) /\ MicReady
    /\ EndCall
    /\ UNCHANGED <<sip, login, timer, answered>>

\* The hang-up button, or Escape when there is something to hang up.
Hangup ==
    /\ (isInCall \/ hangupBtn) /\ MicReady
    /\ HangUpCurrent
    /\ EndCall
    /\ UNCHANGED <<left, login, timer, answered>>

\* Escape otherwise only hides the incoming-call panel.
Escape ==
    /\ incoming /\ ~isInCall /\ ~hangupBtn /\ MicReady
    /\ incoming' = FALSE
    /\ UNCHANGED <<sip, login, talk, timer, hangupBtn, answered>>

-----------------------------------------------------------------------------
(* The buttons of a call.                                                  *)

With(S, s, b) == IF b THEN S \cup {s} ELSE S \ {s}

\* A click sets the colour and the text of a button.
Marks(button, b) == lit' = With(lit, button, b) /\ said' = With(said, button, b)

\* toggleMute: SIP.js does nothing but log when the call is not established.
ToggleMute ==
    /\ Controls /\ current # None
    /\ isMuted' = ~isMuted
    /\ Marks("mute", isMuted')
    /\ muted' = IF sess[current] = "established" THEN With(muted, current, isMuted') ELSE muted
    /\ UNCHANGED <<isOnHold, held, reinvite, slipped>>

\* toggleHold: nothing to do, or a re-INVITE, which SIP.js refuses to send while
\* another one is under way.
ToggleHold ==
    /\ Controls /\ current # None
    /\ isOnHold' = ~isOnHold
    /\ Marks("hold", isOnHold')
    /\ IF sess[current] = "established" /\ current \notin reinvite
         THEN /\ held' = With(held, current, isOnHold')
              /\ reinvite' = IF held' = held THEN reinvite ELSE reinvite \cup {current}
              /\ UNCHANGED slipped
         ELSE /\ slipped' = With(slipped, current, sess[current] = "established")
              /\ UNCHANGED <<held, reinvite>>
    /\ UNCHANGED <<isMuted, muted>>

\* The other party accepts the re-INVITE, or refuses it.
HoldSettles(s) ==
    /\ s \in reinvite
    /\ reinvite' = reinvite \ {s}
    /\ \/ UNCHANGED <<held, slipped>>
       \/ held' = With(held, s, s \notin held) /\ slipped' = slipped \cup {s}
    /\ UNCHANGED <<shown, muted>>

\* SessionManager forgets a session that ends.
MediaEnds ==
    LET Still(S) == {s \in S : sess'[s] \in LiveStates}
    IN /\ muted' = Still(muted) /\ held' = Still(held)
       /\ reinvite' = Still(reinvite) /\ slipped' = Still(slipped)

Buttons == ToggleMute \/ ToggleHold \/ \E s \in Sessions : HoldSettles(s)

-----------------------------------------------------------------------------

User == SipRegister \/ SipSkip \/ Logout \/ MakeCallAgain
          \/ Answer \/ Reject \/ Hangup \/ Escape

Settles(s) == InviteSent(s) \/ InviteFails(s) \/ WithdrawnSettles(s) \/ AnswerSent(s)
                \/ AnswerFails(s) \/ RefusedSettles(s) \/ CanceledSettles(s)
Remote(s)  == ReceiveInvite(s) \/ CalleeAnswers(s) \/ RemoteEnds(s)

Next ==
    /\ \/ User /\ MediaEnds
       \/ Registered /\ MediaEnds
       \/ \E s \in Sessions :
            /\ MakeCall(s) \/ NoAnswerTimer(s) \/ Dispose(s) \/ Settles(s) \/ Remote(s)
            /\ MediaEnds
       \/ Buttons /\ UNCHANGED <<sip, login, isInCall, timing, entries, timer, panel, answered>>
    /\ UNCHANGED races

Spec == Init /\ [][Next]_vars

-----------------------------------------------------------------------------
(* Properties.                                                             *)

\* The incoming-call panel is about a call that rings and that the answer
\* button would answer: whatever other call came or went, was hung up, timed
\* out or was disposed of, the panel never outlives its call.  Only while a
\* phone that was replaced still ends its calls may it be about one of those.
PanelShowsRinging ==
    incoming => \/ current # None /\ sess[current] = "ringing"
                \/ Reregister /\ \E s \in left : sess[s] = "ringing"

\* The history counts a call once, although endCall runs for every session
\* that ends and runs again after hangup(), and the flags are set once when
\* the INVITE is sent and again when it is answered: when no second call comes
\* in during the first, the microphone is there at once and a logout ends its
\* sessions at once.
OneEntryPerCall ==
    ~CallWaiting /\ ~SlowMic /\ ~SlowLogout =>
        entries <= Cardinality({s \in Sessions : sess[s] # "none"})

\* README.md:213 ("it can be hung up from either end"): a call on which two
\* parties speak is the one that hang-up ends, and the phone knows of it.
EstablishedIsInHand ==
    \A s \in Sessions \ left : sess[s] = "established" => current = s /\ isInCall

\* app.js:762: a phone that says it is in a call has one.  The flag makes the
\* phone ignore every incoming call.
InCallHasSession == isInCall => \E s \in Sessions : Live(s)

\* Both of them hold, whatever is clicked, fails or times out, when the
\* microphone is there at once: the first if besides no second call comes in
\* during the first and a logout ends its sessions at once.
OneCallAtATime == ~CallWaiting /\ ~SlowMic /\ ~SlowLogout => EstablishedIsInHand
PromptAnswers  == ~SlowMic => InCallHasSession

\* README.md:221-222 (the red and the amber indicator): the colour of the buttons
\* is what the other party gets.  A call that is not muted has no red button, and
\* one that is has it and the text says so too, and the same of a hold, unless
\* the other party refused it or it was asked for while another one was under
\* way.  The converse of the texts fails: they stay from an earlier call.  With a
\* second call, or the calls of a phone that was replaced or logged out, still
\* there, the buttons act on one call and show another's.
Shows(button, on) == /\ (button \in lit) = on
                     /\ on => button \in said

ButtonsShowTheCall ==
    Controls /\ ~CallWaiting /\ ~SlowLogout =>
        \A s \in Sessions \ left : sess[s] = "established" =>
            /\ isMuted = (s \in muted) /\ Shows("mute", s \in muted)
            /\ s \notin slipped => isOnHold = (s \in held) /\ Shows("hold", s \in held)

-----------------------------------------------------------------------------
(* What makes these inductive.                                             *)

\* The session in hand is one of this SimpleUser, and not over.
InHandIsLive == current # None => current \notin left /\ Live(current)

\* What a disconnected SimpleUser leaves had begun, and is over unless its
\* sessions end in the background.
LeftHasBegun == \A s \in left : sess[s] # "none" /\ (~SlowLogout => ~Live(s))

\* Only a phone that is ready shows the panel.
PanelIsOfReady == incoming => isReady

\* Nothing ends while a prompt microphone is waited for.
PromptStates == ~SlowMic => \A s \in Sessions : sess[s] \notin {"withdrawn", "refused", "canceled"}

\* Without call waiting and slow logouts the one call there is is in hand.
SingleCall == ~CallWaiting /\ ~SlowLogout => \A s \in Sessions : Live(s) => s = current

\* What the history may count: calls that are over, and the one in hand.
Over == {s \in Sessions : sess[s] # "none" /\ ~Live(s)}
EntriesAreOver ==
    ~CallWaiting /\ ~SlowMic /\ ~SlowLogout =>
        /\ timing => current # None
        /\ entries <= Cardinality(Over)

\* SIP.js mutes and holds established calls only.
MediaIsEstablished == \A s \in muted \cup held \cup reinvite \cup slipped : sess[s] = "established"

PhoneInv ==
    /\ TypeOK
    /\ InHandIsLive /\ LeftHasBegun /\ PanelIsOfReady /\ PanelShowsRinging
    /\ PromptStates /\ PromptAnswers
    /\ SingleCall /\ OneCallAtATime
    /\ EntriesAreOver
    /\ MediaIsEstablished /\ ButtonsShowTheCall
=============================================================================
