SPECIFICATION Spec
CONSTANTS
    None = None
    Sessions = {s1, s2, s3}
    Races = {"CallWaiting", "SlowMic", "SlowLogout", "Reregister", "Controls"}
SYMMETRY Symmetry
INVARIANTS TypeOK PanelShowsRinging PromptAnswers OneCallAtATime OneEntryPerCall ButtonsShowTheCall
