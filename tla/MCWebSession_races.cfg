SPECIFICATION FairSpec
CONSTANTS
    None = None
    Users = {u1, u2}
    Flows = {f1, f2}
    Races = {{}, {"TwoLogins"}, {"SlowRestore"}, {"SlowBody"}, {"LateLogout", "TwoLogins"}, {"SlowRestore", "SlowBody"}, {"Typing"}}
    Unusual <- MCUnusual
INVARIANTS LoggedOutHasNoPhone PageIsOneUsers 
PROPERTIES BlankPageEnds
