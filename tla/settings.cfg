\* Two rotations of the secret with calls and a test mail in flight, and two
\* requests that rotate a password; two requests at a time on three rules with
\* caps of one.
SPECIFICATION SettingsSpec
CONSTANTS
    Lookups = {lookup}
    Logins = {login}
    MaxSecret = 3
    Rotators = {q1, q2}
    MaxPassword = 3
    None = None
    Slots = {r1, r2}
    RuleIds = {i1, i2, i3}
    MaxRules = 1
    MaxPolicies = 1
    Edits <- SomeEdits
SYMMETRY Symmetry
INVARIANTS
    RotationInv
    TestsPass
    ShownPasswordWorks
    StoreInv
    CapSlack
    InvalidOnlyByRace
PROPERTIES
    LoginServed
CHECK_DEADLOCK FALSE
