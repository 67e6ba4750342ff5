SPECIFICATION OnboardingSpec
CONSTANTS
    o1 = o1
    o2 = o2
    u1 = u1
    u2 = u2
    u3 = u3
    Handshake = {h1, h2}
    SfUser = {u1, u2, u3}
    Installer = {u1, u2}
    SfOrg = {o1, o2}
    OrgOf <- MCOrgOf
    NameOf <- MCNameOf
    Earlier <- MCEarlier
    App = {p1}
    Unset = Unset
    MaxResets = 2
INVARIANTS
    FinishedMeansAdmin
    SetupNotLost
PROPERTIES
    BoundOnce
    DeploymentIsSettled
CHECK_DEADLOCK FALSE
