CONSTANTS
    r1 = r1
    r2 = r2
    r3 = r3
    root = root
    manager = manager
    affiliate = affiliate
    Reqs = {r1, r2, r3}
    Roster <- MCRoster
    Nobody = Nobody
    Permissions = {p1}
    Nothing = Nothing
    Traffic <- MCTraffic
    Everyone = Everyone
    Posted <- MCPosted
    Keep = Keep
    StatusInputs <- MCStatusInputs
    Affiliates = {affiliate}
    Managed <- MCManaged
    Seniority <- MCSeniority
    CampaignOwner <- MCCampaignOwner
    Take = 2
    Codes = {"k"}
    Stored <- MCStored
SPECIFICATION FairSpec
INVARIANTS
    TypeOK
    AnsweredMarksAreStored
    AnswersArePrivate
    SettledIsDated
    WalkMissesNothing
PROPERTIES
    ImplementsAuthority
    PowerComesFromSuperAdmins
    RequestsEnd
CHECK_DEADLOCK FALSE
