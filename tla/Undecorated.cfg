CONSTANTS
    r1 = r1
    r2 = r2
    r3 = r3
    root = root
    manager = manager
    affiliate = affiliate
    Reqs = {r1, r2, r3}
    Roster <- MCRoster
    Nobody = Nobody
    Permissions = {p1}
    Nothing = Nothing
    Traffic <- QueryLoads
    Everyone = Everyone
    Posted <- MCPosted
    Keep = Keep
    StatusInputs <- MCStatusInputs
    Affiliates = {affiliate}
    Managed <- MCManaged
    Seniority <- MCSeniority
    CampaignOwner <- MCCampaignOwner
    Take = 2
    Codes = {"k"}
    Stored <- MCStored
SPECIFICATION Spec
INVARIANT UndecoratedFieldsAreAccepted
CHECK_DEADLOCK FALSE
