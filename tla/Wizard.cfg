SPECIFICATION FairWizardSpec
CONSTANTS
    u1 = u1
    u2 = u2
    Users = {u1, u2}
    Attempts <- Tries
    MaxClicks = 2
    MaxVisits = 2
    Others = {u2}
    InvitationMode = TRUE
INVARIANTS WizardTypeOK OverlayHasDeployment
PROPERTIES DeploysValidForm  EveryClickIsAnswered
CHECK_DEADLOCK FALSE
