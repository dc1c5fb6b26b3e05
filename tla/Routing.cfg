\* One device, every kind of token, form and configuration, one thread.
CONSTANTS
    Workers = {w1}
    Devices <- OneDevice
    Forms <- AllForms
    OldRows <- Old
    Mortal <- Dying
    NoOne = NoOne
SPECIFICATION FairSpec
INVARIANTS TypeOK EveryRowIsDeliverable PushesReachTheirIssuer OnlyLegacyMistaken
PROPERTIES DeadTokensForgotten
