SPECIFICATION Spec
CONSTANTS
    Null = Null
    Cases <- MCCases
    Load <- MCLoad
    Rules <- MCRules
CHECK_DEADLOCK FALSE
INVARIANTS
    SettingsAreIndependent
    NoLookAhead
    AccountsAgree
    SessionLimitsHold
    FoldsNeverLeak
    WorseEvidenceNeverPasses
    PlansAreExact
    AcceptedRulesRun
    EvidenceIsRevalidated
    PricesAreWhole
