SPECIFICATION Spec
CONSTANTS
    Failer <- MCFailer
    Resource <- MCResource
    Committer = "commit"
    CauseOf <- MCCauseOf
    Reader = {1}
    Stage = {"source", "output"}
INVARIANTS
    AnswersAreTrue
PROPERTIES
    FinalInfoIsFinal
    OutcomeIsStable
    FinalInfoIsCached
