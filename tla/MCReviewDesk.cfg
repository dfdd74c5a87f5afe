CONSTANTS
    Docs = {"d1", "d2"}
    Paths = {"p", "q", "r"}
    FirstPath <- MCFirstPath
    Texts <- MCTexts
    Content <- MCContent
    Noted = {"code"}
    Ids = {"n", "m", "c", "e"}
    Earlier <- MCEarlier
    Colleague <- MCColleague
    MaxCommands = 2
    MaxEdits = 1
    MaxRenames = 2
    Commands = {1, 2, 3}
    Steps = 2
    Programs <- MCPrograms
    Rules <- MCRules
    SinksOf <- MCSinksOf
    MaxAnswers = 2
SPECIFICATION MCSpec
INVARIANTS NotesFollowRenames RerunAsksWhatIsShown VerifiedFlowsLeadTheQueue FlowsFromEntriesAreQueued
PROPERTIES FoundWhereItStands MoreEvidenceHidesNothing
CHECK_DEADLOCK FALSE
