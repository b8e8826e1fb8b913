SPECIFICATION Spec
CONSTANTS
    None = None
    Configs <- MCConfigs
INVARIANTS
    OneAnswerEach
    StatementsAgree
PROPERTIES
    NoExpectMissed
    CommandsAnswered
CHECK_DEADLOCK FALSE
