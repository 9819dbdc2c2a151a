SPECIFICATION Spec
SYMMETRY Interchangeable
CONSTANTS
    Agents = {a1, a2}
    FormAreas = {"pension", "standard"}
    FormFaults = {"insert", "delete", "answer"}
    Savers = {s1, s2}
    NewRows <- Rows3
    Areas = {"pension", "standard"}
    DbFaults = {"save", "read"}
    MaxRetries = 5
    GlobalTimeout = 60
    CallTimeout = 40
    CallTimes = {1, 30, 50}
    MaxOperations = 3
    PhraseWords = 2
    MaxSentences = 4
INVARIANTS
    TypeOK
    NoteKeepsSentences
    NewestOfArea
    NoteFromTwoAnswers
    PromptsOfArea
    QuestionTakesOneCallMore
PROPERTIES
    SavedOrLeftInForm
CHECK_DEADLOCK FALSE
