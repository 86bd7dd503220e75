SPECIFICATION Spec
CONSTANTS
    N = 2
    MaxMessages = 3
INVARIANTS
    TypeOK
    RunsAreApproved
    SiblingsRunOnce
    NothingForgotten
PROPERTIES
    CredentialOfTheTurn
    AnswerResumes
