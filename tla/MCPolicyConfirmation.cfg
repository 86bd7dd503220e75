SPECIFICATION Spec
CONSTANTS
    N = 1
    MaxMessages = 2
PROPERTY
    PolicyAnswerResumes
