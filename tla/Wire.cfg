SPECIFICATION Spec
CONSTANTS
    PNum = 1
    MaxTxid = 5
    None = None
    Key = {"k"}
    Value = {"v"}
    Command <- Commands
    Client = {c1, c2}
    spell <- SpellWord
    MaxLeft = 1
    survives <- Surviving
    NumberLen = 2
INVARIANTS
    TypeOK
    NothingLeft
    WordsWhole
    FitsCommand
PROPERTIES
    ImplementsParticipant
    AnswerWhole
SYMMETRY Clients
