\* Two threads, two parsers, handle 0 never issued: one panics, one is slow.
CONSTANTS
    Callers = {c1, c2}
    Nobody = Nobody
    NoText = NoText
    Grammars <- MCGrammars
    Inputs <- MCInputs
    Unreadable <- MCUnreadable
    Installable <- MCInstallable
    Verdict <- MCVerdict
    Slow = {"long"}
    MaxHandles = 2
SPECIFICATION Spec
INVARIANTS
    TypeOK
    OneParseAtATime
    HeldByUser
PROPERTIES
    HandleNamesOneParser
    ImplementsService
    CallsReturn
