CONSTANTS
    c1 = c1
    c2 = c2
    c3 = c3
    u1 = u1
    u2 = u2
    house = house
    custom = custom
    Callers = {c1, c2, c3}
    Requests <- MCRequests
    Responses <- MCResponses
    Prompts <- MCPrompts
    DefaultVisionPrompt = house
    NoPrompt = NoPrompt
    NaN = NaN
    NoNumber = NoNumber
SPECIFICATION Spec
SYMMETRY symmetry
INVARIANTS ResultHasCause RejectionAudited AskedOnceSettled
PROPERTIES VerdictSettles
