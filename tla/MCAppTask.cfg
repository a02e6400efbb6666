\* Two senders, two messages, queues of equal length as in silent_ota.c:36.
SPECIFICATION Spec
CONSTANTS
    Senders = {bt, wdg}
    Msg = {validFw, resetWdg}
    Nothing = Nothing
    MaxIo = 3
    MaxEvt = 3
INVARIANTS
    TypeOK
    Paired
    EvtNeverFull
    NeverMisses
    NoneStranded
PROPERTIES
    EveryMsgHandled
    PipeRefinement
