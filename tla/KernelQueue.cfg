SPECIFICATION Spec
CONSTANTS
    Capacity = 3
    IndexLimit = 5
    Foreign = Foreign
    NoTask = NoTask
    Values = {a, b}
    a = a
    b = b
    Blank = Blank
    Sender = Sender
    Reciever = Reciever
CHECK_DEADLOCK FALSE
INVARIANTS
    CountersAgree
PROPERTIES
    DequeUntilBroken
