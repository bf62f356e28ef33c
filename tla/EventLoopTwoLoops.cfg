SPECIFICATION Spec
CONSTANTS
    Loops = {l1, l2}
    Users = {u1}
    Tasks = {x1, x2}
    Channels = {}
    Wakeup = Wakeup
    None = None
INVARIANT RunsInSpecificLoop
