\* Shows that HardAutoFires does not hold of the code.
CONSTANTS
    new = new ready = ready work = work done = done lost = lost
    boot = boot go = go nudge = nudge finish = finish
    p0 = p0 p1 = p1 None = None
    State <- MCState
    Event <- MCEvent
    Initial = new
    Finals = {done}
    Transitions <- MCTransitions
    Payload = {p0}
    DefaultPayload = p0
    Configs <- Standalone
    MailboxLimit = 1
SPECIFICATION Spec
INVARIANT
    HardAutoFires
