\* Two Bots and two requests served at a time, without end; one rebuild of the image.
CONSTANTS
    b1 = b1  b2 = b2  r1 = r1  r2 = r2
    Bots = {b1, b2}
    Requests = {r1, r2}
    Budget <- MCBudget
    perComputer <- MCReservation
    MaxUpgrades = 1
SPECIFICATION Spec
SYMMETRY MCSymmetry
INVARIANTS TypeOK SliceHolds
PROPERTIES KeepsCurrent ResetWipes AdoptsNothing
