CONSTANTS
    latte = latte
    mocha = mocha
    Demo = demo
    Items <- MCItems
    Notes <- MCNotes
    MaxCarts = 2
    MaxSlips = 1
SPECIFICATION CafeSpec
CHECK_DEADLOCK FALSE
INVARIANTS
    YesTakesOffers
