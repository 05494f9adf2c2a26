CONSTANTS
    b1 = b1
    b2 = b2
    here = here
    shop1 = shop1
    shop2 = shop2
    None = None
    Boxes <- MCBoxes
    Engraved <- MCEngraved
    Values <- MCValues
    Messages <- MCMessages
    MaxDrafts = 1
    MaxOrders = 2
    MaxFaults = 1
    Baskets = {b1}
    loose = loose
    Loose = loose
    once = once
    again = again
    Terms = {once, again}
    PayKeys <- MCPayKeys
    MaxHops = 1
    MaxBatch = 2
    MaxTurns = 2
    MaxTickets = 2
    MaxSessions = 2
    MaxCuts = 2
    latte = latte
    mocha = mocha
    Demo = demo
    Items <- MCItems
    Notes <- MCNotes
    MaxCarts = 2
    MaxSlips = 1
    Businesses = {hazina, palm, lily}
    Hazina = hazina
    HazinaClaims = FALSE
    DefaultSlug = nowhere
    Nowhere = nowhere
    MaxMessages = 3
    MaxChanges = 2
    Shops = {shop1, shop2}
    Dishes = {1, 2, 3}
    Category <- MCCategory
    Prices = {1, 2, 3, 4}
    OpeningMenu <- MCOpeningMenu
    QuoteTurns = {u1, u2}
    Questions <- MCQuestions
    Drafts <- MCDrafts
    DemoPrice = 1
    QuoteTtl = 2
    QueryTime = 1
    MenuKeep = 1
    MaxQuoteTime = 3
    Repricings <- MCRepricings
    MaxPriceEdits = 1
    MaxQuestions = 2
    Pieces <- MCPieces
    GiftBoxes <- MCGiftBoxes
    Budgets = {0, 1, 2, 3, 4}
SPECIFICATION CheckoutSpec
CHECK_DEADLOCK FALSE
INVARIANTS
    DraftsAreSound
    OrdersAreSound
    ToolsActOnce
    PromptsAreTracked
    SwitchSticks
    PricesAreRight
    GiftsSuit
