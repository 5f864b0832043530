SPECIFICATION PricesSpec
CONSTANTS
    Rows = {model}
    Texts <- MCTexts
    PriceOf <- MCPriceOf
    Promos <- MCPromos
    RegularOf <- MCRegularOf
    NoPrice = 0
    None = None
    MaxPolls = 2
    MaxExtracts = 2
    MaxEdits = 3
INVARIANTS PricesTypeOK SkipIsSafe FeedTellsCards ProvenanceKept
PROPERTY LostForAReason
CHECK_DEADLOCK FALSE
