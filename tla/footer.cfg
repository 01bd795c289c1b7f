SPECIFICATION FooterSpec
CONSTANTS
    Texts <- MCTexts
    Forecasts <- MCForecasts
    Slots = 3
    Rounds = 2
    Period <- MCPeriod
    MaxPeriod = 3
    Wide <- MCWide
INVARIANT FooterInv
PROPERTIES
    PeriodKept
    MessagesServed
