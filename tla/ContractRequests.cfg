\* Every payload, a deployment or two at any time, up to three requests.
SPECIFICATION Spec
CONSTANTS
    sub = sub
    other = other
    cus = cus
    p1 = p1
    p2 = p2
    small = small
    large = large
    card = card
    card2 = card2
    Missing = Missing
    Ids = {sub, other}
    Customers = {cus}
    Prices = {p1, p2}
    Tiers = {small, large}
    RateCards = {card, card2}
    Hour = 4
    Payloads <- MCPayloads
    Configs <- MCConfigs
    Refusals = {400, 429, 500}
    MaxRedeploys = 2
    MaxSent = 3
CHECK_DEADLOCK FALSE
INVARIANTS SameTermsSameKey KeyFixesRequest StartOnTheHour AnswerDecides
PROPERTIES HandlerDecides RowNamesContract
