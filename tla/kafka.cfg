SPECIFICATION Spec
CHECK_DEADLOCK FALSE
CONSTANTS
    c1 = c1
    c2 = c2
    p1 = p1
    p2 = p2
    None = None
    Seeds <- MCSeeds
    Expects <- MCExpects
    Consumers <- MCConsumers
    Producers <- MCProducers
    Subscribes <- MCSubscribes
    Offers <- MCOffers
    Supports <- MCSupports
    Negotiates <- MCNegotiates
    Batches <- MCBatches
    MaxRestarts <- MCRestarts
INVARIANTS NobodyStuck EveryProduceAccounted
PROPERTY SeedsHandled
