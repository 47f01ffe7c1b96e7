\* What the hourly sweep removes and what it leaves, with the clock and the sweeps fair.
SPECIFICATION FairSpec
CONSTANTS
    None = None
    forever = forever
    long = long
    short = short
    d1 = d1
    i1 = i1
    Recipes = {forever, long, short}
    Digests = {d1}
    Imports = {i1}
    Ttl <- MCTtl
    Fallback = 1
    Period = 2
PROPERTIES
    EvictionsExplained
    BytesAreDisposable
