\* Every combination of -n, -c, -t, -r, --qps and -D in MCOrchestrator; two
\* QPS tick slots; RTTs of 0..2 us, up to three samples over all workers.
CONSTANTS
    Options <- SmallOptions
    MaxThreads = 3
    QpsSlots = 2
    RttLimit = 3
    MaxSamples = 3
SPECIFICATION Spec
INVARIANTS TypeOK FairShares WorkersRunnable PercentileNearRank
