CONSTANTS
    t1 = t1  t2 = t2  a = a  b = b  c = c  d = d  e = e  p = p  s = s  z = z
    MaxV = 200  ErrorSpan = 50
    Threads <- OneThread
    Workloads <- MCWorkloads
    Queried = {a}
    SanityCode <- MCSanity
    DualSparse = {d}  NoAct <- MCNoAct  NoWt <- MCNoWt
    Extrapolated = {e}  Ch32 <- MCCh32  Ch64 <- MCCh64  Channels <- MCChannels
    NNRaw <- MCNNRaw
    HighThreshold = 140
    Factor <- PassThrough
    Fixed <- MCFixed
    Theoretical <- MCTheoretical
    Profiled <- MCProfiled
    HasHttp = TRUE
    None = None
SPECIFICATION Spec
INVARIANT NNLabelTruthful
