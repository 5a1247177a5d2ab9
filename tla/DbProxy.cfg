CONSTANTS
    KeyOrder <- MCKeyOrder
    Settable = {"Listen", "extra"}
    Plain = {"v1", "v2"}
    Injected = "aesKey"
    MaxSets = 2
    DbTexts <- MCDbTexts
    CacheTexts <- MCCacheTexts
    Comma = ","
SPECIFICATION Spec
INVARIANTS ExplodeSplits NeverUndefined SavedReadsBack
PROPERTY ServesWhatWasSet
