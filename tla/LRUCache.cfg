\* Four keys in a cache of three, two values, six uses: every key can be
\* evicted, hit, updated in place and come back.
CONSTANTS
    Key = {k1, k2, k3, k4}
    Value = {v1, v2}
    maxSize = 3
    MaxUses = 6
SPECIFICATION Spec
INVARIANT OrderedByUse
PROPERTIES EvictsLeastRecentlyUsed ImplementsBoundedCache
