SPECIFICATION Spec
CONSTANTS
    c1 = c1
    c2 = c2
    c3 = c3
    c4 = c4
    low = low
    t1 = t1
    t2 = t2
    t3 = t3
    NoContact = NoContact
    Contact <- MCContact
    Bucket = {low}
    BucketOf <- MCBucketOf
    K = 2
    Thread <- MCThread
    MaxTime = 2
SYMMETRY Symmetry
INVARIANTS
    BucketWithinK
