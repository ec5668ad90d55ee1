SPECIFICATION Spec
CONSTANTS
    IdBits = 4
    K = 2
    Owner <- MCOwner
    Contact <- MCContact
    Bucket <- MCBucket
    BucketOf <- MCBucketOf
INVARIANTS
    CloserByFirstDifference
    ReturnsKContacts
    ReturnsClosestContact
