SPECIFICATION IdentitySpec
CONSTANTS
    Session = {s1, s2, s3}
    MaxInt = 7
    RequestedPIDs <- MCRequested
    MaxLogins = 5
SYMMETRY SessionSymmetry
INVARIANTS
    IdentityTypeOK
    CanonicalIdentity
PROPERTIES
    FreshProvision
    KeepsPersona
