CONSTANTS
    Users = {u0, u1}
    Names = {n1, n2}
    Certs = {c1, c2}
    Nobody = Nobody
    Pwds = {p}
    Nil = Nil
    Keep = Keep
    Root = u0
    Regimes <- AllRegimes
SPECIFICATION Spec
SYMMETRY CertAndNameSymmetry
INVARIANTS DirectoriesAgree AcceptedIffKnown
PROPERTY LoginsReachUsers
