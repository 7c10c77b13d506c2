SPECIFICATION Spec
CONSTANTS
    Callers = {q1, q2}
    Wallets = {a1, a2}
    Admins = {a1, a2}
    AdminNonces = {n1, n2}
    WalletNonces = {w1}
    MaxChallenges = 2
    Keys = {k1}
    Bodies = {x, y}
    MaxReservations = 2
INVARIANTS
    OneSessionPerChallenge
    HolderKeepsReservation
    ReplayMatches
SYMMETRY Symmetry
