\* The instance of Pairing.cfg: a code is spent and the token is not stored.
CONSTANTS
    dash1 = dash1
    dash2 = dash2
    app = app
    port1 = port1
    port2 = port2
    site = site
    Sessions = {s1, s2}
    Foreign = {f}
    Codes = {dash1, dash2, app}
    DashCodes = {dash1, dash2}
    Home <- MCHome
    Origins = {port1, port2, site}
    NoOrigin = NoOrigin
    Requests = {r1, r2}
    Commands = {k1}
    Nothing = Nothing
SPECIFICATION Spec
SYMMETRY PairingSymmetry
CHECK_DEADLOCK FALSE
INVARIANT SpentCodeHasToken
