SPECIFICATION Spec
CONSTANTS
    p1 = p1
    p2 = p2
    jael = jael
    jeremiah = jeremiah
    Paras = {p1, p2}
    Texts <- MCTexts
    Characters = {jael, jeremiah}
    Identities <- MCIdentities
    Books <- MCBooks
    j1 = j1
    j2 = j2
    Jobs = {j1, j2}
    TextEdits <- MCTextEdits
    NameEdits <- MCNameEdits
    MaxEdits = 1
    Wirings = {TRUE, FALSE}
    NoText = NoText
    Nobody = Nobody
    NoBasis = NoBasis
SYMMETRY JobSymmetry
CHECK_DEADLOCK FALSE
INVARIANTS
    VerdictsFollowTheNames
    RollupIsView
PROPERTY CheckedIsJudged
