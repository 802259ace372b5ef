SPECIFICATION Spec
CONSTANTS
    t1 = t1
    t2 = t2
    ada = ada
    bob = bob
    f = f
    g = g
    FieldName = {f, g}
    Text <- MCText
    Empty = ""
    Blank = {"", " "}
    Length <- MCLength
    Number <- MCNumber
    NaN = NaN
    Day <- MCDay
    Shape <- MCShape
    Tab = {t1, t2}
    Menus <- MCMenus
    Abilities <- MCAbilities
    None = None
    MaxKey = 2
    MaxTokens = 3
    MaxOps = 2
INVARIANTS Admitted NoFalseRefusal OneAnswer NoSilence ValidatedRight
