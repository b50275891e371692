SPECIFICATION Spec
CONSTANTS
    w1 = w1
    w2 = w2
    Workspaces <- MCWorkspaces
    Transformed = transformed
    Hidden = hidden
    Irregular = irregular
    Unparsed = unparsed
    WrongIndex = wrongIndex
    Driver = driver
    Gitlink = gitlink
    Rewritten = rewritten
    Flaws <- MCFlaws
    MaxCommits = 3
    MaxRewinds = 0
PROPERTIES
    PushedIsValidated
SYMMETRY Sym
CHECK_DEADLOCK FALSE
