CONSTANTS
    n1 = n1
    minute = minute
    short = short
    None = None
    Names = {n1}
    Settings = {minute, short}
    DefaultSettings = minute
    HTTPSOs <- OneApp
    MaxChanges = 2
    Requests = {r1}
    RequestKeys <- RootPath
SPECIFICATION Spec
INVARIANT NoPanic
