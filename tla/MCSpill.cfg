CONSTANTS
    c1 = c1
    c2 = c2
    Conns <- TwoConns
    Icap <- OneIcap
    Enabled = TRUE
    Threshold = 2
    MaxObject = 4
    MaxTotal = 5
    Block = 2
    MaxSize = 5
SPECIFICATION Spec
INVARIANTS BudgetIsExact WithinBudgets WholeOrShort
PROPERTY ImplementsLedger
