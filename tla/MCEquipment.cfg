SPECIFICATION EquipmentSpec
CONSTANTS
    Rows = 2
    Price <- MCPrice
    MaxQty = 2
    MaxVisits = 2
    MaxScreens = 1
INVARIANTS
    ChargedLessHasCause
    ChargedMoreHasCause
