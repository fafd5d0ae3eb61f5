SPECIFICATION Spec
CONSTANTS
    MaxCards = 2
    MaxLists = 2
INVARIANTS
    TableMatchesList
    DeletionKnowsItsRow
    RememberedCardOnFile
    CardHasCustomer
