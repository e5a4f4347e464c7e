SPECIFICATION Spec
CONSTANTS
    Requests <- SmallRequests
    Cost = 5
    Width = 256
INVARIANTS TypeOK FeeNotOverpaid ChangeIsWhatIsLeft FeeIsThatOfTheTransaction GivesUpOnlyWithoutFunds
CHECK_DEADLOCK FALSE
