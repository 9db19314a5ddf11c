\* Expenses of any amount that the prompt takes.
CONSTANTS
    Categories = {food, rent}
    Amounts = {1, 2}
    NaN = NaN
    MonthLength = 2
    MaxAdds = 3
    Mishaps = {"nan"}
SPECIFICATION ExpensesSpec
INVARIANT ExpensesSurvive
CHECK_DEADLOCK FALSE
