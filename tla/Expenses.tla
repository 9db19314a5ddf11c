------------------------------- MODULE Expenses -------------------------------
(***************************************************************************)
(* The expense tracker (01-rust-fundamentals/src): a list in memory that   *)
(* main.rs edits by command and expense.rs keeps in expenses.json, written *)
(* anew after every change and read once at the start.                     *)
(***************************************************************************)
EXTENDS Integers, SequencesExt

CONSTANTS
    Categories,
    Amounts,        \* amounts that are numbers
    NaN,            \* what `add nan ...` parses to, and inf and infinity as well
    MonthLength,    \* instants to a month
    MaxAdds,        \* bound: expenses ever added
    Mishaps         \* what may happen that the list does not survive

(***************************************************************************)
(* "nan"     an amount that is not a finite number                         *)
(* "export"  an export to expenses.json                                    *)
(* "write"   a save that fails, or a process that ends before or during    *)
(*           it: fs::write empties the file first                          *)
(***************************************************************************)
ASSUME ExpensesAssumption ==
    /\ Mishaps \subseteq {"nan", "export", "write"}
    /\ Amounts \subseteq Int /\ NaN \notin Int
    /\ MaxAdds \in Nat /\ MonthLength \in Nat \ {0}

VARIABLES
    run,        \* "off", "prompt", or "spinning" at the end of the input
    clock,      \* the instant of the next command that adds
    expenses,   \* the list in memory
    json,       \* expenses.json: a list that was written, whether it is JSON or not
    onRecord    \* history: what was added and not deleted

expVars == <<run, clock, expenses, json, onRecord>>

File(list) == [whole |-> TRUE, list |-> list]
Garbled == [whole |-> FALSE, list |-> <<>>]

\* Without a file there are no expenses, as with one of none.
ExpensesInit ==
    /\ run = "off" /\ clock = 0
    /\ expenses = <<>> /\ json = File(<<>>) /\ onRecord = {}

\* JSON has no number for NaN: serde_json writes null for it, and reads no amount
\* from a null.
Loads(f) == f.whole /\ \A i \in DOMAIN f.list : f.list[i].amount # NaN

\* A load that fails is a warning, and an empty list to go on with.
Start ==
    /\ run = "off" /\ run' = "prompt"
    /\ expenses' = IF Loads(json) THEN json.list ELSE <<>>
    /\ UNCHANGED <<clock, json, onRecord>>

\* The save every change ends with; a failure is a warning.
Saved ==
    \/ run' = run /\ json' = File(expenses')
    \/ "write" \in Mishaps /\ run' \in {run, "off"} /\ json' \in {json, Garbled}

(***************************************************************************)
(* Commands.  `list`, `total` and `summary` print and change nothing.      *)
(***************************************************************************)
Entered == IF "nan" \in Mishaps THEN Amounts \cup {NaN} ELSE Amounts

\* The date is the moment of the command, so no two expenses are the same.
AddExpense(amount, category) ==
    LET e == [amount |-> amount, category |-> category, date |-> clock]
    IN /\ run = "prompt" /\ clock < MaxAdds
       /\ clock' = clock + 1
       /\ expenses' = Append(expenses, e) /\ onRecord' = onRecord \cup {e}
       /\ Saved

\* The last one takes the place of the one removed.
SwapRemoved(list, i) ==
    [j \in 1 .. Len(list) - 1 |-> IF j = i THEN list[Len(list)] ELSE list[j]]

Removed(list, i) == RemoveAt(list, i)

\* Indices count from 0, as `list` shows them.
DeleteExpense(index) ==
    /\ run = "prompt" /\ index < Len(expenses)
    /\ expenses' = Removed(expenses, index + 1)
    /\ onRecord' = onRecord \ {expenses[index + 1]}
    /\ Saved
    /\ UNCHANGED clock

AmountsOf(list) == [i \in DOMAIN list |-> list[i].amount]

Sum(list) == SumFunction(AmountsOf(list))

TotalByCategory(list, c) ==
    SumFunctionOnSet(AmountsOf(list), {i \in DOMAIN list : list[i].category = c})

Month(e) == e.date \div MonthLength
SummaryByMonth(list) ==
    [m \in {Month(list[i]) : i \in DOMAIN list} |->
        SumFunctionOnSet(AmountsOf(list), {i \in DOMAIN list : Month(list[i]) = m})]

\* A CSV file, which is no JSON: to another path, or over the list's own file.
ExportCsv ==
    /\ run = "prompt"
    /\ json' \in {json} \cup IF "export" \in Mishaps THEN {Garbled} ELSE {}
    /\ UNCHANGED <<run, clock, expenses, onRecord>>

\* Quit, or a kill at the prompt.
Ends ==
    /\ run # "off" /\ run' = "off"
    /\ UNCHANGED <<clock, expenses, json, onRecord>>

\* At the end of its input the prompt returns empty lines for ever.
InputEnds ==
    /\ run = "prompt" /\ run' = "spinning"
    /\ UNCHANGED <<clock, expenses, json, onRecord>>

ExpensesNext ==
    \/ Start \/ Ends \/ InputEnds \/ ExportCsv
    \/ \E a \in Entered, c \in Categories : AddExpense(a, c)
    \/ \E i \in 0 .. MaxAdds : DeleteExpense(i)

ExpensesSpec == ExpensesInit /\ [][ExpensesNext]_expVars

(***************************************************************************)
(* Properties.                                                             *)
(***************************************************************************)

OnRecordIn(list) ==
    /\ ToSet(list) = onRecord /\ Len(list) = Cardinality(onRecord)
    /\ \A i, j \in DOMAIN list : i < j => list[i].date < list[j].date

(***************************************************************************)
(* "Expenses survive between runs": the list at the prompt is what was     *)
(* added and not deleted, in the order of the additions.                   *)
(***************************************************************************)
ExpensesSurvive == run # "off" => OnRecordIn(expenses)

(***************************************************************************)
(* The books are kept: the same is true of what another start would load   *)
(* whenever the program may end, and the totals of the categories and of   *)
(* the months both add up to the whole.                                    *)
(***************************************************************************)
BooksKept ==
    /\ ExpensesSurvive
    /\ Loads(json) /\ OnRecordIn(json.list)
    /\ LET used == {json.list[i].category : i \in DOMAIN json.list}
       IN SumFunction([c \in used |-> TotalByCategory(json.list, c)]) = Sum(json.list)
    /\ SumFunction(SummaryByMonth(json.list)) = Sum(json.list)
===============================================================================
