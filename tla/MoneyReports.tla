---------------------------- MODULE MoneyReports ----------------------------
(***************************************************************************)
(* The money tools of the finance, billing, pricing and commerce agents.   *)
(*                                                                         *)
(* Two of them compute: finance_generate_finance_report a profit and loss  *)
(* statement, billing_generate_revops_report the recurring revenue of a    *)
(* list of subscriptions.  All others refuse.  Every answer is an envelope *)
(* of tools/_envelope.py.  Amounts are integers in minor units; rounding   *)
(* is half to even.  The tools keep no state: they are operators here,     *)
(* with loops as folds over the rows.  The state is the list a caller puts *)
(* together for one of the two tools, and the property compares the answer *)
(* to every list within the bounds with what its rows say.                 *)
(***************************************************************************)
EXTENDS Ranking, Sequences, SequencesExt, FiniteSetsExt

CONSTANTS
    Amounts,     \* amounts in minor units
    Months,      \* months a transaction may fall in
    Categories,  \* expense categories
    Plans,       \* subscription plans
    MaxRows,     \* bound on the rows of a report
    Top          \* how many of the largest expenses a report names

VARIABLES
    report,      \* the report a caller asks for: "finance", "revops" or "none"
    list         \* the transactions or subscriptions handed to it

\* Months, categories and plans are texts of limited length.
ASSUME ReportBounds ==
    /\ Amounts \subseteq Nat /\ MaxRows \in Nat /\ Top \in Nat
    /\ IsFiniteSet(Months) /\ IsFiniteSet(Categories) /\ IsFiniteSet(Plans)

-----------------------------------------------------------------------------
(* tools/_envelope.py                                                      *)

RetryableByCode ==
    [not_implemented |-> FALSE, provider_unconfigured |-> FALSE, upstream_timeout |-> TRUE,
     validation_failed |-> FALSE, duplicate_request |-> TRUE, authorization_missing |-> FALSE,
     policy_denied |-> FALSE]

\* A hint when to retry survives only on a code that may be retried.
Failure(code, hint) ==
    [ok |-> FALSE, code |-> code, retryable |-> RetryableByCode[code],
     retry_after |-> RetryableByCode[code] /\ hint]

FromException == Failure("upstream_timeout", TRUE)

\* Arithmetic on what the caller handed in is never called verified.
ReadEvidence(source, rows, unverified) ==
    [source |-> source, row_count |-> rows,
     unverified |-> source = "caller_supplied" \/ unverified]

\* success raises without evidence, and a write needs a readback; the tool turns
\* what is raised into a failure.
Success(mode, result, evidence, readback) ==
    IF DOMAIN evidence = {} \/ (mode = "APPROVAL_REQUIRED" /\ ~readback) THEN FromException
    ELSE [ok |-> TRUE, mode |-> mode, report |-> result, evidence |-> evidence]

-----------------------------------------------------------------------------
(* Tools that only refuse                                                  *)

FinanceRefusals ==
    [finance_import_x402_transactions |-> "not_implemented",
     finance_get_budget_metrics |-> "provider_unconfigured",
     finance_get_audit_log |-> "provider_unconfigured",
     finance_get_alerts |-> "provider_unconfigured"]

BillingRefusals ==
    [billing_get_budget_metrics |-> "provider_unconfigured",
     billing_get_audit_log |-> "provider_unconfigured",
     billing_get_alerts |-> "provider_unconfigured"]

\* These two write a record set or change a price.
BillingWrites ==
    [billing_import_ar_ledger |-> "not_implemented", billing_deploy_plan_change |-> "not_implemented"]

BankFees == [finance_sync_bank_fees |-> "not_implemented"]

PricingRefusals ==
    [pricing_run_elasticity_experiment |-> "not_implemented",
     pricing_deploy_pricing_update |-> "not_implemented",
     pricing_generate_pricing_report |-> "policy_denied",
     pricing_get_budget_metrics |-> "provider_unconfigured",
     pricing_get_audit_log |-> "provider_unconfigured",
     pricing_get_alerts |-> "provider_unconfigured"]

CommerceRefusals ==
    [commerce_configure_tax_engine |-> "not_implemented",
     commerce_get_budget_metrics |-> "provider_unconfigured",
     commerce_get_audit_log |-> "provider_unconfigured",
     commerce_get_alerts |-> "provider_unconfigured"]

Refusals ==
    UNION {{Failure(t[name], FALSE) : name \in DOMAIN t} :
           t \in {FinanceRefusals, BillingRefusals, BillingWrites, BankFees, PricingRefusals,
                  CommerceRefusals}}

-----------------------------------------------------------------------------
(* Integer arithmetic                                                      *)

\* mutant: the remainder of the division is dropped.
AllocateFloor(total, parts) == [i \in 1..parts |-> total \div parts]

\* Largest remainder: the first parts carry what the division leaves over.
Allocate(total, parts) ==
    [i \in 1..parts |-> total \div parts + (IF i <= total % parts THEN 1 ELSE 0)]

\* n / d to the nearest integer, a tie to the even one; 0 for a zero divisor.
DivideHalfEven(n, d) ==
    IF d = 0 THEN 0
    ELSE LET q == n \div d
             r == 2 * (n % d)
         IN IF r > d \/ (r = d /\ q % 2 = 1) THEN q + 1 ELSE q

BasisPoints(n, d) == DivideHalfEven(n * 10000, d)

-----------------------------------------------------------------------------
(* finance_generate_finance_report                                         *)

\* A row, or the other arguments of the call, are well formed, break a rule, or hold
\* a value that cannot be hashed where the code asks for set membership: that raises.
Forms == {"good", "invalid", "unhashable"}

\* The other arguments, the head, come first; then all rows are validated before any
\* is used, and one bad row refuses the call.
Validated(head, rows, source, Compute(_)) ==
    IF head = "unhashable" THEN FromException
    ELSE IF head = "invalid" THEN Failure("validation_failed", FALSE)
    ELSE IF \E i \in DOMAIN rows : rows[i].form = "unhashable" THEN FromException
    ELSE IF \E i \in DOMAIN rows : rows[i].form = "invalid" THEN Failure("validation_failed", FALSE)
    ELSE Success("READ_ONLY", Compute(rows), ReadEvidence(source, Len(rows), FALSE), FALSE)

NoTransactions ==
    [income |-> 0, expenses |-> 0, months |-> {},
     by_category |-> [c \in Categories |-> 0],
     monthly_income |-> [m \in Months |-> 0],
     monthly_expenses |-> [m \in Months |-> 0],
     items |-> <<>>]

\* The body of the loop over the transactions; a transfer counts for nothing.
AddTransaction(acc, tx) ==
    IF tx.type = "income"
    THEN [acc EXCEPT !.income = @ + tx.amount,
                     !.monthly_income[tx.month] = @ + tx.amount,
                     !.months = @ \cup {tx.month}]
    ELSE IF tx.type = "expense"
    THEN [acc EXCEPT !.expenses = @ + tx.amount,
                     !.monthly_expenses[tx.month] = @ + tx.amount,
                     !.by_category[tx.category] = @ + tx.amount,
                     !.months = @ \cup {tx.month},
                     !.items = Append(@, tx.amount)]
    ELSE acc

FinanceReport(rows) ==
    LET acc == FoldLeft(AddTransaction, NoTransactions, rows)
        net == acc.income - acc.expenses
        larger(j, i) ==
            acc.items[j] > acc.items[i] \/ (acc.items[j] = acc.items[i] /\ j < i)
        sorted == Listed(acc.items, DOMAIN acc.items, larger)
    IN [income |-> acc.income, expenses |-> acc.expenses, net |-> net,
        margin_bp |-> BasisPoints(net, acc.income),
        by_category |-> acc.by_category,
        monthly |-> [m \in acc.months |-> acc.monthly_income[m] - acc.monthly_expenses[m]],
        top |-> SubSeq(sorted, 1, Min({Top, Len(sorted)}))]

GenerateFinanceReport(head, rows, source) == Validated(head, rows, source, FinanceReport)

-----------------------------------------------------------------------------
(* billing_generate_revops_report                                          *)

NoSubscriptions ==
    [mrr |-> 0, arr |-> 0, active |-> 0, trial |-> 0, cancelled |-> 0,
     count |-> [p \in Plans |-> 0], plan_mrr |-> [p \in Plans |-> 0]]

AddSubscription(acc, sub) ==
    LET yearly == sub.interval = "year"
        monthly == IF yearly THEN Allocate(sub.amount, 12)[1] ELSE sub.amount
        annual == IF yearly THEN sub.amount ELSE 12 * sub.amount
        counted == [acc EXCEPT !.count[sub.plan] = @ + 1, ![sub.status] = @ + 1]
    IN IF sub.status = "active"
       THEN [counted EXCEPT !.mrr = @ + monthly, !.arr = @ + annual, !.plan_mrr[sub.plan] = @ + monthly]
       ELSE counted

RevopsReport(rows) ==
    LET acc == FoldLeft(AddSubscription, NoSubscriptions, rows)
    IN [acc |-> acc,
        churn_bp |-> BasisPoints(acc.cancelled, acc.active + acc.cancelled),
        arpa |-> DivideHalfEven(acc.mrr, acc.active)]

\* No argument of this call but its rows is looked up in a set.
GenerateRevopsReport(head, rows) == Validated(head, rows, "caller_supplied", RevopsReport)

-----------------------------------------------------------------------------
(* Inputs                                                                  *)

Transactions ==
    [form : {"good"}, type : {"income"}, month : Months, category : {"none"}, amount : Amounts]
    \cup [form : {"good"}, type : {"expense"}, month : Months, category : Categories, amount : Amounts]
    \cup [form : {"good"}, type : {"transfer"}, month : {CHOOSE m \in Months : TRUE},
          category : {"none"}, amount : {Max(Amounts)}]
    \cup [form : Forms \ {"good"}, type : {"income"}, month : {CHOOSE m \in Months : TRUE},
          category : {"none"}, amount : {Max(Amounts)}]

Subscriptions ==
    [form : {"good"}, plan : Plans, status : {"active"}, interval : {"month", "year"}, amount : Amounts]
    \cup [form : Forms, plan : Plans, status : {"trial", "cancelled"}, interval : {"year"},
          amount : {Max(Amounts)}]

InitReports == report \in {"none", "finance", "revops"} /\ list = <<>>

\* The caller adds a row to the list.
AddRow(row) == Len(list) < MaxRows /\ list' = Append(list, row) /\ UNCHANGED report

ReportStep ==
    \/ report = "finance" /\ \E t \in Transactions : AddRow(t)
    \/ report = "revops" /\ \E s \in Subscriptions : AddRow(s)

ReportsSpec == InitReports /\ [][ReportStep]_<<report, list>>

-----------------------------------------------------------------------------
(* Properties                                                              *)

SumOf(f) == MapThenSumSet(LAMBDA x : f[x], DOMAIN f)

Total(rows, Counts(_), Value(_)) ==
    SumOf([i \in DOMAIN rows |-> IF Counts(rows[i]) THEN Value(rows[i]) ELSE 0])

\* q is n / d to the nearest integer, and even when two are equally near.
NearestEven(q, n, d) ==
    LET off == 2 * (q * d - n) IN
    /\ off <= d /\ -off <= d
    /\ (off = d \/ -off = d) => q % 2 = 0

\* Every figure of a profit and loss statement agrees with the transactions and
\* with every other figure: categories add up to the expenses, months to the
\* profit, the margin is the nearest one, and no expense left out of the top list
\* is larger than one in it.
StatementBalances(rows, r) ==
    LET income == Total(rows, LAMBDA t : t.type = "income", LAMBDA t : t.amount)
        expenses == Total(rows, LAMBDA t : t.type = "expense", LAMBDA t : t.amount)
        all == {t \in DOMAIN rows : rows[t].type = "expense"}
    IN /\ r.income = income /\ r.expenses = expenses
       /\ SumOf(r.by_category) = expenses
       /\ SumOf(r.monthly) = r.net /\ r.net = income - expenses
       /\ income > 0 => NearestEven(r.margin_bp, 10000 * r.net, income)
       /\ Len(r.top) = Min({Top, Cardinality(all)})
       /\ \A a \in ToSet(r.top) :
             Cardinality({i \in all : rows[i].amount > a}) < Top

\* Recurring revenue: every subscription is counted once, plans add up to the
\* total, and twelve times the monthly figure exceeds the yearly one by less than
\* twelve minor units for each active yearly subscription, and never falls short.
RevenueBalances(rows, r) ==
    LET active(s) == s.status = "active"
        yearly == Total(rows, LAMBDA s : active(s) /\ s.interval = "year", LAMBDA s : 1)
        excess == 12 * r.acc.mrr - r.acc.arr
    IN /\ r.acc.active + r.acc.trial + r.acc.cancelled = Len(rows)
       /\ SumOf(r.acc.count) = Len(rows)
       /\ SumOf(r.acc.plan_mrr) = r.acc.mrr
       /\ 0 <= excess /\ (yearly = 0 => excess = 0) /\ (yearly > 0 => excess < 12 * yearly)
       /\ r.acc.active > 0 => NearestEven(r.arpa, r.acc.mrr, r.acc.active)
       /\ 0 <= r.churn_bp /\ r.churn_bp <= 10000

\* An answer is well formed: a success carries evidence, which owns up to data the
\* caller handed in, and a failure may be retried exactly when its code says so.
Truthful(a) ==
    IF a.ok THEN a.evidence.unverified = (a.evidence.source = "caller_supplied")
    ELSE a.retryable = RetryableByCode[a.code] /\ (a.retry_after => a.retryable)

\* Both reports balance, a list with a bad row yields no figures at all, and no
\* other money tool reports success.
ReportsBalance ==
    /\ report = "finance" =>
          \A head \in Forms, source \in {"caller_supplied", "xero_export"} :
             LET a == GenerateFinanceReport(head, list, source) IN
             /\ Truthful(a)
             /\ a.ok <=> head = "good" /\ \A i \in DOMAIN list : list[i].form = "good"
             /\ a.ok => StatementBalances(list, a.report) /\ a.evidence.row_count = Len(list)
    /\ report = "revops" =>
          \A head \in {"good", "invalid"} :
             LET a == GenerateRevopsReport(head, list) IN
             /\ Truthful(a)
             /\ a.ok <=> head = "good" /\ \A i \in DOMAIN list : list[i].form = "good"
             /\ a.ok => RevenueBalances(list, a.report) /\ a.evidence.row_count = Len(list)
    /\ report # "none" => \A a \in Refusals : Truthful(a) /\ ~a.ok

=============================================================================
