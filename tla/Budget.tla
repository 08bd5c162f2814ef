--------------------------------- MODULE Budget ---------------------------------
(* Call budgets, in milliseconds: one allowance shared by the calls of one        *)
(* method, what each call may take of it, and the deadline handed to a callee.    *)
(* Zero stands for None: no grant and no deadline is ever zero.                   *)
EXTENDS Integers

ProbeBudget == 1500
InitBudget == 5000
OfferedBudget == 1000
AssetsBudget == 4500
CatalogueBudget == 3000
RpcBudget == 3000
ReadBudget == 4000
StartupBudget == 6000
HistoryBudget == 12000
BalancesBudget == 15000
FeesLimit == 120000
SenderFloor == 9000
SendBudget == 120000
CalleeMargin == 300
MinSlice == 50
None == 0

Lesser(a, b) == IF a < b THEN a ELSE b
Greater(a, b) == IF a < b THEN b ELSE a

\* Mutant: a grant is what the call asks for, whatever is left.
SliceOfNothing(total, elapsed, perCall) == perCall

Slice(total, elapsed, perCall) ==
    LET grant == Lesser(total - elapsed, perCall)
    IN  IF grant >= MinSlice THEN grant ELSE None

\* Mutant: the callee is given all the time the caller waits.
DeadlineOfTheCaller(transport) == transport

CalleeDeadline(transport) ==
    IF transport - CalleeMargin >= MinSlice THEN transport - CalleeMargin ELSE None

\* A chain's record; zero seconds are as good as none.
ChainRecords ==
    [verified : BOOLEAN, timeoutSecs : Nat, verifiedTimeoutSecs : Nat]

\* The timeout the record has for the route its reads take, or that route's default.
SecondsOf(record) ==
    LET secs == IF record.verified THEN record.verifiedTimeoutSecs ELSE record.timeoutSecs
    IN  IF secs > 0 THEN secs ELSE IF record.verified THEN 15 ELSE 8

\* Mutant: the user's timeout is taken as it is.
RoundTripUnclamped(record) == 1000 * SecondsOf(record)

\* A minute, what a round trip is clamped to.
MaxRoundTrip == 60000

RoundTrip(record) == Lesser(1000 * SecondsOf(record), MaxRoundTrip)

\* Mutant: the time in which the sender registers an approval is forgotten.
BudgetWithoutApproval(rt, sending) ==
    Greater(2 * ProbeBudget + 5 * (rt + CalleeMargin) + 2 * CalleeMargin, SenderFloor)

\* What suggest_fees hands fee_module: two round trips.
FeesBudget(rt) == Greater(2 * (rt + CalleeMargin) + CalleeMargin, RpcBudget)

SenderBudget(rt, sending) ==
    LET approval == IF sending THEN InitBudget ELSE 0
    IN  Greater(2 * ProbeBudget + 5 * (rt + CalleeMargin) + 2 * CalleeMargin + approval,
                SenderFloor)

================================================================================
