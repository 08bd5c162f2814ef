--------------------------------- MODULE History --------------------------------
(* get_history and refresh_pending: the sender's rows for one address, narrowed to *)
(* the chains in scope and decorated chain by chain, and the view's timer, which    *)
(* runs while a reply says that something shown can still move.                    *)
(*                                                                               *)
(* A row is a number, in the sender's order. Its chain, and whether it moved a      *)
(* token that its chain does not offer, never change.                              *)
EXTENDS Registry

CONSTANTS
    MaxRows,        \* bound: the rows the sender ever has
    ChainOf,        \* of each row
    Swaps           \* rows that moved a token their chain does not offer

Rows == 1 .. MaxRows

ASSUME RowsAreOnChains == MaxRows \in Nat /\ ChainOf \in [Rows -> Chains]
ASSUME SwapsAreRows == Swaps \subseteq Rows

VARIABLES
    status,         \* tx_sender: of each row; "none" while there is no such row
    mined,          \* external: rows the chain has a receipt of
    step,           \* where the view's call is
    used,           \* of HISTORY_BUDGET
    ids,            \* the chains in scope when they were read
    answered,       \* history: the sender's rows as they came
    history,        \* the same in scope, "none" for what is left out
    left,           \* chains of those whose tokens are still to be read
    named,          \* chains whose rows evm_assets gets every token for
    unread,         \* entries for the chains it does not
    reply,          \* the last call's, until the next
    due,            \* the view's timer runs: the last reply said stillDue
    told            \* the view is to read again

callVars == <<step, used, ids, answered, history, left, named, unread>>
sender == <<status, mined>>
view == <<reply, due, told>>
historyVars == <<registry, sender, callVars, view>>

RowStates == {"none", "pending", "stalled", "resolved"}
Steps == {"idle", "sender", "offered", "catalogue", "sweep"}
Reasons == {"tokens", "assets", "whole"}
Errors == [chain : Chains, why : Reasons]

NoRows == [r \in Rows |-> "none"]
NoReply == [rows |-> NoRows, errors |-> {}, plain |-> {}]

--------------------------------------------------------------------------------
(* history.rs.                                                                   *)

\* Mutant: the sender's rows as they come, whatever the scope.
Unscoped(rows, allowed) == rows

Scoped(rows, allowed) ==
    [r \in Rows |-> IF ChainOf[r] \in allowed THEN rows[r] ELSE "none"]

\* Mutant: what is stalled keeps the timer running as well.
DueThoughStalled(rows) == \E r \in Rows : rows[r] \in {"pending", "stalled"}

StillDue(rows) == \E r \in Rows : rows[r] = "pending"

ChainsOf(rows) == {ChainOf[r] : r \in {q \in Rows : rows[q] # "none"}}

\* Something a chain's rows moved is not among the tokens it offers.
Unlisted(rows, chain) ==
    \E r \in Swaps : rows[r] # "none" /\ ChainOf[r] = chain

Undecorated(rows) == [chain : ChainsOf(rows), why : {"whole"}]

\* Mutant: every reason is reported, a chain's second one too.
AddEveryError(own, more) == own \cup more

\* A chain evm_assets could not decorate keeps its own reason.
AddDecorationErrors(own, more) ==
    own \cup {e \in more : \A r \in own : r.chain # e.chain}

--------------------------------------------------------------------------------
\* The view is opened, and is to read.
HistoryInit ==
    /\ RegistryInit
    /\ status \in [Rows -> {"none", "pending", "resolved"}]
    /\ mined = {r \in Rows : status[r] = "resolved"}
    /\ step = "idle" /\ used = 0 /\ ids = {}
    /\ answered = NoRows /\ history = NoRows /\ left = {} /\ named = {} /\ unread = {}
    /\ reply = NoReply /\ due = FALSE /\ told = TRUE

\* The call is over, and what it had put together with it.
CallEnds ==
    /\ step' = "idle" /\ used' = 0 /\ ids' = {}
    /\ answered' = NoRows /\ history' = NoRows /\ left' = {} /\ named' = {} /\ unread' = {}

\* The view calls get_history when it has been told to, and the chains in scope are read.
ReadScope ==
    /\ step = "idle" /\ told
    /\ told' = FALSE /\ reply' = NoReply
    /\ step' = "sender" /\ ids' = inScope
    /\ \E s \in AfterDiscovery : seeded' = s.flag /\ applied' = s.has
    /\ UNCHANGED <<inScope, moves, sender, used, answered, history, left, named, unread, due>>

\* They cannot be read: an error, and the view asks again.
ScopeFails ==
    /\ step = "idle" /\ told
    /\ \E s \in AfterSeeding : seeded' = s.flag /\ applied' = s.has
    /\ UNCHANGED <<inScope, moves, sender, callVars, view>>

\* Mutant: a call may take the whole of the budget, whatever the ones before it took.
GrantedWhole(perCall) == HistoryBudget

Granted(perCall) == Slice(HistoryBudget, used, perCall)

SenderAnswers ==
    /\ step = "sender" /\ step' = "offered"
    /\ \E d \in Spends(Granted(SenderFloor)) : used' = used + d
    /\ answered' = status
    /\ history' = Scoped(status, ids)
    /\ left' = ChainsOf(Scoped(status, ids))
    /\ UNCHANGED <<registry, sender, ids, named, unread, view>>

SenderFails ==
    /\ step = "sender"
    /\ CallEnds
    /\ told' = TRUE
    /\ UNCHANGED <<registry, sender, reply, due>>

\* The chain whose tokens are read next: the rows' chains, in the order they first appear.
IsNextChain(c) ==
    \E r \in Rows :
        /\ history[r] # "none" /\ ChainOf[r] = c /\ c \in left
        /\ \A q \in Rows : history[q] # "none" /\ ChainOf[q] \in left => r <= q

NextChain(c) ==
    /\ left' = left \ {c} /\ step' = "offered"
    /\ UNCHANGED <<registry, sender, ids, answered, history, view>>

Unread(c) ==
    /\ unread' = unread \cup {[chain |-> c, why |-> "tokens"]}
    /\ UNCHANGED named

OfferedRead(c) ==
    /\ step = "offered" /\ IsNextChain(c) /\ Granted(OfferedBudget) > None
    /\ \E d \in Spends(Granted(OfferedBudget)) : used' = used + d
    /\ \/ Unlisted(history, c) /\ step' = "catalogue"
          /\ UNCHANGED <<registry, sender, ids, answered, history, view,
                         left, named, unread>>
       \/ ~Unlisted(history, c) /\ NextChain(c)
          /\ named' = named \cup {c} /\ UNCHANGED unread

\* No answer, a refusal, or no time left to ask: the chain is decorated with its native asset.
OfferedFails(c) ==
    /\ step = "offered" /\ IsNextChain(c)
    /\ \E d \in Spends(Granted(OfferedBudget)) : used' = used + d
    /\ Unread(c) /\ NextChain(c)

CatalogueRead(c) ==
    /\ step = "catalogue" /\ IsNextChain(c) /\ Granted(OfferedBudget) > None
    /\ \E d \in Spends(Granted(OfferedBudget)) : used' = used + d
    /\ named' = named \cup {c} /\ UNCHANGED unread
    /\ NextChain(c)

CatalogueFails(c) ==
    /\ step = "catalogue" /\ IsNextChain(c)
    /\ \E d \in Spends(Granted(OfferedBudget)) : used' = used + d
    /\ Unread(c) /\ NextChain(c)

\* The reply: the rows, whether one of them can move, the errors, and (history) the chains
\* whose rows do not have all their names.
Shows(rows, errors, plain) ==
    /\ reply' = [rows |-> rows, errors |-> errors, plain |-> plain]
    /\ due' = StillDue(history)

\* evm_assets decorates the rows, all but those of the chains it reports.
Decorated ==
    /\ step = "offered" /\ left = {} /\ Granted(CatalogueBudget) > None
    /\ \E own \in SUBSET ChainsOf(history) :
           Shows(history,
                 AddDecorationErrors([chain : own, why : {"assets"}], unread),
                 own \cup (ChainsOf(history) \ named))
    /\ CallEnds
    /\ UNCHANGED <<registry, sender, told>>

\* It refuses or does not answer, or there is no time left to ask it.
DecorationFails ==
    /\ step = "offered" /\ left = {}
    /\ Shows(history, Undecorated(history), ChainsOf(history))
    /\ CallEnds
    /\ UNCHANGED <<registry, sender, told>>

\* The timer: refresh_pending, which has the sender look for the receipts.
Ticks ==
    /\ step = "idle" /\ due
    /\ step' = "sweep" /\ reply' = NoReply
    /\ UNCHANGED <<registry, sender, used, ids, answered, history, left, named, unread,
                   due, told>>

Swept ==
    [r \in Rows |-> IF r \in mined /\ status[r] \in {"pending", "stalled"}
                    THEN "resolved" ELSE status[r]]

\* The sender sweeps and says what moved; the reply itself says nothing the view needs.
Sweeps ==
    /\ step = "sweep"
    /\ status' = Swept /\ told' = (told \/ status # Swept)
    /\ CallEnds
    /\ UNCHANGED <<registry, mined, reply, due>>

SweepFails ==
    /\ step = "sweep"
    /\ CallEnds
    /\ UNCHANGED <<registry, sender, view>>

\* External: a send is broadcast, in this app or another; the chain has it; or it does not,
\* for long. The view is told of the first and the last, and of a scope that moves, in the
\* same step: that its listener is up and its news arrives is Feeds' concern, and a
\* condition of what is said of the timer here.
RowAppears(r) ==
    /\ status[r] = "none"
    /\ status' = [status EXCEPT ![r] = "pending"] /\ told' = TRUE
    /\ UNCHANGED <<registry, mined, callVars, reply, due>>

RowIsMined(r) ==
    /\ status[r] \in {"pending", "stalled"} /\ r \notin mined
    /\ mined' = mined \cup {r}
    /\ UNCHANGED <<registry, status, callVars, view>>

RowStalls(r) ==
    /\ status[r] = "pending" /\ r \notin mined
    /\ status' = [status EXCEPT ![r] = "stalled"] /\ told' = TRUE
    /\ UNCHANGED <<registry, mined, callVars, reply, due>>

\* The view is opened, or asked by hand to read again.
ViewOpens ==
    /\ ~told /\ told' = TRUE
    /\ UNCHANGED <<registry, sender, callVars, reply, due>>

ScopeIsMoved ==
    /\ ScopeMoves /\ told' = TRUE
    /\ UNCHANGED <<sender, callVars, reply, due>>

Reading(c) == OfferedRead(c) \/ OfferedFails(c) \/ CatalogueRead(c) \/ CatalogueFails(c)

GoesOn ==
    \/ SenderAnswers \/ SenderFails \/ Decorated \/ DecorationFails \/ Sweeps \/ SweepFails
    \/ \E c \in Chains : Reading(c)

HistoryNext ==
    \/ ViewOpens \/ ReadScope \/ ScopeFails \/ Ticks \/ GoesOn \/ ScopeIsMoved
    \/ \E r \in Rows : RowAppears(r) \/ RowIsMined(r) \/ RowStalls(r)

HistorySpec == HistoryInit /\ [][HistoryNext]_historyVars

--------------------------------------------------------------------------------
(* Properties.                                                                   *)

\* Every variable has a value of its kind.
HistoryTypeOK ==
    /\ RegistryTypeOK
    /\ status \in [Rows -> RowStates] /\ mined \subseteq Rows
    /\ step \in Steps /\ used \in 0 .. HistoryBudget /\ ids \subseteq Chains
    /\ answered \in [Rows -> RowStates] /\ history \in [Rows -> RowStates]
    /\ left \subseteq Chains /\ named \subseteq Chains /\ unread \subseteq Errors
    /\ reply \in [rows : [Rows -> RowStates], errors : SUBSET Errors, plain : SUBSET Chains]
    /\ due \in BOOLEAN /\ told \in BOOLEAN

\* A row of the sender's answer that is on a chain of the portfolio.
InPortfolio(r) == answered[r] # "none" /\ ChainOf[r] \in ids

\* Once the sender has answered, get_history shows every row of it that is in scope, as it
\* came, and no other, and says so with the timer; whatever of the decoration then fails or
\* has no time left (glue.rs: rows left undecorated beat none; history.rs, scope).
ActivityIsKept ==
    [][(step \in {"offered", "catalogue"} /\ step' = "idle") =>
          /\ \A r \in Rows :
                 reply'.rows[r] = IF InPortfolio(r) THEN answered[r] ELSE "none"
          /\ due' = (\E r \in Rows : InPortfolio(r) /\ answered[r] = "pending")]_historyVars

\* A view that has been told nothing more since it last read runs its timer exactly if a row
\* in scope is pending: whatever moved in the sender or in the scope between its call's reads,
\* none out of scope keeps the timer running and none in scope goes without it (history.rs,
\* scope; glue.rs, get_history).
TimerIsRight ==
    ~told /\ step \in {"idle", "sweep"} =>
        due = (\E r \in Rows : ChainOf[r] \in inScope /\ status[r] = "pending")

\* The chains named in decorationErrors are exactly those whose rows lack a name, one entry
\* each, of whichever of the reads it was that failed first (history.rs,
\* add_decoration_errors and undecorated).
GapsAreNamedOnce ==
    /\ {e.chain : e \in reply.errors} = reply.plain
    /\ \A e, f \in reply.errors : e.chain = f.chain => e = f

\* When nothing moves any more the timer runs exactly if a row in scope is still pending:
\* none out of scope keeps it alive, and none in scope is left behind by a read that failed
\* or by a scope that moved meanwhile. So no row of the portfolio stays pending that the
\* chain has: the timer's sweep finds it (history.rs, scope; glue.rs, refresh_pending).
TimerFollows ==
    <>[](/\ due = (\E r \in Rows : ChainOf[r] \in inScope /\ status[r] = "pending")
         /\ \A r \in mined : ChainOf[r] \in inScope => status[r] # "pending")

================================================================================
