--------------------------------- MODULE Pages ---------------------------------
(* The methods that only read, with the views that call them: the token picker,     *)
(* networks and tokens, the history, the balances, the accounts. The dispatch threads*)
(* run their calls beside each other. What the backend keeps between them is whether *)
(* a dependency has its defaults; what they read of each other's doing is eth_rpc's  *)
(* registry.                                                                       *)
EXTENDS Catalogue, Networks, History, Balances, Accounts

CONSTANT Together    \* bound: what is in use in one behaviour, each a set of Uses

VARIABLE inUse

picker == vars

\* The views that have a module of their own, and the methods of Networks one by one.
Views == {"picker", "history", "balances", "accounts"}
NetworksUses == Methods \cup {"startup"}
Uses == Views \cup NetworksUses

ASSUME TogetherAreUses == Together \subseteq SUBSET Uses

PagesInit ==
    /\ inUse \in Together
    /\ Init /\ NetworksInit /\ HistoryInit /\ BalancesInit /\ AccountsInit

\* What is each component's own: the registry is nobody's, and neither is what a component
\* notes of its moves.
networksOwn ==
    <<listApplied, listSeeded, startups, method, at, elapsed, chain, probes, verdict, opened>>
historyOwn == <<sender, callVars, reply, due>>
balancesOwn == <<fanned, discovery, asked, thread, spent, result, joined>>

pagesVars ==
    <<inUse, picker, registry, scoped, told, networksOwn, historyOwn, balancesOwn, accountsVars>>

\* The view of the history is told of every move of the scope, whoever made it.
HearsOfScope == told' = (told \/ inScope' # inScope)

\* The calls about one chain, of whichever view, that run while the scope moves.
NotesScope == IF inScope' = inScope THEN UNCHANGED scoped ELSE SeesScope

OnNetworks(A) ==
    /\ inUse \cap NetworksUses # {} /\ A
    /\ \A t \in Threads : method'[t] \in inUse \cup {"none"}
    /\ HearsOfScope
    /\ UNCHANGED <<inUse, picker, historyOwn, balancesOwn, accountsVars>>

OnHistory(A) ==
    /\ "history" \in inUse /\ A
    /\ NotesScope
    /\ UNCHANGED <<inUse, picker, networksOwn, balancesOwn, accountsVars>>

OnBalances(A) ==
    /\ "balances" \in inUse /\ A
    /\ HearsOfScope /\ NotesScope
    /\ UNCHANGED <<inUse, picker, networksOwn, historyOwn, accountsVars>>

OnAccounts(A) ==
    /\ "accounts" \in inUse /\ A
    /\ UNCHANGED <<inUse, picker, registry, scoped, told, networksOwn, historyOwn, balancesOwn>>

OnPicker(A) ==
    /\ "picker" \in inUse /\ A
    /\ UNCHANGED <<inUse, registry, scoped, told,
                   networksOwn, historyOwn, balancesOwn, accountsVars>>

PagesNext ==
    \/ OnNetworks(NetworksNext) \/ OnHistory(HistoryNext) \/ OnBalances(BalancesNext)
    \/ OnAccounts(AccountsNext) \/ OnPicker(Next)

PagesSpec == PagesInit /\ [][PagesNext]_pagesVars

--------------------------------------------------------------------------------
\* A dependency that is asked to take its defaults has said that it did.
Settles(t) ==
    \/ EnsureEthRpc(t) /\ ~seeded /\ seeded'
    \/ EnsureTokenList(t) /\ ~listSeeded /\ listSeeded'

\* Threads go on, and what is asked again and again is at some time answered: the registry,
\* and a dependency that is asked to take its defaults.
NetworksFairness ==
    \A t \in Callers :
        /\ WF_pagesVars(OnNetworks(Goes(t)))
        /\ SF_pagesVars(OnNetworks(Settles(t)))
        /\ SF_pagesVars(OnNetworks(ReadRegistry(t) /\ method[t] = "list_tokens"))

\* A call goes on; a view that is told to read does, and so does the timer; and the sender
\* that is asked again and again at some time answers.
HistoryFairness ==
    /\ WF_pagesVars(OnHistory(GoesOn))
    /\ SF_pagesVars(OnHistory(ReadScope)) /\ SF_pagesVars(OnHistory(Ticks))
    /\ SF_pagesVars(OnHistory(SenderAnswers)) /\ SF_pagesVars(OnHistory(Sweeps))

\* Every variable has a value of its kind, on every page: a verdict that says whether it
\* blocks, a clock within its budget, an account entry of its method's kind.
PagesTypeOK == NetworksTypeOK /\ HistoryTypeOK /\ BalancesTypeOK /\ AccountsTypeOK

\* A dependency that was not there at the startup has its defaults at last, if its answers
\* are fair (glue.rs, chain_configs: retried by the next read).
FairDefaults == NetworksFairness => DefaultsArrive

\* The timer runs at last exactly if it is needed, if the view and the sender are fair,
\* whichever other view moves the scope meanwhile (history.rs, scope; glue.rs,
\* refresh_pending).
FairTimer == HistoryFairness => TimerFollows

================================================================================
