-------------------------------- MODULE MCPages --------------------------------
(* Pages' values for TLC, and the first states the runs begin with.                *)
EXTENDS Pages, MCCatalogue

\* Every page by itself, with all its methods; and the pairs that move the registry under a
\* page or seed it beside one.
Pairs == {{"history", "set_chain_enabled"}, {"balances", "set_network_scope"},
          {"balances", "startup"}}
SomeTogether == {{v} : v \in Views} \cup {NetworksUses} \cup Pairs

\* What a page that is not in use would begin with is one value.
Unused ==
    /\ "picker" \notin inUse =>
           size = 0 /\ ~matches /\ offset = 0 /\ limit = CHOOSE l \in Limits : TRUE
    /\ "history" \notin inUse => status = NoRows
    /\ "accounts" \notin inUse => query = "list_accounts"
    /\ inUse \cap Views # {} => listApplied

\* One chain in scope or all; pairs begin with all, but behind a startup that is yet to come.
Scopes ==
    CASE inUse \in {NetworksUses, {"history"}, {"balances"}} -> {{1}, Chains}
      [] "startup" \in inUse -> {{1}}
      [] OTHER -> {Chains}

\* The history is opened when eth_rpc has said that it has its defaults; the balances of a
\* pair when it does not have them.
Seeding ==
    /\ seeded = ("history" \in inUse)
    /\ inUse \cap {"picker", "accounts", "history"} # {} => applied
    /\ inUse \in Pairs /\ "balances" \in inUse => ~applied

MCInit ==
    /\ PagesInit
    /\ inScope \in Scopes
    /\ Unused /\ Seeding
    /\ inUse = {"history"} => \A r \in Rows : status[r] # "resolved"
    /\ "history" \in inUse /\ inUse \in Pairs => status = <<"pending", "resolved">>

MCSpec == MCInit /\ [][PagesNext]_pagesVars

--------------------------------------------------------------------------------
\* Two rows, one on each of two chains.
RowChains == <<1, 2>>

\* A chain that is read through its verifying proxy and has the default timeout, and one
\* that is not and has more than a round trip may take.
SomeRecords ==
    {[verified |-> TRUE, timeoutSecs |-> 8, verifiedTimeoutSecs |-> 0],
     [verified |-> FALSE, timeoutSecs |-> 90, verifiedTimeoutSecs |-> 15]}

================================================================================
