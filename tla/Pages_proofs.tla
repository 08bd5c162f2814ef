------------------------------- MODULE Pages_proofs -------------------------------
(* The pages together, their calls beside each other. Each component keeps its own     *)
(* invariant by its own steps (Networks_proofs, Portfolio_proofs, Catalogue_proofs);    *)
(* here it is shown to keep it in the middle of a call while another page's call seeds  *)
(* eth_rpc's defaults or moves its scope, which is all that the pages share.           *)
EXTENDS Pages, Networks_proofs, Portfolio_proofs, Catalogue_proofs

RegistryOK == RegistryTypeOK /\ (seeded => applied)

PagesInv == NetworksInv /\ HistoryInv /\ TimerInv /\ BalancesInv /\ AccountsInv

--------------------------------------------------------------------------------
(* A page whose variables stay while another changes the registry.                     *)

LEMMA PagesShareRegistry ==
    /\ NetworksInv => RegistryOK
    /\ NetworksInv' => RegistryOK'
    /\ HistoryInv' => RegistryOK'
    /\ BalancesInv' => RegistryOK'
BY DEF RegistryOK, NetworksInv, OwnersOK, SeededMeansApplied, HistoryInv, HistoryTypeOK,
       BalancesInv, BalancesTypeOK, ThreadClocks

LEMMA SameRegistryOK == RegistryOK /\ UNCHANGED registry => RegistryOK'
BY DEF RegistryOK, RegistryTypeOK, registry

\* The calls about one chain go on knowing whether it was in scope.
LEMMA NetworksElsewhere ==
    ASSUME NetworksInv, UNCHANGED networksOwn, NotesScope, RegistryOK'
    PROVE  NetworksInv'
<1>1. /\ UNCHANGED <<listApplied, listSeeded, startups>>
      /\ UNCHANGED <<method, at, elapsed, chain>>
      /\ UNCHANGED <<probes, verdict, opened>>
    BY DEF networksOwn
<1>2. OwnersOK'
    BY <1>1 DEF RegistryOK, NetworksInv, OwnersOK, SeededMeansApplied
<1>3. VerdictsOK'
    BY <1>1, SameVerdicts DEF NetworksInv
<1>4. CallsOK'
    <2>1. CASE inScope' = inScope
        <3>1. UNCHANGED <<method, at, elapsed, chain, scoped>>
            BY <1>1, <2>1 DEF NotesScope
        <3> QED BY <2>1, <3>1, SameCalls DEF NetworksInv
    <2>2. CASE inScope' # inScope
        BY <1>1, <2>2, MovedScope DEF NotesScope, NetworksInv
    <2> QED BY <2>1, <2>2
<1> QED BY <1>2, <1>3, <1>4 DEF NetworksInv

\* The view of the history is told of the scope, and its call goes on as it was.
LEMMA HistoryElsewhere ==
    ASSUME HistoryInv, TimerInv, UNCHANGED historyOwn, HearsOfScope, RegistryOK'
    PROVE  HistoryInv' /\ TimerInv'
<1>1. UNCHANGED sender /\ UNCHANGED callVars /\ reply' = reply /\ due' = due
    BY DEF historyOwn
<1>2. told \in BOOLEAN /\ told' \in BOOLEAN /\ (~told' => ~told /\ inScope' = inScope)
    BY DEF HearsOfScope, HistoryInv, HistoryTypeOK
<1>3. RegistryTypeOK' /\ (seeded' => applied')
    BY DEF RegistryOK
<1>4. CallTypeOK' /\ CallShape'
    BY <1>1, HistoryParts, SameCall
<1>5. SenderTypeOK' /\ ViewTypeOK' /\ GapsAreNamedOnce'
    BY <1>1, <1>2, HistoryParts DEF sender, SenderTypeOK, ViewTypeOK, GapsAreNamedOnce
<1>6. TimerInv'
    BY <1>1, <1>2 DEF TimerInv, PendingInScope, Decorating, sender, callVars
<1> QED BY <1>3, <1>4, <1>5, <1>6, HistoryAssembled

LEMMA BalancesElsewhere ==
    ASSUME BalancesInv, UNCHANGED balancesOwn, RegistryOK'
    PROVE  BalancesInv'
BY DEF balancesOwn, RegistryOK, BalancesInv, BalancesTypeOK, ThreadClocks, JoinedShape,
       ChainsKeepTheirOwn, JoinedChains

LEMMA AccountsElsewhere ==
    ASSUME AccountsInv, UNCHANGED accountsVars
    PROVE  AccountsInv'
<1>1. [AccountsNext]_accountsVars
    OBVIOUS
<1> QED BY <1>1, AccountsStep

\* What a step of one page leaves of the others.
LEMMA OtherPages ==
    ASSUME PagesInv, RegistryOK'
    PROVE  /\ UNCHANGED networksOwn /\ NotesScope => NetworksInv'
           /\ UNCHANGED historyOwn /\ HearsOfScope => HistoryInv' /\ TimerInv'
           /\ UNCHANGED balancesOwn => BalancesInv'
           /\ UNCHANGED accountsVars => AccountsInv'
BY NetworksElsewhere, HistoryElsewhere, BalancesElsewhere, AccountsElsewhere DEF PagesInv

\* So does a step that asks nothing of the registry.
LEMMA RegistryRests ==
    ASSUME PagesInv, UNCHANGED <<registry, scoped, told>>
    PROVE  RegistryOK' /\ NotesScope /\ HearsOfScope
<1>1. RegistryOK'
    BY PagesShareRegistry, SameRegistryOK DEF PagesInv
<1>2. inScope' = inScope /\ told \in BOOLEAN
    BY DEF registry, PagesInv, HistoryInv, HistoryTypeOK
<1> QED BY <1>1, <1>2 DEF NotesScope, HearsOfScope

--------------------------------------------------------------------------------
LEMMA PagesInitInv == PagesInit => PagesInv
<1> SUFFICES ASSUME PagesInit PROVE PagesInv
    OBVIOUS
<1>1. NetworksInit /\ HistoryInit /\ BalancesInit /\ AccountsInit
    BY DEF PagesInit
<1>2. NetworksInv /\ HistoryInv /\ BalancesInv /\ AccountsInv
    BY <1>1, NetworksInitInv, HistoryInitInv, BalancesInitInv, AccountsInitInv
<1>3. TimerInv
    BY <1>1 DEF HistoryInit, TimerInv
<1> QED BY <1>2, <1>3 DEF PagesInv

LEMMA PagesStep == PagesInv /\ [PagesNext]_pagesVars => PagesInv'
<1> SUFFICES ASSUME PagesInv, [PagesNext]_pagesVars PROVE PagesInv'
    OBVIOUS
<1>0. NetworksInv /\ HistoryInv /\ TimerInv /\ BalancesInv /\ AccountsInv
    BY DEF PagesInv
<1>1. CASE OnNetworks(NetworksNext)
    <2>1. NetworksInv'
        BY <1>0, <1>1, NetworksStep DEF OnNetworks
    <2>2. /\ UNCHANGED historyOwn /\ HearsOfScope
          /\ UNCHANGED balancesOwn /\ UNCHANGED accountsVars
        BY <1>1 DEF OnNetworks
    <2>3. RegistryOK'
        BY <2>1, PagesShareRegistry
    <2> QED BY <2>1, <2>2, <2>3, OtherPages DEF PagesInv
<1>2. CASE OnHistory(HistoryNext)
    <2>1. HistoryInv' /\ TimerInv'
        BY <1>0, <1>2, HistoryStep, TimerStep DEF OnHistory
    <2>2. /\ UNCHANGED networksOwn /\ NotesScope
          /\ UNCHANGED balancesOwn /\ UNCHANGED accountsVars
        BY <1>2 DEF OnHistory
    <2>3. RegistryOK'
        BY <2>1, PagesShareRegistry
    <2> QED BY <2>1, <2>2, <2>3, OtherPages DEF PagesInv
<1>3. CASE OnBalances(BalancesNext)
    <2>1. BalancesInv'
        BY <1>0, <1>3, BalancesStep DEF OnBalances
    <2>2. /\ UNCHANGED networksOwn /\ NotesScope /\ UNCHANGED historyOwn /\ HearsOfScope
          /\ UNCHANGED accountsVars
        BY <1>3 DEF OnBalances
    <2>3. RegistryOK'
        BY <2>1, PagesShareRegistry
    <2> QED BY <2>1, <2>2, <2>3, OtherPages DEF PagesInv
<1>4. CASE OnAccounts(AccountsNext)
    <2>1. AccountsInv'
        BY <1>0, <1>4, AccountsStep DEF OnAccounts
    <2>2. /\ UNCHANGED <<registry, scoped, told>> /\ UNCHANGED networksOwn
          /\ UNCHANGED historyOwn /\ UNCHANGED balancesOwn
        BY <1>4 DEF OnAccounts
    <2> QED BY <2>1, <2>2, RegistryRests, OtherPages DEF PagesInv
<1>5. CASE OnPicker(Next) \/ UNCHANGED pagesVars
    <2>1. /\ UNCHANGED <<registry, scoped, told>> /\ UNCHANGED networksOwn
          /\ UNCHANGED historyOwn /\ UNCHANGED balancesOwn /\ UNCHANGED accountsVars
        BY <1>5 DEF OnPicker, pagesVars
    <2> QED BY <2>1, RegistryRests, OtherPages DEF PagesInv
<1> QED BY <1>1, <1>2, <1>3, <1>4, <1>5, Zenon DEF PagesNext

--------------------------------------------------------------------------------
(* The types of all the pages at once, whatever is in use of them.                     *)
THEOREM PagesTypeCorrect == PagesSpec => []PagesTypeOK
<1>1. PagesInv => PagesTypeOK
    <2>1. NetworksInv => NetworksTypeOK
        BY DEF NetworksInv, OwnersOK, CallsOK, CallsTyped, VerdictsOK, VerdictKind, NetworksTypeOK
    <2>2. HistoryInv => HistoryTypeOK
        BY DEF HistoryInv
    <2>3. BalancesInv => BalancesTypeOK
        BY DEF BalancesInv
    <2>4. AccountsInv => AccountsTypeOK
        BY DEF AccountsInv
    <2> QED BY <2>1, <2>2, <2>3, <2>4 DEF PagesInv, PagesTypeOK
<1> QED BY <1>1, PagesInitInv, PagesStep, PTL DEF PagesSpec

NetworksSafe ==
    /\ MethodsInTime /\ FeesHaveTheirTime
    /\ GateFailsClosed /\ ChainWasInScope /\ SeededMeansApplied

PortfolioSafe ==
    /\ GapsAreNamedOnce /\ TimerIsRight
    /\ ChainsKeepTheirOwn /\ AssetsHaveTheirTime /\ BalancesComeInTime
    /\ InventoryOrError /\ UsersNameWins /\ FactsAreTheManagers

(* What the pages promise holds in the wallet as a whole: whichever of them are in use     *)
(* together, a call of one, at any point of another's, neither delays, opens, mixes up nor *)
(* drops anything that the other shows, though it seeds the dependencies they both read   *)
(* and moves the scope under it.                                                      *)
THEOREM PagesSafe == PagesSpec => [](NetworksSafe /\ PortfolioSafe)
<1>1. PagesInv => NetworksSafe
    <2>1. NetworksInv => MethodsInTime
        BY DEF NetworksInv, CallsOK, CallOK, MethodsInTime
    <2>2. NetworksInv => GateFailsClosed
        BY DEF NetworksInv, VerdictsOK
    <2>3. NetworksInv => ChainWasInScope
        BY DEF NetworksInv, CallsOK, CallOK, ChainWasInScope, Threads
    <2>4. NetworksInv => SeededMeansApplied
        BY DEF NetworksInv, OwnersOK
    <2>5. NetworksInv => FeesHaveTheirTime
        BY FeesAreReserved
    <2> QED BY <2>1, <2>2, <2>3, <2>4, <2>5 DEF PagesInv, NetworksSafe
<1>2. PagesInv => PortfolioSafe
    <2>1. HistoryInv => GapsAreNamedOnce
        BY DEF HistoryInv
    <2>2. TimerInv => TimerIsRight
        BY DEF TimerInv, TimerIsRight, PendingInScope
    <2>3. BalancesInv => ChainsKeepTheirOwn /\ AssetsHaveTheirTime /\ BalancesComeInTime
        BY AssetsAreReserved, SlowestIsInTime DEF BalancesInv
    <2>4. AccountsInv => InventoryOrError /\ UsersNameWins /\ FactsAreTheManagers
        BY DEF AccountsInv
    <2> QED BY <2>1, <2>2, <2>3, <2>4 DEF PagesInv, PortfolioSafe
<1> QED BY <1>1, <1>2, PagesInitInv, PagesStep, PTL DEF PagesSpec

(* The history's view: every reply is the sender's rows in the scope its call has read,     *)
(* though other pages' calls seed eth_rpc and move its scope between that read and the      *)
(* reply.                                                                               *)
THEOREM PagesKeepActivity == PagesSpec => ActivityIsKept
<1> DEFINE Kept == (step \in {"offered", "catalogue"} /\ step' = "idle") =>
                       /\ \A r \in Rows :
                              reply'.rows[r] = IF InPortfolio(r) THEN answered[r] ELSE "none"
                       /\ due' = (\E r \in Rows : InPortfolio(r) /\ answered[r] = "pending")
<1>1. ASSUME PagesInv, [PagesNext]_pagesVars PROVE [Kept]_historyVars
    <2>1. CASE OnHistory(HistoryNext)
        BY <1>1, <2>1, RepliesKeepActivity DEF PagesInv, OnHistory
    <2>2. CASE ~OnHistory(HistoryNext)
        <3>1. UNCHANGED historyOwn
            BY <1>1, <2>2
               DEF PagesNext, pagesVars, OnNetworks, OnBalances, OnAccounts, OnPicker
        <3>2. step' = step
            BY <3>1 DEF historyOwn, callVars
        <3> QED BY <3>2
    <2> QED BY <2>1, <2>2
<1> QED BY <1>1, PagesInitInv, PagesStep, PTL DEF PagesSpec, ActivityIsKept

(* The picker's view: its scroll is seamless and its hasMore right while the other pages'   *)
(* calls run, for any page sizes without zero.                                          *)
THEOREM PagesScroll ==
    ASSUME 0 \notin Limits
    PROVE  PagesSpec => []SeamlessPages /\ MoreIsMore
<1>1. PagesInit => ScrollInv
    BY ScrollInit DEF PagesInit
<1>2. [PagesNext]_pagesVars => [Next]_vars
    BY DEF PagesNext, pagesVars, picker, OnNetworks, OnHistory, OnBalances, OnAccounts, OnPicker
<1>3. ScrollInv /\ [PagesNext]_pagesVars => ScrollInv'
    BY <1>2, ScrollStep
<1>4. ScrollInv => SeamlessPages
    BY DEF ScrollInv
<1>5. ScrollInv /\ [PagesNext]_pagesVars =>
          [NextPage => /\ more' = (Len(got') < Total(size, matches))
                       /\ Total(size, matches) > 0 => Len(got') > Len(got)]_vars
    BY <1>2, PagesGrow
<1> QED BY <1>1, <1>3, <1>4, <1>5, PTL DEF PagesSpec, MoreIsMore

================================================================================
