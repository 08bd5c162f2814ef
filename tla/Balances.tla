-------------------------------- MODULE Balances --------------------------------
(* get_balances: one discovery of the chains in scope, then a thread for each of   *)
(* them, and one reply that joins what they came back with.                        *)
(*                                                                               *)
(* Each thread has a Budget of its own, started with it. What the user waits is    *)
(* the discovery and the slowest thread.                                          *)
EXTENDS Registry, Sequences

VARIABLES
    fanned,         \* the threads run: the call is past its discovery
    discovery,      \* the time that took
    asked,          \* the chains in scope at the discovery
    thread,         \* of each chain: "none", "offered", "assets" or "ended"
    spent,          \* of each chain: what its thread has used of its Budget
    result,         \* of each chain: what its thread came back with
    joined          \* the reply's entries so far

balancesVars == <<registry, fanned, discovery, asked, thread, spent, result, joined>>

\* What a thread comes back with: a reply with balances; one that refuses, evm_assets' or
\* this module's own for token_list; or none that can be read, for want of time or for a panic.
Results == {"balances", "refused", "failed"}

\* The time a view waits for a reply, and what evm_assets reserves for its own read of one
\* chain (budget.rs, BALANCES_BUDGET).
UiTransport == 20000
AssetsOwnBound == 14000

\* Mutant: the offered rows may take as long as a registry read.
OfferedGrantOfAProbe(c) == Slice(BalancesBudget, spent[c], ProbeBudget)

OfferedGrant(c) == Slice(BalancesBudget, spent[c], OfferedBudget)
AssetsGrant(c) == Slice(BalancesBudget, spent[c], BalancesBudget)

BalancesInit ==
    /\ RegistryInit
    /\ fanned = FALSE /\ discovery = 0 /\ asked = {}
    /\ thread = [c \in Chains |-> "none"]
    /\ spent = [c \in Chains |-> 0]
    /\ result = [c \in Chains |-> "failed"]
    /\ joined = <<>>

\* The reply before is gone, the chains are known, and a thread is spawned for each in scope.
FanOut ==
    /\ ~fanned /\ fanned' = TRUE
    /\ \E s \in AfterDiscovery :
           seeded' = s.flag /\ applied' = s.has /\ discovery' = s.took
    /\ asked' = inScope
    /\ thread' = [c \in Chains |-> IF c \in inScope THEN "offered" ELSE "none"]
    /\ spent' = [c \in Chains |-> 0]
    /\ result' = [c \in Chains |-> "failed"]
    /\ joined' = <<>>
    /\ UNCHANGED <<inScope, moves>>

\* The chains cannot be read: an error, and no balances.
DiscoveryFails ==
    /\ ~fanned
    /\ \E s \in AfterSeeding : seeded' = s.flag /\ applied' = s.has
    /\ UNCHANGED <<inScope, moves, fanned, discovery, asked, thread, spent, result, joined>>

ThreadEnds(c, took, with) ==
    /\ thread' = [thread EXCEPT ![c] = "ended"]
    /\ spent' = [spent EXCEPT ![c] = @ + took]
    /\ result' = [result EXCEPT ![c] = with]
    /\ UNCHANGED <<registry, fanned, discovery, asked, joined>>

ChainTokensRead(c) ==
    /\ thread[c] = "offered" /\ OfferedGrant(c) > None
    /\ \E d \in Spends(OfferedGrant(c)) : spent' = [spent EXCEPT ![c] = @ + d]
    /\ thread' = [thread EXCEPT ![c] = "assets"]
    /\ UNCHANGED <<registry, fanned, discovery, asked, result, joined>>

\* token_list refuses, is silent, or there is no time to ask it: err, in the chain's place.
ChainTokensFail(c) ==
    /\ thread[c] = "offered"
    /\ \E d \in Spends(OfferedGrant(c)) : ThreadEnds(c, d, "refused")

\* evm_assets answers or does not; or there is no time left to ask it, which the bounds of
\* the read in front of it exclude.
AssetsRead(c) ==
    /\ thread[c] = "assets"
    /\ \E d \in Spends(AssetsGrant(c)) :
         \E with \in IF AssetsGrant(c) > None THEN Results ELSE {"refused"} :
             ThreadEnds(c, d, with)

Panics(c) == thread[c] \in {"offered", "assets"} /\ ThreadEnds(c, 0, "failed")

--------------------------------------------------------------------------------
JoinedChains == {joined[i].chain : i \in DOMAIN joined}

\* Mutant: whichever thread is through is joined next.
AnyEnded(c) == c \in asked \ JoinedChains

\* The handles are joined in registry order, each waited for.
IsNext(c) ==
    /\ c \in asked \ JoinedChains
    /\ \A d \in asked \ JoinedChains : c <= d

\* A reply that names no chain is given the handle's, and so is what became of no reply.
ReplyEntry(c) == [chain |-> c, ok |-> result[c] = "balances"]

Join(c) ==
    /\ fanned /\ IsNext(c) /\ thread[c] = "ended"
    /\ joined' = Append(joined, ReplyEntry(c))
    /\ UNCHANGED <<registry, fanned, discovery, asked, thread, spent, result>>

Replies ==
    /\ fanned /\ asked = JoinedChains
    /\ fanned' = FALSE
    /\ UNCHANGED <<registry, discovery, asked, thread, spent, result, joined>>

Thread(c) == ChainTokensRead(c) \/ ChainTokensFail(c) \/ AssetsRead(c) \/ Panics(c)

BalancesNext ==
    \/ FanOut \/ DiscoveryFails \/ Replies
    \/ \E c \in Chains : Thread(c) \/ Join(c)
    \/ ScopeMoves /\ UNCHANGED <<fanned, discovery, asked, thread, spent, result, joined>>

BalancesSpec == BalancesInit /\ [][BalancesNext]_balancesVars

--------------------------------------------------------------------------------
(* Properties.                                                                   *)

\* Every variable has a value of its kind.
BalancesTypeOK ==
    /\ RegistryTypeOK
    /\ fanned \in BOOLEAN /\ discovery \in Nat /\ asked \subseteq Chains
    /\ thread \in [Chains -> {"none", "offered", "assets", "ended"}]
    /\ spent \in [Chains -> 0 .. BalancesBudget] /\ result \in [Chains -> Results]
    /\ joined \in Seq([chain : Chains, ok : BOOLEAN])

\* Whatever the chains' threads come to and in whichever order, a reply has one entry for
\* every chain that was in scope at the discovery and no other, in registry order, and each
\* is ok exactly if that chain's own reads were (glue.rs, get_balances: joined in registry
\* order; README: usable when one chain fails).
ChainsKeepTheirOwn ==
    /\ ~fanned => JoinedChains = asked
    /\ \A i, j \in DOMAIN joined : i < j => joined[i].chain < joined[j].chain
    /\ \A i \in DOMAIN joined : joined[i].ok = (result[joined[i].chain] = "balances")

\* However slow the offered rows are, evm_assets is handed the time it reserves for its own
\* read of the chain (budget.rs, BALANCES_BUDGET).
AssetsHaveTheirTime ==
    \A c \in Chains : thread[c] = "assets" => AssetsGrant(c) >= AssetsOwnBound

\* What the user waits, whatever fails and however many chains there are, is less than the
\* view's transport: the discovery and the slowest thread, not their sum over the chains
\* (budget.rs, BALANCES_BUDGET and the test of the fan-out).
BalancesComeInTime ==
    \A c \in Chains : discovery + spent[c] < UiTransport

================================================================================
