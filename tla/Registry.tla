-------------------------------- MODULE Registry --------------------------------
(* eth_rpc's registry of chains as every read of this wallet begins with it: the  *)
(* seeding of eth_rpc's defaults, and then one read of the chains, which says of   *)
(* each whether it is enabled in the network scope.                               *)
EXTENDS Budget

CONSTANTS
    NumChains,      \* the chains of the registry
    Durations,      \* bound: how long a call takes, when it does not take all it may
    MaxMoves        \* bound: how often the scope moves

ASSUME ChainsAreCounted == NumChains \in Nat
ASSUME DurationsAreNat == Durations \subseteq Nat
ASSUME MaxMovesIsNat == MaxMoves \in Nat

Chains == 1 .. NumChains

VARIABLES
    inScope,        \* eth_rpc: the chains that are enabled in the network scope
    moves,          \* how often that has moved
    applied,        \* eth_rpc: it has its defaults
    seeded          \* deps.eth_rpc: it has said so

registry == <<inScope, moves, applied, seeded>>

RegistryTypeOK ==
    /\ inScope \subseteq Chains /\ moves \in 0 .. MaxMoves
    /\ applied \in BOOLEAN /\ seeded \in BOOLEAN

RegistryInit ==
    /\ inScope \in SUBSET Chains /\ moves = 0
    /\ applied \in BOOLEAN /\ seeded \in BOOLEAN /\ (seeded => applied)

\* External: a chain is enabled or disabled, or the scope changes, here or in another app.
ScopeMoves ==
    /\ moves < MaxMoves /\ moves' = moves + 1
    /\ inScope' \in SUBSET Chains \ {inScope}
    /\ UNCHANGED <<applied, seeded>>

\* What a call that may take `grant` takes.
Spends(grant) == {d \in Durations : d <= grant} \cup {grant}

\* Mutant: having asked is taken for having been answered.
SettledOnceAsked(ok) == TRUE

\* reply_ok: an answer that says ok settles it, and nothing else does.
Settled(ok) == ok

\* ensure_eth_rpc and ensure_token_list: what becomes of the flag and of the owner's defaults
\* when init_defaults may take `grant`. The owner applies what it lacks and says so; or it
\* does, and is not heard; or it does not get to it.
AfterEnsuring(flag, has, grant) ==
    IF flag \/ grant = None
    THEN {[flag |-> flag, has |-> has, took |-> 0]}
    ELSE [flag : {Settled(TRUE)}, has : {TRUE}, took : Spends(grant)]
           \cup [flag : {Settled(FALSE)}, has : {has, TRUE}, took : Spends(grant)]

\* ensure_eth_rpc at the head of a read, as long as all of READ_BUDGET is left.
AfterSeeding == AfterEnsuring(seeded, applied, Slice(ReadBudget, 0, InitBudget))

\* chain_configs: with the time that is left then, the chains are read.
AfterDiscovery ==
    UNION {[flag : {s.flag}, has : {s.has},
            took : {s.took + d : d \in Spends(Slice(ReadBudget, s.took, ProbeBudget))}] :
               s \in {x \in AfterSeeding : Slice(ReadBudget, x.took, ProbeBudget) > None}}

================================================================================
