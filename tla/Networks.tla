-------------------------------- MODULE Networks --------------------------------
(* The reads and writes of chains and tokens, call by call: list_networks and       *)
(* verified_proxy_state with their verdicts, list_tokens, list_available_tokens,     *)
(* set_token_enabled, set_chain_enabled and set_network_scope; and the startup, which*)
(* seeds the same dependencies beside them.                                        *)
(*                                                                               *)
(* Each caller is a dispatch thread with one Budget for all the calls it makes.     *)
EXTENDS Registry

CONSTANTS
    Host,           \* the thread that runs on_context_ready
    Callers,        \* dispatch threads that call a method at a time
    Records,        \* the chains' records in eth_rpc, of ChainRecords
    MaxStartups     \* bound: how often on_context_ready runs

ASSUME HostIsNoCaller == Host \notin Callers
ASSUME RecordsAreRecords == Records \subseteq ChainRecords
ASSUME MaxStartupsIsNat == MaxStartups \in Nat

Threads == {Host} \cup Callers

\* Methods that report verdicts, on every chain or on those in scope; methods about one
\* chain; and writes of the registry itself.
Lists == {"list_networks", "verified_proxy_state"}
ChainMethods ==
    {"list_tokens", "list_available_tokens", "set_token_enabled", "suggest_fees"}
Writes == {"set_chain_enabled", "set_network_scope"}
Methods == Lists \cup ChainMethods \cup Writes

VARIABLES
    listApplied,    \* token_list: it has its defaults
    listSeeded,     \* deps.token_list
    startups,       \* how often on_context_ready has run
    method,         \* of each thread, "none" of one that runs none
    at,             \* the call it makes next; "reply" behind the last, "rest" with no method
    elapsed,        \* of its Budget
    chain,          \* the chain it was asked about, None of a method that is about no chain
    probes,         \* chains whose verdict is still to be asked for
    verdict,        \* of each chain, so far
    opened,         \* history: chains eth_rpc said, in this call, do not block
    scoped          \* history: the chain was in scope at some time of the call

networksVars ==
    <<registry, listApplied, listSeeded, startups,
      method, at, elapsed, chain, probes, verdict, opened, scoped>>

\* The calls of each method, in their order.
After(m, call) ==
    CASE call = "seed" -> IF m = "startup" THEN "seedList" ELSE "registry"
      [] call = "registry" ->
           IF m \in Lists THEN "verdicts" ELSE IF m = "suggest_fees" THEN "fees" ELSE "seedList"
      [] call = "seedList" ->
           CASE m = "list_tokens" -> "offered"
             [] m = "list_available_tokens" -> "native"
             [] m = "set_token_enabled" -> "write"
             [] OTHER -> "reply"
      [] call = "offered" -> "assets"
      [] call = "native" -> "page"
      [] OTHER -> "reply"

Calls == {"seed", "registry", "verdicts", "seedList", "offered", "native", "assets", "page",
          "write", "set", "fees"}

\* What each may take, by itself; the fees depend on the chain's record.
PerCall(call) ==
    CASE call \in {"seed", "seedList"} -> {InitBudget}
      [] call \in {"registry", "verdicts", "native"} -> {ProbeBudget}
      [] call = "offered" -> {OfferedBudget}
      [] call = "set" -> {RpcBudget}
      [] call = "fees" -> {FeesBudget(RoundTrip(record)) : record \in Records}
      [] OTHER -> {CatalogueBudget}

TotalOf(m) ==
    CASE m = "startup" -> StartupBudget
      [] m = "suggest_fees" -> FeesLimit
      [] OTHER -> ReadBudget

Grants(t) == {Slice(TotalOf(method[t]), elapsed[t], cap) : cap \in PerCall(at[t])}

--------------------------------------------------------------------------------
(* verified.rs. A verdict is what eth_rpc answers: whether it has a state, and what *)
(* it says of blocking.                                                           *)

Verdicts == [state : BOOLEAN, blocking : {"true", "false", "absent"}]

\* unknown_verdict: what cannot be read blocks.
UnknownVerdict == [state |-> TRUE, blocking |-> "true"]

\* Mutant: a state is enough to read a verdict by.
ReadableByState(v) == v.state

Readable(v) == v.state /\ v.blocking # "absent"

Normalized(v) == IF Readable(v) THEN v ELSE UnknownVerdict

\* A consumer takes whatever does not say that it blocks for open.
LooksOpen(v) == v.blocking # "true"

--------------------------------------------------------------------------------
NetworksInit ==
    /\ RegistryInit
    /\ listApplied \in BOOLEAN /\ listSeeded = FALSE /\ startups = 0
    /\ method = [t \in Threads |-> "none"] /\ at = [t \in Threads |-> "rest"]
    /\ elapsed = [t \in Threads |-> 0] /\ chain = [t \in Threads |-> None]
    /\ probes = [t \in Threads |-> {}]
    /\ verdict = [t \in Threads |-> [c \in Chains |-> UnknownVerdict]]
    /\ opened = [t \in Threads |-> {}] /\ scoped = [t \in Threads |-> FALSE]

Enters(t, m, c) ==
    /\ at[t] = "rest"
    /\ method' = [method EXCEPT ![t] = m]
    /\ at' = [at EXCEPT ![t] = IF m \in Writes THEN "set" ELSE "seed"]
    /\ chain' = [chain EXCEPT ![t] = c]
    /\ scoped' = [scoped EXCEPT ![t] = c \in inScope]
    /\ UNCHANGED <<registry, listApplied, listSeeded, elapsed, probes, verdict, opened>>

\* on_context_ready seeds both dependencies, within STARTUP_BUDGET.
Startup ==
    /\ startups < MaxStartups /\ startups' = startups + 1
    /\ Enters(Host, "startup", None)

\* A chain id below zero is refused and touches nothing.
Begin(t, m, c) ==
    /\ t \in Callers /\ (c = None) = (m \notin ChainMethods)
    /\ Enters(t, m, c)
    /\ UNCHANGED startups

\* The reply is out, and the thread and its Budget are gone.
Returns(t) ==
    /\ at[t] = "reply" \/ (at[t] = "verdicts" /\ probes[t] = {})
    /\ at' = [at EXCEPT ![t] = "rest"] /\ method' = [method EXCEPT ![t] = "none"]
    /\ elapsed' = [elapsed EXCEPT ![t] = 0] /\ chain' = [chain EXCEPT ![t] = None]
    /\ verdict' = [verdict EXCEPT ![t] = [c \in Chains |-> UnknownVerdict]]
    /\ opened' = [opened EXCEPT ![t] = {}] /\ scoped' = [scoped EXCEPT ![t] = FALSE]
    /\ UNCHANGED <<registry, listApplied, listSeeded, startups, probes>>

\* The call is behind it, and the next one before it.
Advances(t) == at' = [at EXCEPT ![t] = After(method[t], at[t])] /\ UNCHANGED method

Takes(t, d) == elapsed' = [elapsed EXCEPT ![t] = @ + d]

\* ensure_eth_rpc, which stops nothing when it fails.
EnsureEthRpc(t) ==
    /\ at[t] = "seed" /\ Advances(t)
    /\ \E grant \in Grants(t) : \E s \in AfterEnsuring(seeded, applied, grant) :
           seeded' = s.flag /\ applied' = s.has /\ Takes(t, s.took)
    /\ UNCHANGED <<inScope, moves, listApplied, listSeeded, startups,
                   chain, probes, verdict, opened, scoped>>

EnsureTokenList(t) ==
    /\ at[t] = "seedList" /\ Advances(t)
    /\ \E grant \in Grants(t) : \E s \in AfterEnsuring(listSeeded, listApplied, grant) :
           listSeeded' = s.flag /\ listApplied' = s.has /\ Takes(t, s.took)
    /\ UNCHANGED <<registry, startups, chain, probes, verdict, opened, scoped>>

\* A call that is granted time and answered before it runs out.
Answered(t) ==
    \E grant \in Grants(t) \ {None} : \E d \in Spends(grant) : Takes(t, d)

\* Mutant: a chain the registry lists will do, enabled or not.
InRegistryOnly(t) == TRUE

InScope(t) == chain[t] \in inScope

\* chain_configs, and in_scope_chain where the method is about one chain.
ReadRegistry(t) ==
    /\ at[t] = "registry" /\ Answered(t) /\ Advances(t)
    /\ method[t] \in ChainMethods => InScope(t)
    /\ probes' = [probes EXCEPT ![t] =
                    CASE method[t] = "list_networks" -> Chains
                      [] method[t] = "verified_proxy_state" -> inScope
                      [] OTHER -> {}]
    /\ UNCHANGED <<registry, listApplied, listSeeded, startups, chain, verdict, opened, scoped>>

\* The chains' verdicts are asked for one after the other, in registry order.
Probing(t, c) ==
    /\ at[t] = "verdicts" /\ c \in probes[t] /\ \A d \in probes[t] : c <= d
    /\ probes' = [probes EXCEPT ![t] = @ \ {c}]
    /\ UNCHANGED <<registry, listApplied, listSeeded, startups, method, at, chain, scoped>>

Verdict(t, c) ==
    /\ Probing(t, c) /\ Answered(t)
    /\ \E v \in Verdicts :
         /\ verdict' = [verdict EXCEPT ![t][c] = Normalized(v)]
         /\ opened' = [opened EXCEPT ![t] =
                         IF v.state /\ v.blocking = "false" THEN @ \cup {c} ELSE @]

\* No answer, one that cannot be read, or no time left to ask.
NoVerdict(t, c) ==
    /\ Probing(t, c)
    /\ \E grant \in Grants(t) : \E d \in Spends(grant) : Takes(t, d)
    /\ verdict' = [verdict EXCEPT ![t][c] = UnknownVerdict]
    /\ UNCHANGED opened

\* token_list, evm_assets or fee_module answers.
Asks(t) ==
    /\ at[t] \in {"offered", "native", "assets", "page", "write", "fees"}
    /\ Answered(t) /\ Advances(t)
    /\ UNCHANGED <<registry, listApplied, listSeeded, startups,
                   chain, probes, verdict, opened, scoped>>

\* Any of them fails, is late or is given no time; or the chain is not in scope.
Refused(t) ==
    /\ at[t] \in Calls \ {"seed", "seedList", "verdicts", "set"}
    /\ \E grant \in Grants(t) : \E d \in Spends(grant) : Takes(t, d)
    /\ at' = [at EXCEPT ![t] = "reply"]
    /\ UNCHANGED <<registry, listApplied, listSeeded, startups,
                   method, chain, probes, verdict, opened, scoped>>

\* The picker reads the sort order behind the registry, and is over if it cannot.
SettingsFail(t) ==
    /\ at[t] = "seedList" /\ method[t] = "list_available_tokens"
    /\ at' = [at EXCEPT ![t] = "reply"]
    /\ UNCHANGED <<registry, listApplied, listSeeded, startups,
                   method, elapsed, chain, probes, verdict, opened, scoped>>

\* A chain that comes into scope while a call about it runs was in scope during the call.
SeesScope ==
    scoped' = [t \in Threads |-> scoped[t] \/ (at[t] # "rest" /\ chain[t] \in inScope')]

\* The registry does what it is told, whether or not the caller still waits; or it does not.
SetScope(t) ==
    /\ at[t] = "set" /\ Answered(t) /\ Advances(t)
    /\ ScopeMoves \/ UNCHANGED registry
    /\ SeesScope
    /\ UNCHANGED <<listApplied, listSeeded, startups, chain, probes, verdict, opened>>

\* External: another app moves it.
ScopeIsMovedElsewhere ==
    /\ ScopeMoves /\ SeesScope
    /\ UNCHANGED <<listApplied, listSeeded, startups,
                   method, at, elapsed, chain, probes, verdict, opened>>

Goes(t) ==
    \/ EnsureEthRpc(t) \/ EnsureTokenList(t) \/ ReadRegistry(t) \/ Returns(t) \/ Asks(t)
    \/ Refused(t) \/ SettingsFail(t) \/ SetScope(t)
    \/ \E c \in Chains : Verdict(t, c) \/ NoVerdict(t, c)

NetworksNext ==
    \/ Startup \/ ScopeIsMovedElsewhere
    \/ \E t \in Threads :
         \/ Goes(t)
         \/ \E m \in Methods, c \in Chains \cup {None} : Begin(t, m, c)

NetworksSpec == NetworksInit /\ [][NetworksNext]_networksVars

--------------------------------------------------------------------------------
(* Properties.                                                                   *)

\* Every variable has a value of its kind: a verdict a view is given always says whether it
\* blocks (verified.rs, normalize).
NetworksTypeOK ==
    /\ RegistryTypeOK
    /\ listApplied \in BOOLEAN /\ listSeeded \in BOOLEAN /\ startups \in 0 .. MaxStartups
    /\ method \in [Threads -> Methods \cup {"startup", "none"}]
    /\ at \in [Threads -> Calls \cup {"reply", "rest"}]
    /\ elapsed \in [Threads -> Nat] /\ chain \in [Threads -> Chains \cup {None}]
    /\ probes \in [Threads -> SUBSET Chains]
    /\ verdict \in [Threads -> [Chains -> [state : {TRUE}, blocking : {"true", "false"}]]]
    /\ opened \in [Threads -> SUBSET Chains] /\ scoped \in [Threads -> BOOLEAN]

\* However many calls a method makes, and however many chains there are to ask about, it is
\* back within the one budget they share (budget.rs, Budget: bounded by its total and not
\* by its call count).
MethodsInTime ==
    \A t \in Threads : at[t] # "rest" => elapsed[t] <= TotalOf(method[t])

\* On the default timeouts fee_module is handed both its round trips, whatever the calls
\* in front of it took (budget.rs, FEES_BUDGET).
FeesHaveTheirTime ==
    \A t \in Threads, record \in Records :
        at[t] = "fees" /\ RoundTrip(record) <= 15000
            => FeesBudget(RoundTrip(record)) \in Grants(t)

\* A chain is reported as not blocked only if eth_rpc said so of it, and in so many words,
\* in this very call: neither a probe that is cut short nor one without an answer, and no
\* answer that cannot be read, is ever permission (verified.rs, readable; glue.rs,
\* verified_verdict_within).
GateFailsClosed ==
    \A t \in Threads, c \in Chains : LooksOpen(verdict[t][c]) => c \in opened[t]

\* A dependency is not asked for its defaults again only when it has them: an answer that is
\* refused, lost or late leaves the next call to ask (glue.rs, DepInit).
SeededMeansApplied == (seeded => applied) /\ (listSeeded => listApplied)

\* Nothing is read or written of a chain's tokens, and no fee is asked for, on a chain that
\* was out of scope throughout the call (glue.rs, in_scope_chain).
ChainWasInScope ==
    \A t \in Callers :
        method[t] \in ChainMethods /\ at[t] \notin {"seed", "registry", "reply"} => scoped[t]

\* A dependency that was not there at the startup gets its defaults from the reads that
\* follow, if a view reads the tokens of each chain again and again (glue.rs, chain_configs:
\* retried by the next read).
ReadsOn ==
    \A c \in Chains : []<>(\E t \in Callers : method[t] = "list_tokens" /\ chain[t] = c)

DefaultsArrive ==
    ReadsOn => <>[](applied /\ (inScope # {} => listApplied))

================================================================================
