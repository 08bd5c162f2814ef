------------------------------ MODULE Networks_proofs ------------------------------
(* What the reads and writes of chains and tokens keep, for any number of callers,     *)
(* chains and records, and whatever their calls take.                                *)
EXTENDS Networks, Registry_proofs

(* A thread's call: the method, the call it is at, what it has used, its chain, and   *)
(* whether that was in scope.                                                       *)
CallOK(m, a, e, c, s) ==
    /\ m \in Methods \cup {"startup", "none"} /\ a \in Calls \cup {"reply", "rest"}
    /\ e \in Nat /\ c \in Chains \cup {None} /\ s \in BOOLEAN
    /\ a = "rest" => m = "none" /\ e = 0
    /\ a # "rest" => e <= TotalOf(m)
    /\ a = "seed" => e = 0
    /\ a = "registry" => e <= InitBudget
    /\ a = "fees" => m = "suggest_fees" /\ e <= InitBudget + ProbeBudget
    /\ a # "rest" /\ c \in inScope => s
    /\ m \in ChainMethods /\ a \notin {"seed", "registry", "reply"} => s

CallsTyped ==
    /\ method \in [Threads -> Methods \cup {"startup", "none"}]
    /\ at \in [Threads -> Calls \cup {"reply", "rest"}]
    /\ elapsed \in [Threads -> Nat] /\ chain \in [Threads -> Chains \cup {None}]
    /\ scoped \in [Threads -> BOOLEAN]

CallsOK ==
    /\ CallsTyped
    /\ \A t \in Threads : CallOK(method[t], at[t], elapsed[t], chain[t], scoped[t])

VerdictKind == [state : {TRUE}, blocking : {"true", "false"}]

VerdictsOK ==
    /\ probes \in [Threads -> SUBSET Chains]
    /\ verdict \in [Threads -> [Chains -> VerdictKind]]
    /\ opened \in [Threads -> SUBSET Chains]
    /\ GateFailsClosed

OwnersOK ==
    /\ RegistryTypeOK /\ SeededMeansApplied
    /\ listApplied \in BOOLEAN /\ listSeeded \in BOOLEAN /\ startups \in 0 .. MaxStartups

NetworksInv == OwnersOK /\ CallsOK /\ VerdictsOK

--------------------------------------------------------------------------------
(* The time a call is granted.                                                     *)

LEMMA NetworksNumbers ==
    /\ InitBudget \in Nat /\ ProbeBudget \in Nat /\ OfferedBudget \in Nat /\ RpcBudget \in Nat
    /\ CatalogueBudget \in Nat /\ 0 <= InitBudget /\ 0 <= ProbeBudget
BY DEF InitBudget, ProbeBudget, OfferedBudget, RpcBudget, CatalogueBudget

LEMMA TotalIsNat ==
    ASSUME NEW m
    PROVE  TotalOf(m) \in Nat /\ 0 <= TotalOf(m)
BY DEF TotalOf, StartupBudget, FeesLimit, ReadBudget

LEMMA FeesOfRoundTrip ==
    ASSUME NEW rt \in Nat
    PROVE  /\ FeesBudget(rt) \in Nat /\ FeesBudget(rt) >= MinSlice
           /\ rt <= 15000 => InitBudget + ProbeBudget + FeesBudget(rt) <= FeesLimit
BY SMT DEF FeesBudget, Greater, CalleeMargin, RpcBudget, MinSlice, InitBudget, ProbeBudget,
           FeesLimit

LEMMA RecordRoundTrip ==
    ASSUME NEW record \in Records
    PROVE  RoundTrip(record) \in Nat
<1>1. record \in ChainRecords
    BY RecordsAreRecords
<1>2. SecondsOf(record) \in Nat
    BY <1>1 DEF ChainRecords, SecondsOf
<1>3. 1000 * SecondsOf(record) \in Nat /\ MaxRoundTrip \in Nat
    BY <1>2, SMT DEF MaxRoundTrip
<1> QED BY <1>3 DEF RoundTrip, Lesser

LEMMA PerCallIsNat ==
    ASSUME NEW call
    PROVE  PerCall(call) \subseteq Nat
<1>1. \A record \in Records : FeesBudget(RoundTrip(record)) \in Nat
    BY RecordRoundTrip, FeesOfRoundTrip
<1> QED BY <1>1, NetworksNumbers DEF PerCall

LEMMA GrantsFit ==
    ASSUME NEW t \in Threads, elapsed[t] \in Nat, elapsed[t] <= TotalOf(method[t]),
           NEW grant \in Grants(t), NEW d \in Nat, d <= grant
    PROVE  /\ grant \in Nat
           /\ elapsed[t] + d \in Nat /\ elapsed[t] + d <= TotalOf(method[t])
           /\ at[t] = "seed" => d <= InitBudget
           /\ at[t] = "registry" => d <= ProbeBudget
<1>1. PICK cap \in PerCall(at[t]) : grant = Slice(TotalOf(method[t]), elapsed[t], cap)
    BY DEF Grants
<1>2. cap \in Nat
    BY PerCallIsNat
<1>3. grant \in Nat /\ grant <= cap /\ elapsed[t] + grant <= TotalOf(method[t])
    BY <1>1, <1>2, TotalIsNat, ReadGrantFits
<1>4. (at[t] = "seed" => cap = InitBudget) /\ (at[t] = "registry" => cap = ProbeBudget)
    BY DEF PerCall
<1>5. elapsed[t] + d \in Nat /\ elapsed[t] + d <= TotalOf(method[t])
    BY <1>3, TotalIsNat
<1>6. at[t] = "seed" => d <= InitBudget
    BY <1>2, <1>3, <1>4
<1>7. at[t] = "registry" => d <= ProbeBudget
    BY <1>2, <1>3, <1>4
<1> QED BY <1>3, <1>5, <1>6, <1>7

\* What a call of a thread takes, answered or not.
LEMMA CallFits ==
    ASSUME NEW t \in Threads, elapsed[t] \in Nat, elapsed[t] <= TotalOf(method[t]),
           \E grant \in Grants(t) : \E d \in Spends(grant) : Takes(t, d)
    PROVE  \E d \in Nat : /\ Takes(t, d) /\ elapsed[t] + d \in Nat
                          /\ elapsed[t] + d <= TotalOf(method[t])
                          /\ at[t] = "registry" => d <= ProbeBudget
<1>1. PICK grant \in Grants(t) : \E d \in Spends(grant) : Takes(t, d)
    OBVIOUS
<1>2. PICK d \in Spends(grant) : Takes(t, d)
    BY <1>1
<1>3. grant \in Nat
    <2>1. PICK cap \in PerCall(at[t]) : grant = Slice(TotalOf(method[t]), elapsed[t], cap)
        BY <1>1 DEF Grants
    <2>2. cap \in Nat
        BY PerCallIsNat
    <2> QED BY <2>1, <2>2, TotalIsNat, ReadGrantFits
<1>4. d \in Nat /\ d <= grant
    BY <1>2, <1>3, CallsKeepTheirGrant
<1> QED BY <1>2, <1>4, GrantsFit

--------------------------------------------------------------------------------
(* One thread's step.                                                             *)

\* Whatever a thread does, the others' calls are what they were.
LEMMA ThreadMoves ==
    ASSUME CallsOK, NEW t \in Threads, inScope' = inScope,
           NEW m, NEW a, NEW e, NEW c, NEW s, CallOK(m, a, e, c, s),
           method' = [method EXCEPT ![t] = m], at' = [at EXCEPT ![t] = a],
           elapsed' = [elapsed EXCEPT ![t] = e], chain' = [chain EXCEPT ![t] = c],
           scoped' = [scoped EXCEPT ![t] = s]
    PROVE  CallsOK'
<1>1. /\ m \in Methods \cup {"startup", "none"} /\ a \in Calls \cup {"reply", "rest"}
      /\ e \in Nat /\ c \in Chains \cup {None} /\ s \in BOOLEAN
    BY DEF CallOK
<1>2. CallsTyped
    BY DEF CallsOK
<1>3. CallsTyped'
    BY <1>1, <1>2 DEF CallsTyped
<1>4. CallOK(m, a, e, c, s)'
    BY DEF CallOK
<1>5. ASSUME NEW u \in Threads
      PROVE  CallOK(method[u], at[u], elapsed[u], chain[u], scoped[u])'
    <2>1. CASE u = t
        <3>1. /\ method'[u] = m /\ at'[u] = a /\ elapsed'[u] = e /\ chain'[u] = c
              /\ scoped'[u] = s
            BY <2>1, <1>2 DEF CallsTyped
        <3> QED BY <3>1, <1>4 DEF CallOK
    <2>2. CASE u # t
        <3>1. /\ method'[u] = method[u] /\ at'[u] = at[u] /\ elapsed'[u] = elapsed[u]
              /\ chain'[u] = chain[u] /\ scoped'[u] = scoped[u]
            BY <2>2, <1>2 DEF CallsTyped
        <3> QED BY <3>1 DEF CallsOK, CallOK
    <2> QED BY <2>1, <2>2
<1> QED BY <1>3, <1>5 DEF CallsOK

LEMMA CallOf ==
    ASSUME CallsOK, NEW t \in Threads
    PROVE  /\ CallOK(method[t], at[t], elapsed[t], chain[t], scoped[t])
           /\ method[t] \in Methods \cup {"startup", "none"}
           /\ at[t] \in Calls \cup {"reply", "rest"}
           /\ elapsed[t] \in Nat /\ chain[t] \in Chains \cup {None} /\ scoped[t] \in BOOLEAN
           /\ method = [method EXCEPT ![t] = method[t]] /\ at = [at EXCEPT ![t] = at[t]]
           /\ elapsed = [elapsed EXCEPT ![t] = elapsed[t]]
           /\ chain = [chain EXCEPT ![t] = chain[t]]
           /\ scoped = [scoped EXCEPT ![t] = scoped[t]]
<1>1. CallOK(method[t], at[t], elapsed[t], chain[t], scoped[t])
    BY DEF CallsOK
<1>2. CallsTyped
    BY DEF CallsOK
<1> QED BY <1>1, <1>2 DEF CallsTyped, CallOK

LEMMA SameCalls ==
    ASSUME CallsOK, inScope' = inScope, UNCHANGED <<method, at, elapsed, chain, scoped>>
    PROVE  CallsOK'
BY DEF CallsOK, CallsTyped, CallOK

LEMMA SameVerdicts ==
    ASSUME VerdictsOK, UNCHANGED <<probes, verdict, opened>>
    PROVE  VerdictsOK'
BY DEF VerdictsOK, GateFailsClosed

LEMMA SameOwners ==
    ASSUME OwnersOK, UNCHANGED <<registry, listApplied, listSeeded, startups>>
    PROVE  OwnersOK'
BY DEF OwnersOK, RegistryTypeOK, SeededMeansApplied, registry

\* The next call of a thread is one whose conditions it meets.
LEMMA NextCallOK ==
    ASSUME CallsOK, NEW t \in Threads, NEW a \in Calls \cup {"reply"},
           at[t] # "rest", a # "seed", a # "registry", a # "fees",
           NEW e \in Nat, e <= TotalOf(method[t]),
           method[t] \in ChainMethods /\ a # "reply" => scoped[t]
    PROVE  CallOK(method[t], a, e, chain[t], scoped[t])
<1>1. /\ method[t] \in Methods \cup {"startup", "none"} /\ chain[t] \in Chains \cup {None}
      /\ scoped[t] \in BOOLEAN
      /\ chain[t] \in inScope => scoped[t]
    BY CallOf DEF CallOK
<1>2. a \in Calls \cup {"reply", "rest"} /\ a # "rest"
    BY DEF Calls
<1> QED BY <1>1, <1>2, Zenon DEF CallOK

LEMMA NetworksInitInv == NetworksInit => NetworksInv
<1> SUFFICES ASSUME NetworksInit PROVE NetworksInv
    OBVIOUS
<1>1. RegistryTypeOK /\ SeededMeansApplied
    <2>1. RegistryTypeOK /\ (seeded => applied) /\ listSeeded = FALSE
        BY RegistryInitOK, Zenon DEF NetworksInit
    <2> QED BY <2>1 DEF SeededMeansApplied
<1>2. OwnersOK
    <2>1. startups \in 0 .. MaxStartups
        BY MaxStartupsIsNat DEF NetworksInit
    <2>2. listApplied \in BOOLEAN /\ listSeeded = FALSE
        BY Zenon DEF NetworksInit
    <2> QED BY <1>1, <2>1, <2>2 DEF OwnersOK
<1>3. CallsOK
    BY DEF NetworksInit, CallsOK, CallsTyped, CallOK, ChainMethods
<1>4. VerdictsOK
    BY DEF NetworksInit, VerdictsOK, VerdictKind, GateFailsClosed, UnknownVerdict, LooksOpen
<1> QED BY <1>2, <1>3, <1>4 DEF NetworksInv

LEMMA EntersInv ==
    ASSUME NetworksInv, NEW t \in Threads, NEW m \in Methods \cup {"startup"},
           NEW c \in Chains \cup {None}, Enters(t, m, c), startups' \in 0 .. MaxStartups
    PROVE  NetworksInv'
<1>1. OwnersOK'
    BY DEF Enters, NetworksInv, OwnersOK, RegistryTypeOK, SeededMeansApplied, registry
<1>2. VerdictsOK'
    BY SameVerdicts DEF Enters, NetworksInv
<1>3. CallsOK /\ at[t] = "rest" /\ inScope' = inScope /\ elapsed' = elapsed
    BY DEF Enters, NetworksInv, registry
<1>4. elapsed[t] = 0
    BY <1>3, CallOf DEF CallOK
<1>5. CallOK(m, IF m \in Writes THEN "set" ELSE "seed", 0, c, c \in inScope)
    <2>1. 0 \in Nat /\ 0 <= TotalOf(m)
        BY TotalIsNat
    <2>2. (c \in inScope) \in BOOLEAN
        OBVIOUS
    <2>3. m \in ChainMethods => m \notin Writes
        BY DEF ChainMethods, Writes
    <2> QED BY <2>1, <2>2, <2>3 DEF CallOK, Calls
<1>6. CallsOK'
    <2> DEFINE a == IF m \in Writes THEN "set" ELSE "seed"
               s == c \in inScope
    <2>1. elapsed' = [elapsed EXCEPT ![t] = 0]
        BY <1>3, <1>4, CallOf
    <2>2. CallOK(m, a, 0, c, s)
        BY <1>5
    <2>3. /\ method' = [method EXCEPT ![t] = m] /\ at' = [at EXCEPT ![t] = a]
          /\ chain' = [chain EXCEPT ![t] = c] /\ scoped' = [scoped EXCEPT ![t] = s]
        BY DEF Enters
    <2> HIDE DEF a, s
    <2> QED BY <1>3, <2>1, <2>2, <2>3, ThreadMoves
<1> QED BY <1>1, <1>2, <1>6 DEF NetworksInv

LEMMA ReturnsInv ==
    ASSUME NetworksInv, NEW t \in Threads, Returns(t)
    PROVE  NetworksInv'
<1>1. OwnersOK'
    BY SameOwners DEF Returns, NetworksInv
<1>2. CallOK("none", "rest", 0, None, FALSE)
    BY DEF CallOK, Chains, None, ChainMethods
<1>3. CallsOK /\ inScope' = inScope
    BY DEF Returns, NetworksInv, registry
<1>4. CallsOK'
    BY <1>2, <1>3, ThreadMoves DEF Returns
<1>5. VerdictsOK'
    <2>1. probes' = probes /\ VerdictsOK
        BY DEF Returns, NetworksInv
    <2>2. [c \in Chains |-> UnknownVerdict] \in [Chains -> VerdictKind]
        BY DEF UnknownVerdict, VerdictKind
    <2>3. verdict' \in [Threads -> [Chains -> VerdictKind]]
        BY <2>1, <2>2 DEF Returns, VerdictsOK
    <2>4. opened' \in [Threads -> SUBSET Chains]
        BY <2>1 DEF Returns, VerdictsOK
    <2>5. ASSUME NEW u \in Threads, NEW c \in Chains, LooksOpen(verdict'[u][c])
          PROVE  c \in opened'[u]
        <3>1. u # t
            BY <2>1, <2>5 DEF Returns, VerdictsOK, LooksOpen, UnknownVerdict
        <3> QED BY <2>1, <2>5, <3>1 DEF Returns, VerdictsOK, GateFailsClosed
    <2> QED BY <2>1, <2>3, <2>4, <2>5 DEF VerdictsOK, GateFailsClosed
<1> QED BY <1>1, <1>4, <1>5 DEF NetworksInv

\* A step of a thread from one of its calls to the next, that tells it nothing of a verdict.
LEMMA AdvancingStep ==
    ASSUME NetworksInv, NEW t \in Threads, NEW a, NEW e, inScope' = inScope,
           CallOK(method[t], a, e, chain[t], scoped[t]), OwnersOK',
           at' = [at EXCEPT ![t] = a], elapsed' = [elapsed EXCEPT ![t] = e],
           UNCHANGED <<method, chain, scoped, verdict, opened>>, VerdictsOK'
    PROVE  NetworksInv'
<1>1. CallsOK
    BY DEF NetworksInv
<1>2. /\ method' = [method EXCEPT ![t] = method[t]]
      /\ chain' = [chain EXCEPT ![t] = chain[t]]
      /\ scoped' = [scoped EXCEPT ![t] = scoped[t]]
    BY <1>1, CallOf
<1> DEFINE m == method[t]
           c == chain[t]
           s == scoped[t]
<1>3. /\ CallOK(m, a, e, c, s)
      /\ method' = [method EXCEPT ![t] = m] /\ chain' = [chain EXCEPT ![t] = c]
      /\ scoped' = [scoped EXCEPT ![t] = s]
    BY <1>2
<1> HIDE DEF m, c, s
<1>4. CallsOK'
    BY <1>1, <1>3, ThreadMoves
<1> QED BY <1>4 DEF NetworksInv

LEMMA RunningCall ==
    ASSUME NetworksInv, NEW t \in Threads, at[t] # "rest"
    PROVE  /\ CallsOK /\ OwnersOK /\ VerdictsOK
           /\ elapsed[t] \in Nat /\ elapsed[t] <= TotalOf(method[t])
           /\ at[t] = "seed" => elapsed[t] = 0
           /\ at[t] = "registry" => elapsed[t] <= InitBudget
           /\ method[t] \in ChainMethods /\ at[t] \notin {"seed", "registry", "reply"}
                  => scoped[t]
           /\ chain[t] \in inScope => scoped[t]
<1>1. CallsOK /\ OwnersOK /\ VerdictsOK
    BY DEF NetworksInv
<1>2. CallOK(method[t], at[t], elapsed[t], chain[t], scoped[t])
    BY <1>1, CallOf
<1> QED BY <1>1, <1>2 DEF CallOK

LEMMA EnsureEthRpcInv ==
    ASSUME NetworksInv, NEW t \in Threads, EnsureEthRpc(t)
    PROVE  NetworksInv'
<1>1. PICK grant \in Grants(t) : \E s \in AfterEnsuring(seeded, applied, grant) :
          seeded' = s.flag /\ applied' = s.has /\ Takes(t, s.took)
    BY DEF EnsureEthRpc
<1>2. PICK s \in AfterEnsuring(seeded, applied, grant) :
          seeded' = s.flag /\ applied' = s.has /\ Takes(t, s.took)
    BY <1>1
<1>3. /\ at[t] = "seed" /\ Advances(t) /\ inScope' = inScope /\ moves' = moves
      /\ UNCHANGED <<listApplied, listSeeded, startups, chain, probes, verdict, opened, scoped>>
    BY DEF EnsureEthRpc
<1>4. /\ CallsOK /\ OwnersOK /\ VerdictsOK
      /\ elapsed[t] = 0 /\ elapsed[t] \in Nat /\ elapsed[t] <= TotalOf(method[t])
    BY <1>3, RunningCall
<1>5. RegistryTypeOK /\ seeded \in BOOLEAN /\ applied \in BOOLEAN /\ (seeded => applied)
    BY <1>4 DEF OwnersOK, RegistryTypeOK, SeededMeansApplied
<1>6. grant \in Nat
    <2>1. 0 \in Nat /\ PerCall(at[t]) \subseteq Nat
        BY PerCallIsNat
    <2>2. PICK cap \in PerCall(at[t]) : grant = Slice(TotalOf(method[t]), elapsed[t], cap)
        BY <1>1 DEF Grants
    <2> QED BY <2>1, <2>2, <1>4, TotalIsNat, ReadGrantFits
<1>7. /\ s.flag \in BOOLEAN /\ s.has \in BOOLEAN /\ s.took \in Nat /\ s.took <= grant
      /\ s.flag => s.has
    BY <1>2, <1>5, <1>6, EnsuringFits
<1>8. /\ elapsed[t] + s.took \in Nat /\ elapsed[t] + s.took <= TotalOf(method[t])
      /\ elapsed[t] + s.took <= InitBudget
    <2>1. /\ elapsed[t] + s.took \in Nat /\ elapsed[t] + s.took <= TotalOf(method[t])
          /\ s.took <= InitBudget
        BY <1>1, <1>3, <1>4, <1>7, GrantsFit
    <2>2. elapsed[t] + s.took = s.took
        BY <1>4, <1>7
    <2> QED BY <2>1, <2>2
<1>9. OwnersOK'
    BY <1>2, <1>3, <1>4, <1>7 DEF OwnersOK, RegistryTypeOK, SeededMeansApplied
<1>10. VerdictsOK'
    BY <1>3, <1>4, SameVerdicts
<1>11. After(method[t], "seed") \in {"seedList", "registry"}
       /\ (method[t] \in ChainMethods => After(method[t], "seed") = "registry")
    BY DEF After, ChainMethods
<1>12. CallOK(method[t], After(method[t], at[t]), elapsed[t] + s.took, chain[t], scoped[t])
    <2>1. /\ method[t] \in Methods \cup {"startup", "none"} /\ chain[t] \in Chains \cup {None}
          /\ scoped[t] \in BOOLEAN /\ (chain[t] \in inScope => scoped[t])
        BY <1>3, <1>4, CallOf, RunningCall
    <2>2. After(method[t], at[t]) \in Calls \cup {"reply", "rest"}
        BY <1>3, <1>11 DEF Calls
    <2> QED BY <2>1, <2>2, <1>3, <1>8, <1>11, Zenon DEF CallOK
<1> QED BY <1>2, <1>3, <1>9, <1>10, <1>12, AdvancingStep DEF Advances, Takes

LEMMA EnsureTokenListInv ==
    ASSUME NetworksInv, NEW t \in Threads, EnsureTokenList(t)
    PROVE  NetworksInv'
<1>1. PICK grant \in Grants(t) : \E s \in AfterEnsuring(listSeeded, listApplied, grant) :
          listSeeded' = s.flag /\ listApplied' = s.has /\ Takes(t, s.took)
    BY DEF EnsureTokenList
<1>2. PICK s \in AfterEnsuring(listSeeded, listApplied, grant) :
          listSeeded' = s.flag /\ listApplied' = s.has /\ Takes(t, s.took)
    BY <1>1
<1>3. /\ at[t] = "seedList" /\ Advances(t)
      /\ UNCHANGED <<registry, startups, chain, probes, verdict, opened, scoped>>
    BY DEF EnsureTokenList
<1>4. /\ CallsOK /\ OwnersOK /\ VerdictsOK
      /\ elapsed[t] \in Nat /\ elapsed[t] <= TotalOf(method[t])
      /\ method[t] \in ChainMethods => scoped[t]
    BY <1>3, RunningCall
<1>5. listSeeded \in BOOLEAN /\ listApplied \in BOOLEAN /\ (listSeeded => listApplied)
    BY <1>4 DEF OwnersOK, SeededMeansApplied
<1>6. grant \in Nat
    <2>1. PICK cap \in PerCall(at[t]) : grant = Slice(TotalOf(method[t]), elapsed[t], cap)
        BY <1>1 DEF Grants
    <2> QED BY <2>1, <1>4, PerCallIsNat, TotalIsNat, ReadGrantFits
<1>7. /\ s.flag \in BOOLEAN /\ s.has \in BOOLEAN /\ s.took \in Nat /\ s.took <= grant
      /\ s.flag => s.has
    BY <1>2, <1>5, <1>6, EnsuringFits
<1>8. elapsed[t] + s.took \in Nat /\ elapsed[t] + s.took <= TotalOf(method[t])
    BY <1>1, <1>4, <1>7, GrantsFit
<1>9. OwnersOK'
    BY <1>2, <1>3, <1>4, <1>7
       DEF OwnersOK, RegistryTypeOK, SeededMeansApplied, registry
<1>10. VerdictsOK'
    BY <1>3, <1>4, SameVerdicts
<1>11. After(method[t], at[t]) \in {"offered", "native", "write", "reply"}
    BY <1>3 DEF After
<1>12. CallOK(method[t], After(method[t], at[t]), elapsed[t] + s.took, chain[t], scoped[t])
    BY <1>3, <1>4, <1>8, <1>11, NextCallOK DEF Calls
<1> QED BY <1>2, <1>3, <1>9, <1>10, <1>12, AdvancingStep DEF Advances, Takes, registry

LEMMA AnsweredTakes ==
    ASSUME NEW t \in Threads, Answered(t)
    PROVE  \E grant \in Grants(t) : \E d \in Spends(grant) : Takes(t, d)
BY DEF Answered

LEMMA ReadRegistryInv ==
    ASSUME NetworksInv, NEW t \in Threads, ReadRegistry(t)
    PROVE  NetworksInv'
<1>1. /\ at[t] = "registry" /\ Answered(t) /\ Advances(t)
      /\ method[t] \in ChainMethods => InScope(t)
      /\ UNCHANGED <<registry, listApplied, listSeeded, startups, chain, verdict, opened, scoped>>
    BY DEF ReadRegistry
<1>2. /\ CallsOK /\ OwnersOK /\ VerdictsOK
      /\ elapsed[t] \in Nat /\ elapsed[t] <= TotalOf(method[t]) /\ elapsed[t] <= InitBudget
      /\ method[t] \in ChainMethods => scoped[t]
    BY <1>1, RunningCall DEF InScope
<1>3. PICK d \in Nat : /\ Takes(t, d) /\ elapsed[t] + d \in Nat
                       /\ elapsed[t] + d <= TotalOf(method[t]) /\ d <= ProbeBudget
    BY <1>1, <1>2, AnsweredTakes, CallFits
<1>4. elapsed[t] + d <= InitBudget + ProbeBudget
    BY <1>2, <1>3, NetworksNumbers
<1>5. OwnersOK'
    BY <1>1, <1>2, SameOwners
<1>6. VerdictsOK'
    <2>1. inScope \subseteq Chains
        BY <1>2 DEF OwnersOK, RegistryTypeOK
    <2>2. probes' \in [Threads -> SUBSET Chains]
        <3> DEFINE asked == CASE method[t] = "list_networks" -> Chains
                              [] method[t] = "verified_proxy_state" -> inScope
                              [] OTHER -> {}
        <3>1. asked \subseteq Chains
            BY <2>1
        <3>2. probes' = [probes EXCEPT ![t] = asked]
            BY DEF ReadRegistry
        <3> HIDE DEF asked
        <3> QED BY <1>2, <3>1, <3>2 DEF VerdictsOK
    <2> QED BY <1>1, <1>2, <2>2 DEF VerdictsOK, GateFailsClosed
<1>7. After(method[t], at[t]) \in {"verdicts", "fees", "seedList"}
      /\ (After(method[t], at[t]) = "fees" => method[t] = "suggest_fees")
    BY <1>1 DEF After
<1>8. CallOK(method[t], After(method[t], at[t]), elapsed[t] + d, chain[t], scoped[t])
    <2>1. /\ method[t] \in Methods \cup {"startup", "none"} /\ chain[t] \in Chains \cup {None}
          /\ scoped[t] \in BOOLEAN /\ (chain[t] \in inScope => scoped[t])
        BY <1>1, <1>2, CallOf, RunningCall
    <2>2. After(method[t], at[t]) \in Calls \cup {"reply", "rest"}
        BY <1>7 DEF Calls
    <2> QED BY <2>1, <2>2, <1>2, <1>3, <1>4, <1>7, Zenon DEF CallOK
<1> QED BY <1>1, <1>3, <1>5, <1>6, <1>8, AdvancingStep DEF Advances, Takes, registry

\* A verdict that looks open is one eth_rpc was just heard to give.
LEMMA ProbeKeepsVerdicts ==
    ASSUME VerdictsOK, NEW t \in Threads, NEW c \in Chains, NEW v \in VerdictKind,
           NEW o \in SUBSET Chains, opened[t] \subseteq o, LooksOpen(v) => c \in o,
           verdict' = [verdict EXCEPT ![t][c] = v], opened' = [opened EXCEPT ![t] = o],
           probes' = [probes EXCEPT ![t] = @ \ {c}]
    PROVE  VerdictsOK'
<1>1. /\ probes \in [Threads -> SUBSET Chains]
      /\ verdict \in [Threads -> [Chains -> VerdictKind]]
      /\ opened \in [Threads -> SUBSET Chains]
      /\ GateFailsClosed
    BY DEF VerdictsOK
<1>2. probes' \in [Threads -> SUBSET Chains]
    BY <1>1
<1>3. opened' \in [Threads -> SUBSET Chains]
    BY <1>1
<1>4. verdict' \in [Threads -> [Chains -> VerdictKind]]
    BY <1>1
<1>5. ASSUME NEW u \in Threads, NEW d \in Chains, LooksOpen(verdict'[u][d])
      PROVE  d \in opened'[u]
    <2>1. CASE u = t /\ d = c
        BY <2>1, <1>1, <1>5
    <2>2. CASE ~(u = t /\ d = c)
        <3>1. verdict'[u][d] = verdict[u][d]
            BY <2>2, <1>1
        <3>2. d \in opened[u]
            BY <3>1, <1>1, <1>5 DEF GateFailsClosed
        <3> QED BY <3>2, <1>1
    <2> QED BY <2>1, <2>2
<1> QED BY <1>2, <1>3, <1>4, <1>5 DEF VerdictsOK, GateFailsClosed

LEMMA ProbesInv ==
    ASSUME NetworksInv, NEW t \in Threads, NEW c \in Chains, Verdict(t, c) \/ NoVerdict(t, c)
    PROVE  NetworksInv'
<1>1. /\ at[t] = "verdicts" /\ probes' = [probes EXCEPT ![t] = @ \ {c}]
      /\ UNCHANGED <<registry, listApplied, listSeeded, startups, method, at, chain, scoped>>
    BY DEF Verdict, NoVerdict, Probing
<1>2. /\ CallsOK /\ OwnersOK /\ VerdictsOK
      /\ elapsed[t] \in Nat /\ elapsed[t] <= TotalOf(method[t])
      /\ method[t] \in ChainMethods => scoped[t]
    BY <1>1, RunningCall
<1>3. PICK d \in Nat : /\ Takes(t, d) /\ elapsed[t] + d \in Nat
                       /\ elapsed[t] + d <= TotalOf(method[t])
    BY <1>2, AnsweredTakes, CallFits DEF Verdict, NoVerdict
<1>4. CallOK(method[t], "verdicts", elapsed[t] + d, chain[t], scoped[t])
    BY <1>1, <1>2, <1>3, NextCallOK DEF Calls
<1>5. OwnersOK'
    BY <1>1, <1>2, SameOwners
<1>6. VerdictsOK'
    <2>1. CASE Verdict(t, c)
        <3>1. PICK v \in Verdicts :
                  /\ verdict' = [verdict EXCEPT ![t][c] = Normalized(v)]
                  /\ opened' = [opened EXCEPT ![t] =
                                  IF v.state /\ v.blocking = "false" THEN @ \cup {c} ELSE @]
            BY <2>1 DEF Verdict
        <3> DEFINE o == IF v.state /\ v.blocking = "false" THEN opened[t] \cup {c}
                                                           ELSE opened[t]
        <3>2. opened[t] \subseteq Chains
            BY <1>2 DEF VerdictsOK
        <3>3. o \in SUBSET Chains /\ opened[t] \subseteq o /\ opened' = [opened EXCEPT ![t] = o]
            BY <3>1, <3>2
        <3>4. Normalized(v) \in VerdictKind /\ (LooksOpen(Normalized(v)) => c \in o)
            BY DEF Normalized, Readable, UnknownVerdict, VerdictKind, Verdicts, LooksOpen
        <3> HIDE DEF o
        <3> QED BY <1>1, <1>2, <3>1, <3>3, <3>4, ProbeKeepsVerdicts
    <2>2. CASE NoVerdict(t, c)
        <3>1. verdict' = [verdict EXCEPT ![t][c] = UnknownVerdict] /\ opened' = opened
            BY <2>2 DEF NoVerdict
        <3>2. UnknownVerdict \in VerdictKind /\ ~LooksOpen(UnknownVerdict)
            BY DEF UnknownVerdict, VerdictKind, LooksOpen
        <3>3. opened[t] \in SUBSET Chains /\ opened' = [opened EXCEPT ![t] = opened[t]]
            BY <1>2, <3>1 DEF VerdictsOK
        <3> QED BY <1>1, <1>2, <3>1, <3>2, <3>3, ProbeKeepsVerdicts
    <2> QED BY <2>1, <2>2
<1>7. CallsOK'
    <2> DEFINE m == method[t]
               k == chain[t]
               s == scoped[t]
               e == elapsed[t] + d
    <2>1. CallOK(m, "verdicts", e, k, s) /\ inScope' = inScope
        BY <1>1, <1>4 DEF registry
    <2>2. /\ method' = [method EXCEPT ![t] = m] /\ chain' = [chain EXCEPT ![t] = k]
          /\ scoped' = [scoped EXCEPT ![t] = s] /\ at' = [at EXCEPT ![t] = "verdicts"]
          /\ elapsed' = [elapsed EXCEPT ![t] = e]
        BY <1>1, <1>2, <1>3, CallOf DEF Takes
    <2> HIDE DEF m, k, s, e
    <2> QED BY <1>2, <2>1, <2>2, ThreadMoves
<1> QED BY <1>5, <1>6, <1>7 DEF NetworksInv

LEMMA AsksInv ==
    ASSUME NetworksInv, NEW t \in Threads, Asks(t)
    PROVE  NetworksInv'
<1>1. /\ at[t] \in {"offered", "native", "assets", "page", "write", "fees"}
      /\ Answered(t) /\ Advances(t)
      /\ UNCHANGED <<registry, listApplied, listSeeded, startups, chain, probes, verdict,
                     opened, scoped>>
    BY DEF Asks
<1>2. /\ CallsOK /\ OwnersOK /\ VerdictsOK
      /\ elapsed[t] \in Nat /\ elapsed[t] <= TotalOf(method[t])
      /\ method[t] \in ChainMethods => scoped[t]
    BY <1>1, RunningCall
<1>3. PICK d \in Nat : /\ Takes(t, d) /\ elapsed[t] + d \in Nat
                       /\ elapsed[t] + d <= TotalOf(method[t])
    BY <1>1, <1>2, AnsweredTakes, CallFits
<1>4. After(method[t], at[t]) \in {"assets", "page", "reply"}
    BY <1>1 DEF After
<1>5. CallOK(method[t], After(method[t], at[t]), elapsed[t] + d, chain[t], scoped[t])
    BY <1>1, <1>2, <1>3, <1>4, NextCallOK DEF Calls
<1>6. OwnersOK' /\ VerdictsOK' /\ inScope' = inScope
    BY <1>1, <1>2, SameOwners, SameVerdicts DEF registry
<1> QED BY <1>1, <1>3, <1>5, <1>6, AdvancingStep DEF Advances, Takes

LEMMA RefusedInv ==
    ASSUME NetworksInv, NEW t \in Threads, Refused(t) \/ SettingsFail(t)
    PROVE  NetworksInv'
<1>1. /\ at[t] # "rest" /\ at' = [at EXCEPT ![t] = "reply"]
      /\ UNCHANGED <<registry, listApplied, listSeeded, startups, method, chain, probes,
                     verdict, opened, scoped>>
    BY DEF Refused, SettingsFail, Calls
<1>2. /\ CallsOK /\ OwnersOK /\ VerdictsOK
      /\ elapsed[t] \in Nat /\ elapsed[t] <= TotalOf(method[t])
    BY <1>1, RunningCall
<1>3. PICK e \in Nat : elapsed' = [elapsed EXCEPT ![t] = e] /\ e <= TotalOf(method[t])
    <2>1. CASE Refused(t)
        <3>1. PICK d \in Nat : /\ Takes(t, d) /\ elapsed[t] + d \in Nat
                               /\ elapsed[t] + d <= TotalOf(method[t])
            BY <1>2, <2>1, CallFits DEF Refused
        <3> QED BY <3>1 DEF Takes
    <2>2. CASE SettingsFail(t)
        BY <1>2, <2>2, CallOf DEF SettingsFail
    <2> QED BY <2>1, <2>2
<1>4. CallOK(method[t], "reply", e, chain[t], scoped[t])
    BY <1>1, <1>2, <1>3, NextCallOK
<1>5. OwnersOK' /\ VerdictsOK' /\ inScope' = inScope
    BY <1>1, <1>2, SameOwners, SameVerdicts DEF registry
<1> QED BY <1>1, <1>3, <1>4, <1>5, AdvancingStep

--------------------------------------------------------------------------------
(* The scope moves.                                                                *)

LEMMA MovedScope ==
    ASSUME CallsOK, SeesScope, UNCHANGED <<method, at, elapsed, chain>>
    PROVE  CallsOK'
<1>1. CallsTyped
    BY DEF CallsOK
<1>2. \A u \in Threads : scoped'[u] = (scoped[u] \/ (at[u] # "rest" /\ chain[u] \in inScope'))
    BY DEF SeesScope
<1>3. scoped' \in [Threads -> BOOLEAN]
    BY <1>1 DEF SeesScope, CallsTyped
<1>4. CallsTyped'
    BY <1>1, <1>3 DEF CallsTyped
<1>5. ASSUME NEW u \in Threads
      PROVE  CallOK(method[u], at[u], elapsed[u], chain[u], scoped[u])'
    <2>1. CallOK(method[u], at[u], elapsed[u], chain[u], scoped[u])
        BY DEF CallsOK
    <2>2. scoped'[u] \in BOOLEAN
        BY <1>3
    <2>3. /\ scoped[u] => scoped'[u]
          /\ at[u] # "rest" /\ chain[u] \in inScope' => scoped'[u]
        BY <1>2
    <2> QED BY <2>1, <2>2, <2>3, Zenon DEF CallOK
<1> QED BY <1>4, <1>5 DEF CallsOK

LEMMA OwnersSeeMoves ==
    ASSUME OwnersOK, ScopeMoves \/ UNCHANGED registry,
           UNCHANGED <<listApplied, listSeeded, startups>>
    PROVE  OwnersOK'
<1>1. RegistryTypeOK' /\ seeded' = seeded /\ applied' = applied
    BY MovingKeepsRegistry DEF OwnersOK, RegistryTypeOK, registry
<1> QED BY <1>1 DEF OwnersOK, SeededMeansApplied

LEMMA ScopeIsMovedElsewhereInv == NetworksInv /\ ScopeIsMovedElsewhere => NetworksInv'
BY MovedScope, OwnersSeeMoves, SameVerdicts DEF ScopeIsMovedElsewhere, NetworksInv

LEMMA SetScopeInv ==
    ASSUME NetworksInv, NEW t \in Threads, SetScope(t)
    PROVE  NetworksInv'
<1>1. /\ at[t] = "set" /\ Answered(t) /\ Advances(t) /\ SeesScope
      /\ ScopeMoves \/ UNCHANGED registry
      /\ UNCHANGED <<listApplied, listSeeded, startups, chain, probes, verdict, opened>>
    BY DEF SetScope
<1>2. /\ CallsOK /\ OwnersOK /\ VerdictsOK
      /\ elapsed[t] \in Nat /\ elapsed[t] <= TotalOf(method[t])
    BY <1>1, RunningCall
<1>3. PICK d \in Nat : /\ Takes(t, d) /\ elapsed[t] + d \in Nat
                       /\ elapsed[t] + d <= TotalOf(method[t])
    BY <1>1, <1>2, AnsweredTakes, CallFits
<1>4. After(method[t], at[t]) = "reply"
    BY <1>1 DEF After
<1>5. /\ method' = method /\ chain' = chain /\ at' = [at EXCEPT ![t] = "reply"]
      /\ elapsed' = [elapsed EXCEPT ![t] = @ + d]
    BY <1>1, <1>3, <1>4 DEF Advances, Takes
<1>6. CallsTyped
    BY <1>2 DEF CallsOK
<1>7. /\ scoped' \in [Threads -> BOOLEAN]
      /\ \A u \in Threads : scoped'[u] = (scoped[u] \/ (at[u] # "rest" /\ chain[u] \in inScope'))
    BY <1>1, <1>6 DEF SeesScope, CallsTyped
<1>8. CallsTyped'
    BY <1>3, <1>5, <1>6, <1>7 DEF CallsTyped
<1>9. ASSUME NEW u \in Threads
      PROVE  CallOK(method[u], at[u], elapsed[u], chain[u], scoped[u])'
    <2>1. CallOK(method[u], at[u], elapsed[u], chain[u], scoped[u])
        BY <1>2 DEF CallsOK
    <2>2. scoped'[u] \in BOOLEAN
        BY <1>7
    <2>3. /\ scoped[u] => scoped'[u]
          /\ at[u] # "rest" /\ chain[u] \in inScope' => scoped'[u]
        BY <1>7
    <2>4. CASE u = t
        <3>1. at'[u] = "reply" /\ elapsed'[u] = elapsed[t] + d
            BY <2>4, <1>5, <1>6 DEF CallsTyped
        <3>2. "reply" \in Calls \cup {"reply", "rest"}
            OBVIOUS
        <3> QED BY <2>1, <2>2, <2>3, <2>4, <3>1, <3>2, <1>1, <1>3, <1>5, Zenon DEF CallOK
    <2>5. CASE u # t
        <3>1. at'[u] = at[u] /\ elapsed'[u] = elapsed[u]
            BY <2>5, <1>5, <1>6 DEF CallsTyped
        <3> QED BY <2>1, <2>2, <2>3, <3>1, <1>5, Zenon DEF CallOK
    <2> QED BY <2>4, <2>5
<1>10. OwnersOK' /\ VerdictsOK'
    BY <1>1, <1>2, OwnersSeeMoves, SameVerdicts
<1> QED BY <1>8, <1>9, <1>10 DEF CallsOK, NetworksInv

--------------------------------------------------------------------------------
LEMMA NetworksStep == NetworksInv /\ [NetworksNext]_networksVars => NetworksInv'
<1> SUFFICES ASSUME NetworksInv, [NetworksNext]_networksVars PROVE NetworksInv'
    OBVIOUS
<1>1. CASE Startup
    <2>1. startups' \in 0 .. MaxStartups
        BY <1>1, MaxStartupsIsNat DEF Startup, NetworksInv, OwnersOK
    <2>2. Host \in Threads /\ None \in Chains \cup {None} /\ "startup" \in Methods \cup {"startup"}
        BY DEF Threads
    <2> QED BY <1>1, <2>1, <2>2, EntersInv DEF Startup
<1>2. CASE ScopeIsMovedElsewhere
    BY <1>2, ScopeIsMovedElsewhereInv
<1>3. ASSUME NEW t \in Threads, Goes(t) PROVE NetworksInv'
    <2>1. CASE EnsureEthRpc(t) \/ EnsureTokenList(t) \/ ReadRegistry(t)
        BY <2>1, EnsureEthRpcInv, EnsureTokenListInv, ReadRegistryInv
    <2>2. CASE Returns(t) \/ Asks(t) \/ SetScope(t)
        BY <2>2, ReturnsInv, AsksInv, SetScopeInv
    <2>3. CASE Refused(t) \/ SettingsFail(t)
        BY <2>3, RefusedInv
    <2>4. ASSUME NEW c \in Chains, Verdict(t, c) \/ NoVerdict(t, c) PROVE NetworksInv'
        BY <2>4, ProbesInv
    <2> QED BY <1>3, <2>1, <2>2, <2>3, <2>4, Zenon DEF Goes
<1>4. ASSUME NEW t \in Threads, NEW m \in Methods, NEW c \in Chains \cup {None}, Begin(t, m, c)
      PROVE  NetworksInv'
    <2>1. startups' \in 0 .. MaxStartups
        BY <1>4 DEF Begin, NetworksInv, OwnersOK
    <2> QED BY <1>4, <2>1, EntersInv DEF Begin
<1>5. CASE UNCHANGED networksVars
    <2>1. /\ UNCHANGED <<registry, listApplied, listSeeded, startups>>
          /\ UNCHANGED <<probes, verdict, opened>> /\ inScope' = inScope
          /\ UNCHANGED <<method, at, elapsed, chain, scoped>>
        BY <1>5 DEF networksVars, registry
    <2> QED BY <2>1, SameOwners, SameVerdicts, SameCalls DEF NetworksInv
<1> QED BY <1>1, <1>2, <1>3, <1>4, <1>5, Zenon DEF NetworksNext

(* The types of Networks; a verdict always says whether it blocks.                  *)
THEOREM NetworksTypeCorrect == NetworksSpec => []NetworksTypeOK
<1>1. NetworksInv => NetworksTypeOK
    BY DEF NetworksInv, OwnersOK, CallsOK, CallsTyped, VerdictsOK, VerdictKind, NetworksTypeOK
<1> QED BY <1>1, NetworksInitInv, NetworksStep, PTL DEF NetworksSpec

(* A verdict that looks open was given in so many words in this very call, however     *)
(* many chains are asked about and however little time is left for the last of them.   *)
THEOREM ClosedUnlessToldSo == NetworksSpec => []GateFailsClosed
<1>1. NetworksInv => GateFailsClosed
    BY DEF NetworksInv, VerdictsOK
<1> QED BY <1>1, NetworksInitInv, NetworksStep, PTL DEF NetworksSpec

(* A method ends within its one budget, however many chains it asks about.             *)
THEOREM WithinOneBudget == NetworksSpec => []MethodsInTime
<1>1. NetworksInv => MethodsInTime
    BY DEF NetworksInv, CallsOK, CallOK, MethodsInTime
<1> QED BY <1>1, NetworksInitInv, NetworksStep, PTL DEF NetworksSpec

(* Neither dependency is passed over before it has its defaults, whoever asks first.    *)
THEOREM DefaultsBeforeFlags == NetworksSpec => []SeededMeansApplied
<1>1. NetworksInv => SeededMeansApplied
    BY DEF NetworksInv, OwnersOK
<1> QED BY <1>1, NetworksInitInv, NetworksStep, PTL DEF NetworksSpec

(* No token is read or written, and no fee asked for, on a chain that was out of scope  *)
(* throughout, whatever the other callers and apps do to the scope meanwhile.          *)
THEOREM OnlyInScope == NetworksSpec => []ChainWasInScope
<1>1. NetworksInv => ChainWasInScope
    BY DEF NetworksInv, CallsOK, CallOK, ChainWasInScope, Threads
<1> QED BY <1>1, NetworksInitInv, NetworksStep, PTL DEF NetworksSpec

\* What suggest_fees may have used by the time it asks leaves the fees their share.
LEMMA FeesAreReserved == ASSUME NetworksInv PROVE FeesHaveTheirTime
<1> SUFFICES ASSUME NEW t \in Threads, NEW record \in Records,
                    at[t] = "fees", RoundTrip(record) <= 15000
             PROVE  FeesBudget(RoundTrip(record)) \in Grants(t)
    BY DEF FeesHaveTheirTime
<1> DEFINE fees == FeesBudget(RoundTrip(record))
<1>1. /\ fees \in Nat /\ fees >= MinSlice
      /\ InitBudget + ProbeBudget + fees <= FeesLimit
    BY RecordRoundTrip, FeesOfRoundTrip
<1>2. /\ method[t] = "suggest_fees" /\ elapsed[t] \in Nat
      /\ elapsed[t] <= InitBudget + ProbeBudget
    BY DEF NetworksInv, CallsOK, CallOK
<1>3. TotalOf(method[t]) = FeesLimit /\ FeesLimit \in Nat
    BY <1>2, TotalIsNat DEF TotalOf
<1>4. fees \in PerCall(at[t])
    BY DEF PerCall
<1> HIDE DEF fees
<1>5. elapsed[t] + fees <= FeesLimit
    BY <1>1, <1>2, <1>3, NetworksNumbers
<1>6. Slice(TotalOf(method[t]), elapsed[t], fees) = fees
    <2>1. ASSUME NEW e \in Nat, e + fees <= FeesLimit PROVE Slice(FeesLimit, e, fees) = fees
        <3>1. FeesLimit - e >= fees
            BY <1>1, <1>3, <2>1
        <3>2. Lesser(FeesLimit - e, fees) = fees
            BY <1>1, <1>3, <2>1, <3>1 DEF Lesser
        <3> QED BY <1>1, <3>2 DEF Slice
    <2> QED BY <1>2, <1>3, <1>5, <2>1
<1>7. fees \in Grants(t)
    BY <1>4, <1>6 DEF Grants
<1> QED BY <1>7 DEF fees

(* fee_module is handed both its round trips of a chain that has a timeout of fifteen   *)
(* seconds or less, whatever the calls in front of it took.                          *)
THEOREM FeesAreGranted == NetworksSpec => []FeesHaveTheirTime
<1>1. NetworksInv => FeesHaveTheirTime
    BY FeesAreReserved
<1> QED BY <1>1, NetworksInitInv, NetworksStep, PTL DEF NetworksSpec

================================================================================
