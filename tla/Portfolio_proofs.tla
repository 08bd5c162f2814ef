----------------------------- MODULE Portfolio_proofs -----------------------------
(* What the reads of a portfolio reply: get_balances and its time, get_history's rows,  *)
(* errors and timer, and the account methods' lists and merges; for any chains, rows,   *)
(* scopes, addresses, names and facts, and whatever the calls take or the owners have. *)
EXTENDS History, Balances, Accounts, Registry_proofs

--------------------------------------------------------------------------------
(* Balances.                                                                      *)

(* What a thread has used when it comes to a call.                                 *)
ThreadClocks ==
    /\ seeded => applied
    /\ discovery <= ReadBudget
    /\ \A c \in Chains : thread[c] = "offered" => spent[c] = 0
    /\ \A c \in Chains : thread[c] = "assets" => spent[c] <= OfferedBudget

(* What is joined is over, and comes before what is not.                            *)
JoinedShape ==
    /\ \A c \in JoinedChains : c \in asked /\ thread[c] = "ended"
    /\ \A c \in JoinedChains, d \in asked \ JoinedChains : c < d

BalancesInv == BalancesTypeOK /\ ThreadClocks /\ JoinedShape /\ ChainsKeepTheirOwn

LEMMA BalancesNumbers ==
    /\ BalancesBudget \in Nat /\ OfferedBudget \in Nat /\ ReadBudget \in Nat
    /\ 0 <= ReadBudget /\ 0 <= BalancesBudget /\ 0 <= OfferedBudget
    /\ OfferedBudget <= BalancesBudget
    /\ OfferedBudget + AssetsOwnBound <= BalancesBudget
    /\ ReadBudget + BalancesBudget < UiTransport
    /\ UiTransport \in Nat /\ AssetsOwnBound \in Nat
BY DEF BalancesBudget, OfferedBudget, ReadBudget, AssetsOwnBound, UiTransport

\* Joining a chain adds its entry and nothing else.
LEMMA JoinedGrows ==
    ASSUME joined \in Seq([chain : Chains, ok : BOOLEAN]), NEW c \in Chains, NEW b \in BOOLEAN,
           joined' = Append(joined, [chain |-> c, ok |-> b])
    PROVE  /\ joined' \in Seq([chain : Chains, ok : BOOLEAN])
           /\ DOMAIN joined = 1 .. Len(joined) /\ DOMAIN joined' = 1 .. Len(joined) + 1
           /\ \A i \in 1 .. Len(joined) : joined'[i] = joined[i]
           /\ joined'[Len(joined) + 1] = [chain |-> c, ok |-> b]
           /\ JoinedChains' = JoinedChains \cup {c}
<1> DEFINE e == [chain |-> c, ok |-> b]
<1>1. e \in [chain : Chains, ok : BOOLEAN]
    OBVIOUS
<1>2. /\ joined' \in Seq([chain : Chains, ok : BOOLEAN])
      /\ Len(joined) \in Nat
      /\ DOMAIN joined = 1 .. Len(joined) /\ DOMAIN joined' = 1 .. Len(joined) + 1
      /\ \A i \in 1 .. Len(joined) : joined'[i] = joined[i]
      /\ joined'[Len(joined) + 1] = e
    BY <1>1
<1>3. JoinedChains' = {joined'[i].chain : i \in 1 .. Len(joined) + 1}
    BY <1>2 DEF JoinedChains
<1>4. JoinedChains = {joined[i].chain : i \in 1 .. Len(joined)}
    BY <1>2 DEF JoinedChains
<1>5. JoinedChains \subseteq JoinedChains'
    BY <1>2, <1>3, <1>4
<1>6. c \in JoinedChains'
    <2>1. joined'[Len(joined) + 1].chain = c /\ Len(joined) + 1 \in 1 .. Len(joined) + 1
        BY <1>2
    <2> QED BY <2>1, <1>3
<1>7. ASSUME NEW d \in JoinedChains' PROVE d \in JoinedChains \cup {c}
    <2>1. PICK i \in 1 .. Len(joined) + 1 : d = joined'[i].chain
        BY <1>3
    <2>2. CASE i \in 1 .. Len(joined)
        BY <2>1, <2>2, <1>2, <1>4
    <2>3. CASE i = Len(joined) + 1
        BY <2>1, <2>3, <1>2
    <2> QED BY <2>2, <2>3, <1>2
<1> QED BY <1>2, <1>5, <1>6, <1>7

LEMMA BalancesInitInv == BalancesInit => BalancesInv
<1> SUFFICES ASSUME BalancesInit PROVE BalancesInv
    OBVIOUS
<1>1. BalancesTypeOK
    <2>1. RegistryTypeOK
        BY RegistryInitOK DEF BalancesInit
    <2>2. spent \in [Chains -> 0 .. BalancesBudget]
        BY BalancesNumbers DEF BalancesInit
    <2>3. joined \in Seq([chain : Chains, ok : BOOLEAN])
        BY DEF BalancesInit
    <2>4. thread \in [Chains -> {"none", "offered", "assets", "ended"}]
        BY DEF BalancesInit
    <2>5. result \in [Chains -> Results]
        BY DEF BalancesInit, Results
    <2>6. fanned \in BOOLEAN /\ discovery \in Nat /\ asked \subseteq Chains
        BY DEF BalancesInit
    <2> QED BY <2>1, <2>2, <2>3, <2>4, <2>5, <2>6 DEF BalancesTypeOK
<1>2. ThreadClocks
    BY BalancesNumbers, RegistryInitOK DEF BalancesInit, ThreadClocks
<1>3. JoinedChains = {} /\ asked = {} /\ DOMAIN joined = {}
    BY DEF BalancesInit, JoinedChains
<1> QED BY <1>1, <1>2, <1>3 DEF BalancesInv, JoinedShape, ChainsKeepTheirOwn

LEMMA FanOutInv == BalancesInv /\ FanOut => BalancesInv'
<1> SUFFICES ASSUME BalancesInv, FanOut PROVE BalancesInv'
    OBVIOUS
<1>1. RegistryTypeOK /\ (seeded => applied)
    BY DEF BalancesInv, BalancesTypeOK, ThreadClocks
<1>2. PICK s \in AfterDiscovery : seeded' = s.flag /\ applied' = s.has /\ discovery' = s.took
    BY DEF FanOut
<1>3. /\ s.flag \in BOOLEAN /\ s.has \in BOOLEAN /\ s.took \in Nat
      /\ s.took <= ReadBudget
      /\ s.flag => s.has
    BY <1>1, DiscoveryFits
<1>4. RegistryTypeOK'
    BY <1>1, <1>2, <1>3, AskingKeepsRegistry DEF FanOut
<1>5. BalancesTypeOK'
    BY <1>2, <1>3, <1>4, BalancesNumbers
       DEF FanOut, BalancesInv, BalancesTypeOK, RegistryTypeOK, Results
<1>6. ThreadClocks'
    BY <1>2, <1>3, BalancesNumbers DEF FanOut, ThreadClocks
<1>7. JoinedChains' = {} /\ DOMAIN joined' = {} /\ fanned'
    BY DEF FanOut, JoinedChains
<1> QED BY <1>5, <1>6, <1>7 DEF BalancesInv, JoinedShape, ChainsKeepTheirOwn

LEMMA DiscoveryFailsInv == BalancesInv /\ DiscoveryFails => BalancesInv'
<1> SUFFICES ASSUME BalancesInv, DiscoveryFails PROVE BalancesInv'
    OBVIOUS
<1>1. RegistryTypeOK /\ (seeded => applied)
    BY DEF BalancesInv, BalancesTypeOK, ThreadClocks
<1>2. PICK s \in AfterSeeding : seeded' = s.flag /\ applied' = s.has
    BY DEF DiscoveryFails
<1>3. s.flag \in BOOLEAN /\ s.has \in BOOLEAN /\ (s.flag => s.has)
    BY <1>1, SeedingFits
<1>4. RegistryTypeOK' /\ (seeded' => applied')
    BY <1>1, <1>2, <1>3, AskingKeepsRegistry DEF DiscoveryFails
<1> QED BY <1>4
       DEF DiscoveryFails, BalancesInv, BalancesTypeOK, ThreadClocks, JoinedShape,
           ChainsKeepTheirOwn, JoinedChains

\* A thread that is at a call of its own is joined by nobody, so what it does to itself is
\* all that changes.
LEMMA ThreadStepInv ==
    ASSUME BalancesInv, NEW c \in Chains, thread[c] \in {"offered", "assets"},
           NEW n \in Nat, spent' = [spent EXCEPT ![c] = @ + n], spent[c] + n <= BalancesBudget,
           NEW next \in {"assets", "ended"}, thread' = [thread EXCEPT ![c] = next],
           next = "assets" => thread[c] = "offered" /\ n <= OfferedBudget,
           NEW with \in Results, result' = [result EXCEPT ![c] = with],
           UNCHANGED <<registry, fanned, discovery, asked, joined>>
    PROVE  BalancesInv'
<1>1. /\ thread \in [Chains -> {"none", "offered", "assets", "ended"}]
      /\ spent \in [Chains -> 0 .. BalancesBudget] /\ result \in [Chains -> Results]
    BY DEF BalancesInv, BalancesTypeOK
<1>2. JoinedChains' = JoinedChains
    BY DEF JoinedChains
<1>3. c \notin JoinedChains
    BY DEF BalancesInv, JoinedShape
<1>4. BalancesTypeOK'
    <2>1. spent' \in [Chains -> 0 .. BalancesBudget]
        BY <1>1, BalancesNumbers
    <2>2. thread' \in [Chains -> {"none", "offered", "assets", "ended"}]
        BY <1>1
    <2> QED BY <2>1, <2>2, <1>1 DEF BalancesInv, BalancesTypeOK, RegistryTypeOK, registry
<1>5. ThreadClocks'
    BY <1>1, BalancesNumbers DEF BalancesInv, ThreadClocks, registry
<1>6. JoinedShape'
    BY <1>1, <1>2, <1>3 DEF BalancesInv, JoinedShape
<1>7. ChainsKeepTheirOwn'
    <2>1. ASSUME NEW i \in DOMAIN joined
          PROVE  joined[i].chain \in Chains /\ result'[joined[i].chain] = result[joined[i].chain]
        <3>1. joined[i].chain \in JoinedChains
            BY DEF JoinedChains
        <3>2. asked \subseteq Chains
            BY DEF BalancesInv, BalancesTypeOK
        <3> QED BY <3>1, <3>2, <1>1, <1>3 DEF BalancesInv, JoinedShape
    <2> QED BY <2>1, <1>2 DEF BalancesInv, ChainsKeepTheirOwn
<1> QED BY <1>4, <1>5, <1>6, <1>7 DEF BalancesInv

LEMMA ThreadInv ==
    ASSUME BalancesInv, NEW c \in Chains, Thread(c)
    PROVE  BalancesInv'
<1>1. /\ spent[c] \in Nat /\ spent[c] <= BalancesBudget /\ result[c] \in Results
      /\ thread[c] = "offered" => spent[c] = 0
      /\ thread[c] = "assets" => spent[c] <= OfferedBudget
      /\ result = [result EXCEPT ![c] = result[c]]
    BY BalancesNumbers DEF BalancesInv, BalancesTypeOK, ThreadClocks
<1>2. /\ OfferedGrant(c) \in Nat /\ OfferedGrant(c) <= OfferedBudget
      /\ spent[c] + OfferedGrant(c) <= BalancesBudget
    BY <1>1, BalancesNumbers, ReadGrantFits DEF OfferedGrant
<1>3. AssetsGrant(c) \in Nat /\ spent[c] + AssetsGrant(c) <= BalancesBudget
    BY <1>1, BalancesNumbers, ReadGrantFits DEF AssetsGrant
<1>4. "refused" \in Results /\ "failed" \in Results /\ Results = {"balances", "refused", "failed"}
    BY DEF Results
<1>5. CASE ChainTokensRead(c)
    <2>1. PICK d \in Spends(OfferedGrant(c)) : spent' = [spent EXCEPT ![c] = @ + d]
        BY <1>5 DEF ChainTokensRead
    <2>2. d \in Nat /\ d <= OfferedGrant(c)
        BY <1>2, CallsKeepTheirGrant
    <2>3. d <= OfferedBudget /\ spent[c] + d <= BalancesBudget
        BY <1>1, <1>2, <2>2, BalancesNumbers
    <2> QED BY <1>5, <2>1, <2>2, <2>3, <1>1, ThreadStepInv DEF ChainTokensRead
<1>6. CASE ChainTokensFail(c)
    <2>1. PICK d \in Spends(OfferedGrant(c)) : ThreadEnds(c, d, "refused")
        BY <1>6 DEF ChainTokensFail
    <2>2. d \in Nat /\ d <= OfferedGrant(c)
        BY <1>2, CallsKeepTheirGrant
    <2>3. spent[c] + d <= BalancesBudget
        BY <1>1, <1>2, <2>2, BalancesNumbers
    <2> QED BY <1>6, <2>1, <2>2, <2>3, <1>4, ThreadStepInv DEF ChainTokensFail, ThreadEnds
<1>7. CASE AssetsRead(c)
    <2>1. PICK d \in Spends(AssetsGrant(c)), with \in Results : ThreadEnds(c, d, with)
        BY <1>7, <1>4 DEF AssetsRead
    <2>2. d \in Nat /\ d <= AssetsGrant(c)
        BY <1>3, CallsKeepTheirGrant
    <2>3. spent[c] + d <= BalancesBudget
        BY <1>1, <1>3, <2>2, BalancesNumbers
    <2> QED BY <1>7, <2>1, <2>2, <2>3, ThreadStepInv DEF AssetsRead, ThreadEnds
<1>8. CASE Panics(c)
    <2>1. spent[c] + 0 <= BalancesBudget /\ 0 \in Nat
        BY <1>1
    <2> QED BY <1>8, <2>1, <1>4, ThreadStepInv DEF Panics, ThreadEnds
<1> QED BY <1>5, <1>6, <1>7, <1>8 DEF Thread

LEMMA JoinInv ==
    ASSUME BalancesInv, NEW c \in Chains, Join(c)
    PROVE  BalancesInv'
<1> DEFINE b == result[c] = "balances"
<1>1. /\ joined \in Seq([chain : Chains, ok : BOOLEAN]) /\ asked \subseteq Chains
      /\ Len(joined) \in Nat
    BY DEF BalancesInv, BalancesTypeOK
<1>2. joined' = Append(joined, [chain |-> c, ok |-> b])
    BY DEF Join, ReplyEntry
<1>3. b \in BOOLEAN
    OBVIOUS
<1> HIDE DEF b
<1>4. /\ joined' \in Seq([chain : Chains, ok : BOOLEAN])
      /\ DOMAIN joined = 1 .. Len(joined) /\ DOMAIN joined' = 1 .. Len(joined) + 1
      /\ \A i \in 1 .. Len(joined) : joined'[i] = joined[i]
      /\ joined'[Len(joined) + 1] = [chain |-> c, ok |-> b]
      /\ JoinedChains' = JoinedChains \cup {c}
    BY <1>1, <1>2, <1>3, JoinedGrows
<1>5. /\ fanned /\ c \in asked \ JoinedChains /\ thread[c] = "ended"
      /\ \A d \in asked \ JoinedChains : c <= d
      /\ UNCHANGED <<registry, fanned, discovery, asked, thread, spent, result>>
    BY DEF Join, IsNext
<1>6. BalancesTypeOK' /\ ThreadClocks'
    BY <1>4, <1>5 DEF BalancesInv, BalancesTypeOK, ThreadClocks, RegistryTypeOK, registry
<1>7. JoinedShape'
    <2>1. \A d \in Chains : d \in Int
        BY ChainsAreCounted DEF Chains
    <2>2. ASSUME NEW d \in asked \ JoinedChains' PROVE c < d
        BY <2>1, <2>2, <1>1, <1>4, <1>5
    <2> QED BY <2>2, <1>4, <1>5 DEF BalancesInv, JoinedShape
<1>8. ChainsKeepTheirOwn'
    <2>1. \A e \in JoinedChains : e < c
        BY <1>5 DEF BalancesInv, JoinedShape
    <2>2. ASSUME NEW i \in DOMAIN joined', NEW j \in DOMAIN joined', i < j
          PROVE  joined'[i].chain < joined'[j].chain
        <3>1. i \in 1 .. Len(joined)
            BY <2>2, <1>1, <1>4
        <3>2. CASE j \in 1 .. Len(joined)
            BY <2>2, <3>1, <3>2, <1>4 DEF BalancesInv, ChainsKeepTheirOwn
        <3>3. CASE j = Len(joined) + 1
            <4>1. joined[i].chain \in JoinedChains
                BY <3>1, <1>4 DEF JoinedChains
            <4> QED BY <3>1, <3>3, <4>1, <2>1, <1>4
        <3> QED BY <3>2, <3>3, <1>1, <1>4
    <2>3. ASSUME NEW i \in DOMAIN joined'
          PROVE  joined'[i].ok = (result'[joined'[i].chain] = "balances")
        <3>1. CASE i \in 1 .. Len(joined)
            BY <3>1, <1>4, <1>5 DEF BalancesInv, ChainsKeepTheirOwn
        <3>2. CASE i = Len(joined) + 1
            BY <3>2, <1>4, <1>5 DEF b
        <3> QED BY <3>1, <3>2, <1>1, <1>4
    <2> QED BY <2>2, <2>3, <1>5 DEF ChainsKeepTheirOwn
<1> QED BY <1>6, <1>7, <1>8 DEF BalancesInv

LEMMA BalancesStep == BalancesInv /\ [BalancesNext]_balancesVars => BalancesInv'
<1> SUFFICES ASSUME BalancesInv, [BalancesNext]_balancesVars PROVE BalancesInv'
    OBVIOUS
<1>1. CASE FanOut
    BY <1>1, FanOutInv
<1>2. CASE DiscoveryFails
    BY <1>2, DiscoveryFailsInv
<1>3. CASE Replies
    BY <1>3
       DEF Replies, BalancesInv, BalancesTypeOK, RegistryTypeOK, registry, ThreadClocks,
           JoinedShape, ChainsKeepTheirOwn, JoinedChains
<1>4. ASSUME NEW c \in Chains, Thread(c) PROVE BalancesInv'
    BY <1>4, ThreadInv
<1>5. ASSUME NEW c \in Chains, Join(c) PROVE BalancesInv'
    BY <1>5, JoinInv
<1>6. CASE ScopeMoves /\ UNCHANGED <<fanned, discovery, asked, thread, spent, result, joined>>
    <2>1. RegistryTypeOK' /\ seeded' = seeded /\ applied' = applied
        BY <1>6, MovingKeepsRegistry DEF BalancesInv, BalancesTypeOK
    <2> QED BY <1>6, <2>1
           DEF BalancesInv, BalancesTypeOK, ThreadClocks, JoinedShape, ChainsKeepTheirOwn,
               JoinedChains
<1>7. CASE UNCHANGED balancesVars
    BY <1>7
       DEF balancesVars, registry, BalancesInv, BalancesTypeOK, RegistryTypeOK, ThreadClocks,
           JoinedShape, ChainsKeepTheirOwn, JoinedChains
<1> QED BY <1>1, <1>2, <1>3, <1>4, <1>5, <1>6, <1>7 DEF BalancesNext

(* A reply of get_balances has one entry for every chain in scope and no other, in   *)
(* registry order, each ok exactly if the chain's own reads were, for any number of  *)
(* chains and whatever their threads come to.                                      *)
THEOREM ReplyIsTheChains == BalancesSpec => []ChainsKeepTheirOwn
<1>1. BalancesInv => ChainsKeepTheirOwn
    BY DEF BalancesInv
<1> QED BY <1>1, BalancesInitInv, BalancesStep, PTL DEF BalancesSpec

LEMMA AssetsAreReserved == BalancesInv => AssetsHaveTheirTime
<1> SUFFICES ASSUME BalancesInv, NEW c \in Chains, thread[c] = "assets"
             PROVE  AssetsGrant(c) >= AssetsOwnBound
    BY DEF AssetsHaveTheirTime
<1>1. spent[c] \in Nat /\ spent[c] <= OfferedBudget
    BY BalancesNumbers DEF BalancesInv, BalancesTypeOK, ThreadClocks
<1>2. AssetsGrant(c) = BalancesBudget - spent[c] \/ AssetsGrant(c) = BalancesBudget
    BY <1>1, SMT DEF AssetsGrant, Slice, Lesser, MinSlice, None, BalancesBudget, OfferedBudget
<1> QED BY <1>1, <1>2, BalancesNumbers

LEMMA SlowestIsInTime == BalancesInv => BalancesComeInTime
<1> SUFFICES ASSUME BalancesInv, NEW c \in Chains PROVE discovery + spent[c] < UiTransport
    BY DEF BalancesComeInTime
<1>1. /\ discovery \in Nat /\ discovery <= ReadBudget
      /\ spent[c] \in Nat /\ spent[c] <= BalancesBudget
    BY BalancesNumbers DEF BalancesInv, BalancesTypeOK, ThreadClocks
<1> QED BY <1>1, BalancesNumbers

(* The offered rows always leave evm_assets what it reserves for its own read.       *)
THEOREM AssetsAreNotStarved == BalancesSpec => []AssetsHaveTheirTime
BY AssetsAreReserved, BalancesInitInv, BalancesStep, PTL DEF BalancesSpec

(* The user waits less than the view's transport, however many chains there are.     *)
THEOREM BalancesInTime == BalancesSpec => []BalancesComeInTime
BY SlowestIsInTime, BalancesInitInv, BalancesStep, PTL DEF BalancesSpec

(* The types of Balances; no thread uses more than its Budget.                       *)
THEOREM BalancesTypeCorrect == BalancesSpec => []BalancesTypeOK
<1>1. BalancesInv => BalancesTypeOK
    BY DEF BalancesInv
<1> QED BY <1>1, BalancesInitInv, BalancesStep, PTL DEF BalancesSpec

--------------------------------------------------------------------------------
(* History.                                                                       *)

Decorating == step \in {"offered", "catalogue"}

UnreadChains == {e.chain : e \in unread}

(* While a call decorates, it holds what the sender answered, in scope; and every     *)
(* chain of that is still to be read, or was, or is noted as one that was not.       *)
CallShape ==
    /\ Decorating => history = Scoped(answered, ids)
    /\ Decorating =>
           /\ ChainsOf(history) = left \cup named \cup UnreadChains
           /\ left \cap (named \cup UnreadChains) = {}
           /\ named \cap UnreadChains = {}
    /\ ~Decorating => left = {} /\ named = {} /\ unread = {}
    /\ \A e \in unread : e.why = "tokens"

HistoryInv == HistoryTypeOK /\ (seeded => applied) /\ CallShape /\ GapsAreNamedOnce

(* The type invariant without the registry's part, which is another matter.          *)
CallTypeOK ==
    /\ step \in Steps /\ used \in 0 .. HistoryBudget /\ ids \subseteq Chains
    /\ answered \in [Rows -> RowStates] /\ history \in [Rows -> RowStates]
    /\ left \subseteq Chains /\ named \subseteq Chains /\ unread \subseteq Errors

SenderTypeOK == status \in [Rows -> RowStates] /\ mined \subseteq Rows

ViewTypeOK ==
    /\ reply \in [rows : [Rows -> RowStates], errors : SUBSET Errors, plain : SUBSET Chains]
    /\ due \in BOOLEAN /\ told \in BOOLEAN

LEMMA HistoryTypeParts ==
    HistoryTypeOK <=> RegistryTypeOK /\ SenderTypeOK /\ CallTypeOK /\ ViewTypeOK
BY Zenon DEF HistoryTypeOK, SenderTypeOK, CallTypeOK, ViewTypeOK

LEMMA HistoryNumbers ==
    /\ HistoryBudget \in Nat /\ 0 <= HistoryBudget
    /\ SenderFloor \in Nat /\ OfferedBudget \in Nat
BY DEF HistoryBudget, SenderFloor, OfferedBudget

\* What a call of get_history takes leaves it within its budget.
LEMMA HistoryTime ==
    ASSUME CallTypeOK, NEW cap \in Nat, NEW d \in Spends(Granted(cap))
    PROVE  used + d \in 0 .. HistoryBudget
<1>1. used \in Nat /\ used <= HistoryBudget
    BY HistoryNumbers DEF CallTypeOK
<1>2. Granted(cap) \in Nat /\ used + Granted(cap) <= HistoryBudget
    BY <1>1, HistoryNumbers, ReadGrantFits DEF Granted
<1>3. d \in Nat /\ d <= Granted(cap)
    BY <1>2, CallsKeepTheirGrant
<1> QED BY <1>1, <1>2, <1>3, HistoryNumbers

LEMMA NoRowsAreRows == NoRows \in [Rows -> RowStates]
BY DEF NoRows, RowStates

LEMMA NoReplyIsReply ==
    /\ NoReply \in [rows : [Rows -> RowStates], errors : SUBSET Errors, plain : SUBSET Chains]
    /\ NoReply.errors = {} /\ NoReply.plain = {}
BY NoRowsAreRows DEF NoReply

LEMMA ScopedRows ==
    ASSUME NEW rows \in [Rows -> RowStates], NEW allowed
    PROVE  Scoped(rows, allowed) \in [Rows -> RowStates]
BY DEF Scoped, RowStates

LEMMA ChainsOfRows ==
    ASSUME NEW rows
    PROVE  ChainsOf(rows) \subseteq Chains
BY RowsAreOnChains DEF ChainsOf

LEMMA CallEndsTyped ==
    ASSUME CallEnds
    PROVE  CallTypeOK' /\ CallShape'
<1>1. /\ step' = "idle" /\ used' = 0 /\ ids' = {} /\ answered' = NoRows /\ history' = NoRows
      /\ left' = {} /\ named' = {} /\ unread' = {}
    BY Zenon DEF CallEnds
<1>2. 0 \in 0 .. HistoryBudget
    BY HistoryNumbers
<1>3. CallTypeOK'
    BY <1>1, <1>2, NoRowsAreRows DEF CallTypeOK, Steps
<1> QED BY <1>1, <1>3 DEF CallShape, Decorating

\* A step that leaves the call alone leaves what is known of it.
LEMMA SameCall ==
    ASSUME CallTypeOK, CallShape, UNCHANGED callVars
    PROVE  CallTypeOK' /\ CallShape'
BY DEF callVars, CallTypeOK, CallShape, Decorating, UnreadChains

LEMMA SameReply ==
    ASSUME GapsAreNamedOnce, reply' = reply \/ reply' = NoReply
    PROVE  GapsAreNamedOnce'
<1>1. CASE reply' = reply
    BY <1>1 DEF GapsAreNamedOnce
<1>2. CASE reply' = NoReply
    BY <1>2, NoReplyIsReply DEF GapsAreNamedOnce
<1> QED BY <1>1, <1>2

LEMMA HistoryInitInv == HistoryInit => HistoryInv
<1> SUFFICES ASSUME HistoryInit PROVE HistoryInv
    OBVIOUS
<1>1. RegistryTypeOK /\ (seeded => applied)
    BY RegistryInitOK DEF HistoryInit
<1>2. SenderTypeOK
    BY DEF HistoryInit, SenderTypeOK, RowStates
<1>3. /\ step = "idle" /\ used = 0 /\ ids = {} /\ answered = NoRows /\ history = NoRows
      /\ left = {} /\ named = {} /\ unread = {}
    BY DEF HistoryInit
<1>4. 0 \in 0 .. HistoryBudget
    BY HistoryNumbers
<1>5. CallTypeOK
    BY <1>3, <1>4, NoRowsAreRows DEF CallTypeOK, Steps
<1>6. reply = NoReply /\ due = FALSE /\ told = TRUE
    BY Zenon DEF HistoryInit
<1>7. ViewTypeOK /\ GapsAreNamedOnce
    BY <1>6, NoReplyIsReply DEF ViewTypeOK, GapsAreNamedOnce
<1>8. CallShape
    BY <1>3 DEF CallShape, Decorating
<1> QED BY <1>1, <1>2, <1>5, <1>7, <1>8, HistoryTypeParts DEF HistoryInv

--------------------------------------------------------------------------------
(* The steps that begin a call.                                                    *)

LEMMA ReadScopeInv == HistoryInv /\ ReadScope => HistoryInv'
<1> SUFFICES ASSUME HistoryInv, ReadScope PROVE HistoryInv'
    OBVIOUS
<1>1. /\ RegistryTypeOK /\ (seeded => applied) /\ SenderTypeOK /\ CallTypeOK /\ ViewTypeOK
      /\ CallShape /\ GapsAreNamedOnce
    BY HistoryTypeParts DEF HistoryInv
<1>2. PICK s \in AfterDiscovery : seeded' = s.flag /\ applied' = s.has
    BY DEF ReadScope
<1>3. s.flag \in BOOLEAN /\ s.has \in BOOLEAN /\ (s.flag => s.has)
    BY <1>1, DiscoveryFits
<1>4. RegistryTypeOK' /\ (seeded' => applied')
    BY <1>1, <1>2, <1>3, AskingKeepsRegistry DEF ReadScope
<1>5. SenderTypeOK'
    BY <1>1 DEF ReadScope, sender, SenderTypeOK
<1>6. CallTypeOK' /\ CallShape'
    BY <1>1
       DEF ReadScope, CallTypeOK, CallShape, Decorating, Steps, RegistryTypeOK
<1>7. reply' = NoReply /\ due' = due /\ told' = FALSE
    BY Zenon DEF ReadScope
<1>8. ViewTypeOK' /\ GapsAreNamedOnce'
    BY <1>1, <1>7, NoReplyIsReply, SameReply DEF ViewTypeOK
<1>9. HistoryTypeOK'
    BY <1>4, <1>5, <1>6, <1>8, HistoryTypeParts
       DEF HistoryTypeOK, RegistryTypeOK, SenderTypeOK, CallTypeOK, ViewTypeOK
<1> QED BY <1>4, <1>6, <1>8, <1>9 DEF HistoryInv

LEMMA ScopeFailsInv == HistoryInv /\ ScopeFails => HistoryInv'
<1> SUFFICES ASSUME HistoryInv, ScopeFails PROVE HistoryInv'
    OBVIOUS
<1>1. RegistryTypeOK /\ (seeded => applied)
    BY HistoryTypeParts DEF HistoryInv
<1>2. PICK s \in AfterSeeding : seeded' = s.flag /\ applied' = s.has
    BY DEF ScopeFails
<1>3. s.flag \in BOOLEAN /\ s.has \in BOOLEAN /\ (s.flag => s.has)
    BY <1>1, SeedingFits
<1>4. RegistryTypeOK' /\ (seeded' => applied')
    BY <1>1, <1>2, <1>3, AskingKeepsRegistry DEF ScopeFails
<1>5. UNCHANGED <<sender, callVars, view>>
    BY DEF ScopeFails
<1> QED BY <1>4, <1>5
       DEF HistoryInv, HistoryTypeOK, CallShape, Decorating, UnreadChains, GapsAreNamedOnce,
           sender, callVars, view

LEMMA HistoryAssembled ==
    ASSUME RegistryTypeOK', seeded' => applied', SenderTypeOK', CallTypeOK', ViewTypeOK',
           CallShape', GapsAreNamedOnce'
    PROVE  HistoryInv'
<1>1. HistoryTypeOK'
    BY DEF HistoryTypeOK, SenderTypeOK, CallTypeOK, ViewTypeOK
<1> QED BY <1>1 DEF HistoryInv

LEMMA HistoryParts ==
    ASSUME HistoryInv
    PROVE  /\ RegistryTypeOK /\ (seeded => applied) /\ SenderTypeOK /\ CallTypeOK /\ ViewTypeOK
           /\ CallShape /\ GapsAreNamedOnce
BY HistoryTypeParts DEF HistoryInv

LEMMA SameRegistry ==
    ASSUME RegistryTypeOK, seeded => applied, UNCHANGED registry
    PROVE  RegistryTypeOK' /\ (seeded' => applied')
BY DEF RegistryTypeOK, registry

\* A step of the view or of the sender, that leaves the registry and the call alone.
LEMMA OutsideStep ==
    ASSUME HistoryInv, UNCHANGED registry, UNCHANGED callVars, SenderTypeOK',
           reply' = reply \/ reply' = NoReply, due' \in BOOLEAN, told' \in BOOLEAN
    PROVE  HistoryInv'
<1>1. RegistryTypeOK' /\ (seeded' => applied')
    BY HistoryParts, SameRegistry
<1>2. CallTypeOK' /\ CallShape'
    BY HistoryParts, SameCall
<1>3. ViewTypeOK' /\ GapsAreNamedOnce'
    BY HistoryParts, NoReplyIsReply, SameReply DEF ViewTypeOK
<1> QED BY <1>1, <1>2, <1>3, HistoryAssembled

\* A call that ends leaves nothing of itself, so only its reply is in question.
LEMMA EndingStep ==
    ASSUME HistoryInv, UNCHANGED registry, CallEnds, SenderTypeOK', ViewTypeOK',
           GapsAreNamedOnce'
    PROVE  HistoryInv'
BY HistoryParts, SameRegistry, CallEndsTyped, HistoryAssembled

--------------------------------------------------------------------------------
(* The steps of get_history.                                                       *)

LEMMA SenderAnswersInv == HistoryInv /\ SenderAnswers => HistoryInv'
<1> SUFFICES ASSUME HistoryInv, SenderAnswers PROVE HistoryInv'
    OBVIOUS
<1>1. RegistryTypeOK' /\ (seeded' => applied') /\ SenderTypeOK' /\ ViewTypeOK'
      /\ GapsAreNamedOnce'
    BY HistoryParts, SameRegistry
       DEF SenderAnswers, sender, view, SenderTypeOK, ViewTypeOK, GapsAreNamedOnce
<1>2. used' \in 0 .. HistoryBudget
    <2>1. PICK d \in Spends(Granted(SenderFloor)) : used' = used + d
        BY DEF SenderAnswers
    <2> QED BY <2>1, HistoryParts, HistoryNumbers, HistoryTime
<1>3. status \in [Rows -> RowStates] /\ ids \subseteq Chains
      /\ named \subseteq Chains /\ unread \subseteq Errors
    BY HistoryParts DEF SenderTypeOK, CallTypeOK
<1>4. Scoped(status, ids) \in [Rows -> RowStates] /\ ChainsOf(Scoped(status, ids)) \subseteq Chains
    BY <1>3, ScopedRows, ChainsOfRows
<1>5. /\ step = "sender" /\ step' = "offered" /\ answered' = status
      /\ history' = Scoped(status, ids) /\ left' = ChainsOf(Scoped(status, ids))
      /\ ids' = ids /\ named' = named /\ unread' = unread
    BY DEF SenderAnswers
<1>6. CallTypeOK'
    BY <1>2, <1>3, <1>4, <1>5 DEF CallTypeOK, Steps
<1>7. named = {} /\ unread = {} /\ UnreadChains' = {}
    BY <1>5, HistoryParts DEF CallShape, Decorating, UnreadChains
<1>8. history' = Scoped(answered', ids') /\ left' = ChainsOf(history')
    BY <1>5
<1>9. CallShape'
    BY <1>5, <1>7, <1>8 DEF CallShape, Decorating
<1> QED BY <1>1, <1>6, <1>9, HistoryAssembled

LEMMA SenderFailsInv == HistoryInv /\ SenderFails => HistoryInv'
<1> SUFFICES ASSUME HistoryInv, SenderFails PROVE HistoryInv'
    OBVIOUS
<1>1. UNCHANGED registry /\ UNCHANGED sender /\ CallEnds /\ told' = TRUE
      /\ reply' = reply /\ due' = due
    BY Zenon DEF SenderFails
<1>2. SenderTypeOK' /\ ViewTypeOK' /\ GapsAreNamedOnce'
    BY <1>1, HistoryParts DEF sender, SenderTypeOK, ViewTypeOK, GapsAreNamedOnce
<1> QED BY <1>1, <1>2, EndingStep

\* A chain's tokens are read, or noted as not read: it leaves the ones still to be read.
LEMMA NextChainInv ==
    ASSUME HistoryInv, NEW c \in Chains, Decorating, c \in left, NextChain(c),
           used' \in 0 .. HistoryBudget,
           \/ named' = named \cup {c} /\ UNCHANGED unread
           \/ Unread(c)
    PROVE  HistoryInv'
<1>1. /\ left' = left \ {c} /\ step' = "offered"
      /\ UNCHANGED <<registry, sender, ids, answered, history, view>>
    BY DEF NextChain
<1>2. RegistryTypeOK' /\ (seeded' => applied') /\ SenderTypeOK' /\ ViewTypeOK'
      /\ GapsAreNamedOnce'
    BY <1>1, HistoryParts, SameRegistry
       DEF sender, view, SenderTypeOK, ViewTypeOK, GapsAreNamedOnce
<1>3. \/ named' = named \cup {c} /\ unread' = unread
      \/ named' = named /\ unread' = unread \cup {[chain |-> c, why |-> "tokens"]}
    BY DEF Unread
<1>4. [chain |-> c, why |-> "tokens"] \in Errors
    BY DEF Errors, Reasons
<1>5. CallTypeOK'
    BY <1>1, <1>3, <1>4, HistoryParts DEF CallTypeOK, Steps
<1>6. UnreadChains' = (IF unread' = unread THEN UnreadChains ELSE UnreadChains \cup {c})
    <2>1. CASE unread' = unread
        BY <2>1 DEF UnreadChains
    <2>2. CASE unread' # unread
        <3>1. unread' = unread \cup {[chain |-> c, why |-> "tokens"]}
            BY <2>2, <1>3
        <3>2. [chain |-> c, why |-> "tokens"].chain = c
            OBVIOUS
        <3> QED BY <2>2, <3>1, <3>2 DEF UnreadChains
    <2> QED BY <2>1, <2>2
<1>7. /\ history = Scoped(answered, ids)
      /\ ChainsOf(history) = left \cup named \cup UnreadChains
      /\ left \cap (named \cup UnreadChains) = {} /\ named \cap UnreadChains = {}
      /\ \A e \in unread : e.why = "tokens"
    BY HistoryParts DEF CallShape
<1>8. \A e \in unread' : e.why = "tokens"
    BY <1>3, <1>7
<1>9. c \notin named /\ c \notin UnreadChains
    BY <1>7
<1>10. [chain |-> c, why |-> "tokens"] \notin unread
    BY <1>9 DEF UnreadChains
<1>11. \/ named' = named \cup {c} /\ UnreadChains' = UnreadChains
       \/ named' = named /\ UnreadChains' = UnreadChains \cup {c}
    BY <1>3, <1>6, <1>10
<1>12. /\ left' \cup named' \cup UnreadChains' = left \cup named \cup UnreadChains
       /\ left' \cap (named' \cup UnreadChains') = {} /\ named' \cap UnreadChains' = {}
    BY <1>1, <1>7, <1>9, <1>11
<1>13. history' = history /\ answered' = answered /\ ids' = ids
    BY <1>1
<1>14. CallShape'
    BY <1>1, <1>7, <1>8, <1>12, <1>13 DEF CallShape, Decorating
<1> QED BY <1>2, <1>5, <1>14, HistoryAssembled

LEMMA ReadingInv ==
    ASSUME HistoryInv, NEW c \in Chains, Reading(c)
    PROVE  HistoryInv'
<1>1. used' \in 0 .. HistoryBudget
    <2>1. PICK d \in Spends(Granted(OfferedBudget)) : used' = used + d
        BY DEF Reading, OfferedRead, OfferedFails, CatalogueRead, CatalogueFails
    <2> QED BY <2>1, HistoryParts, HistoryNumbers, HistoryTime
<1>2. IsNextChain(c) /\ Decorating /\ c \in left
    BY DEF Reading, OfferedRead, OfferedFails, CatalogueRead, CatalogueFails, Decorating,
           IsNextChain
<1>3. CASE step' = "catalogue" /\ UNCHANGED <<registry, sender, ids, answered, history, view,
                                              left, named, unread>>
    <2>1. RegistryTypeOK' /\ (seeded' => applied') /\ SenderTypeOK' /\ ViewTypeOK'
          /\ GapsAreNamedOnce'
        BY <1>3, HistoryParts, SameRegistry
           DEF sender, view, SenderTypeOK, ViewTypeOK, GapsAreNamedOnce
    <2>2. CallTypeOK' /\ CallShape'
        BY <1>1, <1>2, <1>3, HistoryParts
           DEF CallTypeOK, Steps, CallShape, Decorating, UnreadChains
    <2> QED BY <2>1, <2>2, HistoryAssembled
<1>4. CASE /\ NextChain(c)
           /\ \/ named' = named \cup {c} /\ UNCHANGED unread
              \/ Unread(c)
    BY <1>1, <1>2, <1>4, NextChainInv
<1> QED BY <1>3, <1>4 DEF Reading, OfferedRead, OfferedFails, CatalogueRead, CatalogueFails

LEMMA DecoratedInv == HistoryInv /\ Decorated => HistoryInv'
<1> SUFFICES ASSUME HistoryInv, Decorated PROVE HistoryInv'
    OBVIOUS
<1>1. /\ step = "offered" /\ left = {} /\ CallEnds /\ told' = told
      /\ UNCHANGED registry /\ UNCHANGED sender
    BY Zenon DEF Decorated
<1>2. PICK own \in SUBSET ChainsOf(history) :
          Shows(history, AddDecorationErrors([chain : own, why : {"assets"}], unread),
                own \cup (ChainsOf(history) \ named))
    BY Zenon DEF Decorated
<1> DEFINE errors == AddDecorationErrors([chain : own, why : {"assets"}], unread)
           plain == own \cup (ChainsOf(history) \ named)
<1>3. /\ ChainsOf(history) = named \cup UnreadChains /\ named \cap UnreadChains = {}
      /\ \A e \in unread : e.why = "tokens"
    BY <1>1, HistoryParts DEF CallShape, Decorating
<1>4. history \in [Rows -> RowStates] /\ unread \subseteq Errors /\ ChainsOf(history) \subseteq Chains
    BY HistoryParts, ChainsOfRows DEF CallTypeOK
<1>5. reply' = [rows |-> history, errors |-> errors, plain |-> plain]
      /\ due' = StillDue(history)
    BY <1>2 DEF Shows
<1>6. errors = [chain : own, why : {"assets"}]
                 \cup {e \in unread : \A r \in [chain : own, why : {"assets"}] : r.chain # e.chain}
    BY DEF AddDecorationErrors
<1>7. [chain : own, why : {"assets"}] \subseteq Errors
    BY <1>4 DEF Errors, Reasons
<1>8. errors \subseteq Errors /\ plain \subseteq Chains
    BY <1>4, <1>6, <1>7
<1>9. ViewTypeOK'
    BY <1>1, <1>4, <1>5, <1>8, HistoryParts DEF ViewTypeOK, StillDue
<1>10. plain = own \cup UnreadChains
    BY <1>3
<1>11. \A e \in errors : \/ e.chain \in own /\ e.why = "assets" /\ e \in Errors
                         \/ e \in unread /\ e.chain \notin own /\ e.why = "tokens" /\ e \in Errors
    <2> SUFFICES ASSUME NEW e \in errors
                 PROVE  \/ e.chain \in own /\ e.why = "assets" /\ e \in Errors
                        \/ /\ e \in unread /\ e.chain \notin own /\ e.why = "tokens"
                           /\ e \in Errors
        OBVIOUS
    <2>1. CASE e \in [chain : own, why : {"assets"}]
        BY <2>1, <1>7
    <2>2. CASE e \in unread /\ \A r \in [chain : own, why : {"assets"}] : r.chain # e.chain
        <3>1. ASSUME e.chain \in own PROVE FALSE
            <4>1. [chain |-> e.chain, why |-> "assets"] \in [chain : own, why : {"assets"}]
                BY <3>1
            <4> QED BY <2>2, <4>1
        <3> QED BY <2>2, <3>1, <1>3, <1>4
    <2> QED BY <2>1, <2>2, <1>6
<1>12. \A e \in errors, f \in errors : e.chain = f.chain => e = f
    <2> SUFFICES ASSUME NEW e \in errors, NEW f \in errors, e.chain = f.chain PROVE e = f
        OBVIOUS
    <2>1. e.why = f.why /\ e \in Errors /\ f \in Errors
        BY <1>11
    <2> HIDE DEF errors
    <2> QED BY <2>1 DEF Errors
<1>13. {e.chain : e \in errors} = plain
    <2>1. \A e \in errors : e.chain \in plain
        BY <1>10, <1>11 DEF UnreadChains
    <2>2. ASSUME NEW c \in plain PROVE \E e \in errors : e.chain = c
        <3>1. CASE c \in own
            <4>1. [chain |-> c, why |-> "assets"] \in [chain : own, why : {"assets"}]
                BY <3>1
            <4> QED BY <4>1, <1>6
        <3>2. CASE c \notin own
            <4>1. PICK e \in unread : e.chain = c
                BY <1>10, <3>2 DEF UnreadChains
            <4>2. \A r \in [chain : own, why : {"assets"}] : r.chain \in own
                OBVIOUS
            <4> QED BY <3>2, <4>1, <4>2, <1>6
        <3> QED BY <3>1, <3>2
    <2> HIDE DEF errors, plain
    <2> QED BY <2>1, <2>2
<1>14. GapsAreNamedOnce'
    <2> HIDE DEF errors, plain
    <2> QED BY <1>5, <1>12, <1>13 DEF GapsAreNamedOnce
<1>15. SenderTypeOK'
    BY <1>1, HistoryParts DEF sender, SenderTypeOK
<1> QED BY <1>1, <1>9, <1>14, <1>15, EndingStep

LEMMA DecorationFailsInv == HistoryInv /\ DecorationFails => HistoryInv'
<1> SUFFICES ASSUME HistoryInv, DecorationFails PROVE HistoryInv'
    OBVIOUS
<1>1. /\ CallEnds /\ told' = told /\ UNCHANGED registry /\ UNCHANGED sender
      /\ Shows(history, Undecorated(history), ChainsOf(history))
    BY Zenon DEF DecorationFails
<1>2. history \in [Rows -> RowStates] /\ ChainsOf(history) \subseteq Chains
    BY HistoryParts, ChainsOfRows DEF CallTypeOK
<1>3. /\ reply' = [rows |-> history, errors |-> Undecorated(history),
                   plain |-> ChainsOf(history)]
      /\ due' = StillDue(history)
    BY <1>1 DEF Shows
<1>4. Undecorated(history) \subseteq Errors
    BY <1>2 DEF Undecorated, Errors, Reasons
<1>5. ViewTypeOK'
    BY <1>1, <1>2, <1>3, <1>4, HistoryParts DEF ViewTypeOK, StillDue
<1>6. /\ \A c \in ChainsOf(history) : [chain |-> c, why |-> "whole"] \in Undecorated(history)
      /\ \A e \in Undecorated(history) : e.chain \in ChainsOf(history)
      /\ \A e, f \in Undecorated(history) : e.chain = f.chain => e = f
    BY DEF Undecorated
<1>7. {e.chain : e \in Undecorated(history)} = ChainsOf(history)
    <2>1. \A c \in ChainsOf(history) : \E e \in Undecorated(history) : e.chain = c
        BY <1>6
    <2> QED BY <1>6, <2>1
<1>8. GapsAreNamedOnce'
    BY <1>3, <1>6, <1>7 DEF GapsAreNamedOnce
<1>9. SenderTypeOK'
    BY <1>1, HistoryParts DEF sender, SenderTypeOK
<1> QED BY <1>1, <1>5, <1>8, <1>9, EndingStep

--------------------------------------------------------------------------------
(* The timer's call, and what goes on outside.                                     *)

LEMMA TicksInv == HistoryInv /\ Ticks => HistoryInv'
<1> SUFFICES ASSUME HistoryInv, Ticks PROVE HistoryInv'
    OBVIOUS
<1>1. /\ step = "idle" /\ step' = "sweep" /\ reply' = NoReply /\ due' = due /\ told' = told
      /\ UNCHANGED registry /\ UNCHANGED sender
      /\ UNCHANGED <<used, ids, answered, history, left, named, unread>>
    BY DEF Ticks
<1>2. RegistryTypeOK' /\ (seeded' => applied') /\ SenderTypeOK'
    BY <1>1, HistoryParts, SameRegistry DEF sender, SenderTypeOK
<1>3. CallTypeOK' /\ CallShape'
    BY <1>1, HistoryParts DEF CallTypeOK, Steps, CallShape, Decorating
<1>4. ViewTypeOK' /\ GapsAreNamedOnce'
    BY <1>1, HistoryParts, NoReplyIsReply, SameReply DEF ViewTypeOK
<1> QED BY <1>2, <1>3, <1>4, HistoryAssembled

LEMMA SweepInv == HistoryInv /\ (Sweeps \/ SweepFails) => HistoryInv'
<1> SUFFICES ASSUME HistoryInv, Sweeps \/ SweepFails PROVE HistoryInv'
    OBVIOUS
<1>1. /\ CallEnds /\ UNCHANGED registry /\ reply' = reply /\ due' = due /\ mined' = mined
      /\ status' = Swept \/ status' = status
      /\ told' = (told \/ status # Swept) \/ told' = told
    BY DEF Sweeps, SweepFails, sender, view
<1>2. Swept \in [Rows -> RowStates]
    BY HistoryParts DEF Swept, SenderTypeOK, RowStates
<1>3. SenderTypeOK' /\ ViewTypeOK' /\ GapsAreNamedOnce'
    BY <1>1, <1>2, HistoryParts DEF SenderTypeOK, ViewTypeOK, GapsAreNamedOnce
<1> QED BY <1>1, <1>3, EndingStep

LEMMA RowInv ==
    ASSUME HistoryInv, NEW r \in Rows, RowAppears(r) \/ RowIsMined(r) \/ RowStalls(r)
    PROVE  HistoryInv'
<1>1. /\ UNCHANGED registry /\ UNCHANGED callVars /\ reply' = reply /\ due' = due
      /\ told' = TRUE \/ told' = told
    BY DEF RowAppears, RowIsMined, RowStalls, view
<1>2. SenderTypeOK'
    BY HistoryParts DEF RowAppears, RowIsMined, RowStalls, SenderTypeOK, RowStates
<1>3. due \in BOOLEAN /\ told \in BOOLEAN
    BY HistoryParts DEF ViewTypeOK
<1> QED BY <1>1, <1>2, <1>3, OutsideStep

LEMMA ViewOpensInv == HistoryInv /\ ViewOpens => HistoryInv'
<1> SUFFICES ASSUME HistoryInv, ViewOpens PROVE HistoryInv'
    OBVIOUS
<1>1. /\ UNCHANGED registry /\ UNCHANGED callVars /\ UNCHANGED sender /\ reply' = reply
      /\ due' = due /\ told' = TRUE
    BY Zenon DEF ViewOpens
<1>2. SenderTypeOK' /\ due \in BOOLEAN
    BY <1>1, HistoryParts DEF sender, SenderTypeOK, ViewTypeOK
<1> QED BY <1>1, <1>2, OutsideStep

LEMMA ScopeIsMovedInv == HistoryInv /\ ScopeIsMoved => HistoryInv'
<1> SUFFICES ASSUME HistoryInv, ScopeIsMoved PROVE HistoryInv'
    OBVIOUS
<1>1. /\ ScopeMoves /\ UNCHANGED callVars /\ UNCHANGED sender /\ reply' = reply
      /\ due' = due /\ told' = TRUE
    BY Zenon DEF ScopeIsMoved
<1>2. RegistryTypeOK' /\ (seeded' => applied')
    BY <1>1, HistoryParts, MovingKeepsRegistry
<1>3. CallTypeOK' /\ CallShape'
    BY <1>1, HistoryParts, SameCall
<1>4. SenderTypeOK' /\ ViewTypeOK' /\ GapsAreNamedOnce'
    BY <1>1, HistoryParts DEF sender, SenderTypeOK, ViewTypeOK, GapsAreNamedOnce
<1> QED BY <1>2, <1>3, <1>4, HistoryAssembled

LEMMA HistoryStep == HistoryInv /\ [HistoryNext]_historyVars => HistoryInv'
<1> SUFFICES ASSUME HistoryInv, [HistoryNext]_historyVars PROVE HistoryInv'
    OBVIOUS
<1>1. CASE ViewOpens \/ ReadScope \/ ScopeFails \/ Ticks \/ ScopeIsMoved
    BY <1>1, ViewOpensInv, ReadScopeInv, ScopeFailsInv, TicksInv, ScopeIsMovedInv
<1>2. CASE SenderAnswers \/ SenderFails \/ Decorated \/ DecorationFails \/ Sweeps \/ SweepFails
    BY <1>2, SenderAnswersInv, SenderFailsInv, DecoratedInv, DecorationFailsInv, SweepInv
<1>3. ASSUME NEW c \in Chains, Reading(c) PROVE HistoryInv'
    BY <1>3, ReadingInv
<1>4. ASSUME NEW r \in Rows, RowAppears(r) \/ RowIsMined(r) \/ RowStalls(r) PROVE HistoryInv'
    BY <1>4, RowInv
<1>5. CASE UNCHANGED historyVars
    <2>1. /\ UNCHANGED registry /\ UNCHANGED sender /\ UNCHANGED callVars
          /\ reply' = reply /\ due' = due /\ told' = told
        BY <1>5 DEF historyVars, view
    <2>2. SenderTypeOK' /\ due \in BOOLEAN /\ told \in BOOLEAN
        BY <2>1, HistoryParts DEF sender, SenderTypeOK, ViewTypeOK
    <2> QED BY <2>1, <2>2, OutsideStep
<1> QED BY <1>1, <1>2, <1>3, <1>4, <1>5, Zenon DEF HistoryNext, GoesOn

(* The chains get_history names in its errors are those whose rows lack a name, once  *)
(* each, for any rows and any way its reads fail or run out of time.                 *)
THEOREM GapsNamed == HistorySpec => []GapsAreNamedOnce
<1>1. HistoryInv => GapsAreNamedOnce
    BY DEF HistoryInv
<1> QED BY <1>1, HistoryInitInv, HistoryStep, PTL DEF HistorySpec

(* The types of History; a call never uses more than HISTORY_BUDGET.                 *)
THEOREM HistoryTypeCorrect == HistorySpec => []HistoryTypeOK
<1>1. HistoryInv => HistoryTypeOK
    BY DEF HistoryInv
<1> QED BY <1>1, HistoryInitInv, HistoryStep, PTL DEF HistorySpec

\* A call that was decorating ends with its reply.
LEMMA DecoratingEnds ==
    ASSUME Decorating, step' = "idle", HistoryNext
    PROVE  \E errors, plain : Shows(history, errors, plain)
<1>1. CASE ViewOpens \/ ReadScope \/ ScopeFails \/ Ticks \/ ScopeIsMoved
    BY <1>1 DEF ViewOpens, ReadScope, ScopeFails, Ticks, ScopeIsMoved, callVars, Decorating
<1>2. CASE SenderAnswers \/ SenderFails \/ Sweeps \/ SweepFails
    BY <1>2 DEF SenderAnswers, SenderFails, Sweeps, SweepFails, Decorating
<1>3. CASE Decorated \/ DecorationFails
    BY <1>3 DEF Decorated, DecorationFails
<1>4. ASSUME NEW c \in Chains, Reading(c) PROVE step' # "idle"
    BY <1>4 DEF Reading, OfferedRead, OfferedFails, CatalogueRead, CatalogueFails, NextChain
<1>5. ASSUME NEW r \in Rows, RowAppears(r) \/ RowIsMined(r) \/ RowStalls(r) PROVE step' = step
    BY <1>5 DEF RowAppears, RowIsMined, RowStalls, callVars
<1> QED BY <1>1, <1>2, <1>3, <1>4, <1>5, Zenon DEF HistoryNext, GoesOn, Decorating

\* A reply is the rows as the sender answered them, in scope.
LEMMA RepliesKeepActivity ==
    ASSUME HistoryInv, HistoryNext
    PROVE  (step \in {"offered", "catalogue"} /\ step' = "idle") =>
               /\ \A r \in Rows :
                      reply'.rows[r] = IF InPortfolio(r) THEN answered[r] ELSE "none"
               /\ due' = (\E r \in Rows : InPortfolio(r) /\ answered[r] = "pending")
<1> SUFFICES ASSUME step \in {"offered", "catalogue"}, step' = "idle"
             PROVE  /\ \A r \in Rows :
                           reply'.rows[r] = IF InPortfolio(r) THEN answered[r] ELSE "none"
                    /\ due' = (\E r \in Rows : InPortfolio(r) /\ answered[r] = "pending")
    OBVIOUS
<1>1. PICK errors, plain : Shows(history, errors, plain)
    BY DecoratingEnds DEF Decorating
<1>2. reply'.rows = history /\ due' = StillDue(history)
    BY <1>1 DEF Shows
<1>3. history = Scoped(answered, ids)
    BY HistoryParts DEF CallShape, Decorating
<1>4. \A r \in Rows : history[r] = IF InPortfolio(r) THEN answered[r] ELSE "none"
    BY <1>3 DEF Scoped, InPortfolio
<1>5. StillDue(history) = (\E r \in Rows : InPortfolio(r) /\ answered[r] = "pending")
    BY <1>4 DEF StillDue
<1> QED BY <1>2, <1>4, <1>5

(* Every row the sender answered that is in scope is in the reply, as it came, and no  *)
(* other; and the timer runs exactly if one of them is pending: for any rows, scope    *)
(* and way the decoration goes.                                                    *)
THEOREM ActivityKept == HistorySpec => ActivityIsKept
<1>1. ASSUME HistoryInv, [HistoryNext]_historyVars
      PROVE  [(step \in {"offered", "catalogue"} /\ step' = "idle") =>
                 /\ \A r \in Rows :
                        reply'.rows[r] = IF InPortfolio(r) THEN answered[r] ELSE "none"
                 /\ due' = (\E r \in Rows : InPortfolio(r) /\ answered[r] = "pending")
             ]_historyVars
    BY <1>1, RepliesKeepActivity
<1> QED BY <1>1, HistoryInitInv, HistoryStep, PTL DEF HistorySpec, ActivityIsKept

--------------------------------------------------------------------------------
(* The view's timer.                                                              *)

PendingInScope == \E r \in Rows : ChainOf[r] \in inScope /\ status[r] = "pending"

(* While the view has been told nothing, the call holds the scope as it is, then the   *)
(* rows as they are, and so the timer, which is set from both, is right.              *)
TimerInv ==
    ~told =>
        /\ step = "sender" => ids = inScope
        /\ Decorating => ids = inScope /\ answered = status
        /\ step \in {"idle", "sweep"} => due = PendingInScope

\* What a reply says of the timer, when the rows it was made of are those of now.
LEMMA DueOfTheScope == StillDue(Scoped(status, inScope)) = PendingInScope
BY DEF StillDue, Scoped, PendingInScope

\* A step that changes neither rows, scope nor timer keeps the timer right.
LEMMA SameTimer ==
    ASSUME TimerInv, status' = status, inScope' = inScope, due' = due,
           ~told' => ~told,
           step \in {"idle", "sweep"}, step' \in {"idle", "sweep"}
    PROVE  TimerInv'
BY DEF TimerInv, PendingInScope, Decorating

LEMMA TimerOutside ==
    ASSUME TimerInv, status' = status, UNCHANGED registry, UNCHANGED callVars, UNCHANGED view
    PROVE  TimerInv'
BY DEF TimerInv, PendingInScope, Decorating, registry, callVars, view

LEMMA TimerBegins == TimerInv /\ (ReadScope \/ Ticks) => TimerInv'
<1>1. CASE TimerInv /\ ReadScope
    <2>1. step' = "sender" /\ ids' = inScope /\ inScope' = inScope
        BY <1>1 DEF ReadScope
    <2> QED BY <2>1 DEF TimerInv, Decorating
<1>2. CASE TimerInv /\ Ticks
    <2>1. /\ step = "idle" /\ step' = "sweep" /\ status' = status /\ inScope' = inScope
          /\ due' = due /\ told' = told
        BY <1>2 DEF Ticks, registry, sender
    <2> QED BY <1>2, <2>1, SameTimer
<1> QED BY <1>1, <1>2

LEMMA TimerReads ==
    ASSUME TimerInv, SenderAnswers \/ \E c \in Chains : Reading(c)
    PROVE  TimerInv'
<1>1. CASE SenderAnswers
    <2>1. /\ step = "sender" /\ step' = "offered" /\ answered' = status /\ ids' = ids
          /\ status' = status /\ inScope' = inScope /\ told' = told
        BY <1>1 DEF SenderAnswers, registry, sender, view
    <2> QED BY <2>1 DEF TimerInv, Decorating
<1>2. ASSUME NEW c \in Chains, Reading(c) PROVE TimerInv'
    <2>1. /\ step \in {"offered", "catalogue"} /\ step' \in {"offered", "catalogue"}
          /\ ids' = ids /\ answered' = answered
          /\ UNCHANGED registry /\ UNCHANGED sender /\ UNCHANGED view
        BY <1>2 DEF Reading, OfferedRead, OfferedFails, CatalogueRead, CatalogueFails, NextChain
    <2>2. status' = status /\ inScope' = inScope /\ told' = told
        BY <2>1 DEF registry, sender, view
    <2> QED BY <2>1, <2>2 DEF TimerInv, Decorating
<1> QED BY <1>1, <1>2

LEMMA TimerIsSet ==
    ASSUME HistoryInv, TimerInv, Decorated \/ DecorationFails
    PROVE  TimerInv'
<1>1. /\ Decorating /\ due' = StillDue(history) /\ step' = "idle" /\ told' = told
      /\ UNCHANGED registry /\ UNCHANGED sender
    BY DEF Decorated, DecorationFails, Shows, CallEnds, Decorating
<1>2. status' = status /\ inScope' = inScope
    BY <1>1 DEF registry, sender
<1>3. history = Scoped(answered, ids)
    BY <1>1, HistoryParts DEF CallShape
<1>4. ASSUME ~told PROVE due' = PendingInScope
    <2>1. ids = inScope /\ answered = status
        BY <1>1, <1>4 DEF TimerInv
    <2> QED BY <1>1, <1>3, <2>1, DueOfTheScope
<1>5. PendingInScope' = PendingInScope
    BY <1>2 DEF PendingInScope
<1> QED BY <1>1, <1>4, <1>5 DEF TimerInv, Decorating

LEMMA TimerSweeps ==
    ASSUME HistoryInv, TimerInv, Sweeps \/ SweepFails
    PROVE  TimerInv'
<1>1. /\ step = "sweep" /\ step' = "idle" /\ due' = due /\ UNCHANGED registry
    BY DEF Sweeps, SweepFails, CallEnds, view
<1>2. ~told' => ~told /\ status' = status
    <2>1. told \in BOOLEAN
        BY HistoryParts DEF ViewTypeOK
    <2> QED BY <2>1 DEF Sweeps, SweepFails, sender, view
<1>3. CASE told'
    BY <1>3 DEF TimerInv
<1>4. CASE ~told'
    <2>1. inScope' = inScope
        BY <1>1 DEF registry
    <2> QED BY <1>1, <1>2, <1>4, <2>1, SameTimer
<1> QED BY <1>3, <1>4

LEMMA TimerStep == HistoryInv /\ TimerInv /\ [HistoryNext]_historyVars => TimerInv'
<1> SUFFICES ASSUME HistoryInv, TimerInv, [HistoryNext]_historyVars PROVE TimerInv'
    OBVIOUS
<1>1. CASE ViewOpens \/ ScopeIsMoved \/ SenderFails
    BY <1>1 DEF ViewOpens, ScopeIsMoved, SenderFails, TimerInv
<1>2. CASE ScopeFails
    BY <1>2 DEF ScopeFails, view, TimerInv
<1>3. CASE ReadScope \/ Ticks
    BY <1>3, TimerBegins
<1>4. CASE SenderAnswers \/ \E c \in Chains : Reading(c)
    BY <1>4, TimerReads
<1>5. CASE Decorated \/ DecorationFails
    BY <1>5, TimerIsSet
<1>6. CASE Sweeps \/ SweepFails
    BY <1>6, TimerSweeps
<1>7. ASSUME NEW r \in Rows, RowAppears(r) \/ RowIsMined(r) \/ RowStalls(r) PROVE TimerInv'
    <2>1. CASE RowAppears(r) \/ RowStalls(r)
        BY <2>1 DEF RowAppears, RowStalls, TimerInv
    <2>2. CASE RowIsMined(r)
        BY <2>2, TimerOutside DEF RowIsMined
    <2> QED BY <1>7, <2>1, <2>2
<1>8. CASE UNCHANGED historyVars
    <2>1. UNCHANGED registry /\ UNCHANGED callVars /\ UNCHANGED view /\ status' = status
        BY <1>8 DEF historyVars, sender
    <2> QED BY <2>1, TimerOutside
<1> QED BY <1>1, <1>2, <1>3, <1>4, <1>5, <1>6, <1>7, <1>8, Zenon DEF HistoryNext, GoesOn

(* From the time a view is opened its timer is right whenever it is not waiting for      *)
(* anything: for any rows, chains and moves of the scope, and whatever of its reads fails *)
(* (history.rs, scope).                                                               *)
THEOREM TimerRight == HistorySpec => []TimerIsRight
<1>1. HistoryInit => TimerInv
    BY DEF HistoryInit, TimerInv
<1>2. TimerInv => TimerIsRight
    BY DEF TimerInv, TimerIsRight, PendingInScope
<1>3. HistoryInit => HistoryInv
    BY HistoryInitInv
<1>4. HistoryInv /\ [HistoryNext]_historyVars => HistoryInv'
    BY HistoryStep
<1>5. HistoryInv /\ TimerInv /\ [HistoryNext]_historyVars => TimerInv'
    BY TimerStep
<1> QED BY <1>1, <1>2, <1>3, <1>4, <1>5, PTL DEF HistorySpec

--------------------------------------------------------------------------------
(* Accounts.                                                                      *)

AnyEntry == Entry(Facts \cup {NoFacts})

\* While a method runs nothing is shown, and nothing is known of the inventory.
AccountsInv ==
    /\ AccountsTypeOK
    /\ stage # "replied" => shown = Failure
    /\ InventoryOrError /\ UsersNameWins /\ FactsAreTheManagers

LEMMA EntriesAreEntries ==
    /\ \A e \in AnyEntry : IsEntry(e) /\ e # NotListed /\ e # Malformed
    /\ Row \subseteq AnyEntry /\ Entry({NoFacts}) \subseteq AnyEntry
    /\ \A e \in AnyEntry : e.label \in Labels /\ e.facts \in Facts \cup {NoFacts}
    /\ Blank \in Labels
BY OddRowsAreNoRows DEF AnyEntry, Row, Entry, IsEntry, Labels

LEMMA EntriesOfMethod ==
    /\ \A m : EntriesOf(m) \subseteq AnyEntry
    /\ \A m : m # "get_account_labels" => EntriesOf(m) = AnyEntry
    /\ EntriesOf("get_account_labels") = Entry({NoFacts})
BY EntriesAreEntries DEF EntriesOf, AnyEntry

LEMMA NothingKept ==
    ASSUME NEW entries
    PROVE  NoEntries \in KeystoreReplies(entries)
<1>1. "own" \in Forms
    BY DEF Forms
<1>2. \A a \in Addresses, f \in Forms : <<a, f>> \in Keys /\ NoEntries[<<a, f>>] = NoEntry
    BY DEF Keys, NoEntries
<1> QED BY <1>1, <1>2 DEF NoEntries, KeystoreReplies, IsEntry

LEMMA FewerEntries ==
    ASSUME NEW m, NEW s \in KeystoreReplies(EntriesOf(m))
    PROVE  s \in KeystoreReplies(AnyEntry)
BY EntriesOfMethod DEF KeystoreReplies

\* A reply that is not a success says nothing of an account.
LEMMA FailureIsSafe ==
    /\ \A m : Failure \in [ok : BOOLEAN, accounts : SUBSET Addresses,
                           entries : [Keys -> EntriesOf(m) \cup {NoEntry}]]
    /\ Failure.ok = FALSE
BY DEF Failure, NoEntries

--------------------------------------------------------------------------------
(* The two merges.                                                                 *)

\* The keys of an address, and what the keystore may have under them.
LEMMA KeysOf ==
    ASSUME NEW s \in KeystoreReplies(AnyEntry), NEW a \in Addresses
    PROVE  /\ \A f \in Forms : /\ <<a, f>> \in Keys
                               /\ s[<<a, f>>] \in AnyEntry \cup {NoEntry}
                               /\ <<a, f>>[1] = a /\ <<a, f>>[2] = f
           /\ ~IsEntry(s[<<a, "own">>]) \/ ~IsEntry(s[<<a, "other">>])
           /\ Forms = {"own", "other"}
BY DEF Keys, KeystoreReplies, Forms

LEMMA ListedRows ==
    ASSUME NEW rows \in Inventories, EveryRowReads(rows)
    PROVE  /\ \A a \in Addresses : (a \in Listed(rows)) = (rows[a] # NotListed)
           /\ \A a \in Addresses : rows[a] # NotListed => rows[a] \in Row
           /\ Listed(rows) = {a \in Addresses : rows[a] # NotListed}
<1>1. \A a \in Addresses : rows[a] \in Row \/ rows[a] = NotListed
    BY DEF Inventories, EveryRowReads
<1>2. NotListed \notin Row
    BY EntriesAreEntries
<1> QED BY <1>1, <1>2 DEF Listed

\* merge_labels: the user's name stays, and the manager's comes where there is none.
LEMMA MergedLabels ==
    ASSUME NEW labels \in KeystoreReplies(AnyEntry), NEW rows \in Inventories,
           EveryRowReads(rows)
    PROVE  /\ labels \in KeystoreReplies(Entry({NoFacts})) =>
                  MergeLabels(labels, rows) \in [Keys -> Entry({NoFacts}) \cup {NoEntry}]
           /\ \A a \in Addresses :
                  NamesIn(MergeLabels(labels, rows), a) =
                      IF NamesIn(labels, a) # {} \/ rows[a] = NotListed
                      THEN NamesIn(labels, a) ELSE {rows[a].label} \ {Blank}
<1> DEFINE merged == MergeLabels(labels, rows)
<1>1. \A k \in Keys : merged[k] = IF Borrows(labels, rows, k)
                                  THEN [label |-> rows[k[1]].label, facts |-> NoFacts]
                                  ELSE labels[k]
    BY DEF MergeLabels
<1>2. ASSUME NEW r \in Row
      PROVE  [label |-> r.label, facts |-> NoFacts] \in Entry({NoFacts})
    BY EntriesAreEntries DEF Entry
<1>3. \A a \in Addresses : a \in Listed(rows) => rows[a] \in Row
    BY DEF Listed
<1>4. ASSUME labels \in KeystoreReplies(Entry({NoFacts}))
      PROVE  merged \in [Keys -> Entry({NoFacts}) \cup {NoEntry}]
    <2>1. ASSUME NEW k \in Keys PROVE merged[k] \in Entry({NoFacts}) \cup {NoEntry}
        <3>1. labels[k] \in Entry({NoFacts}) \cup {NoEntry}
            BY <1>4 DEF KeystoreReplies
        <3>2. Borrows(labels, rows, k) => rows[k[1]] \in Row
            BY <1>3 DEF Borrows, Listed
        <3> QED BY <1>1, <1>2, <3>1, <3>2
    <2> QED BY <2>1 DEF MergeLabels
<1> HIDE DEF merged
<1>5. ASSUME NEW a \in Addresses
      PROVE  NamesIn(merged, a) = IF NamesIn(labels, a) # {} \/ rows[a] = NotListed
                                  THEN NamesIn(labels, a) ELSE {rows[a].label} \ {Blank}
    <2>1. /\ \A f \in Forms : /\ <<a, f>> \in Keys
                              /\ labels[<<a, f>>] \in AnyEntry \cup {NoEntry}
                              /\ <<a, f>>[1] = a /\ <<a, f>>[2] = f
          /\ Forms = {"own", "other"}
        BY KeysOf
    <2>2. Named(labels, a) <=> NamesIn(labels, a) # {}
        BY DEF Named, NamesIn
    <2>3. (a \in Listed(rows)) = (rows[a] # NotListed)
        BY ListedRows
    <2>4. CASE Named(labels, a) \/ rows[a] = NotListed \/ rows[a].label = Blank
        <3>1. \A f \in Forms : ~Borrows(labels, rows, <<a, f>>)
            BY <2>1, <2>3, <2>4 DEF Borrows
        <3>2. \A f \in Forms : merged[<<a, f>>] = labels[<<a, f>>]
            BY <1>1, <2>1, <3>1
        <3>3. NamesIn(merged, a) = NamesIn(labels, a)
            BY <3>2 DEF NamesIn
        <3> QED BY <2>2, <2>4, <3>3
    <2>5. CASE ~Named(labels, a) /\ rows[a] # NotListed /\ rows[a].label # Blank
        <3>1. Borrows(labels, rows, <<a, "own">>) /\ ~Borrows(labels, rows, <<a, "other">>)
            BY <2>1, <2>3, <2>5 DEF Borrows
        <3>2. /\ merged[<<a, "own">>] = [label |-> rows[a].label, facts |-> NoFacts]
              /\ merged[<<a, "other">>] = labels[<<a, "other">>]
            BY <1>1, <2>1, <3>1
        <3>3. IsEntry(merged[<<a, "own">>])
            <4>1. rows[a] \in Row
                BY <2>5, ListedRows
            <4> QED BY <3>2, <4>1, <1>2, EntriesAreEntries
        <3>4. IsEntry(merged[<<a, "other">>]) => merged[<<a, "other">>].label = Blank
            BY <2>1, <2>5, <3>2 DEF Named
        <3>5. merged[<<a, "own">>].label = rows[a].label
            BY <3>2
        <3>6. ASSUME NEW x \in NamesIn(merged, a) PROVE x = rows[a].label
            <4>1. PICK f \in Forms : /\ IsEntry(merged[<<a, f>>]) /\ x # Blank
                                     /\ x = merged[<<a, f>>].label
                BY <3>6 DEF NamesIn
            <4> QED BY <4>1, <2>1, <3>4, <3>5
        <3>7. rows[a].label \in NamesIn(merged, a)
            BY <2>1, <2>5, <3>3, <3>5 DEF NamesIn
        <3>8. NamesIn(merged, a) = {rows[a].label}
            BY <3>6, <3>7
        <3> QED BY <2>2, <2>5, <3>8
    <2> QED BY <2>4, <2>5
<1> QED BY <1>4, <1>5 DEF merged

\* merge_wallets: the manager's facts go under the one key the keystore has.
LEMMA MergedWallets ==
    ASSUME NEW wallets \in KeystoreReplies(AnyEntry), NEW rows \in Inventories,
           EveryRowReads(rows)
    PROVE  /\ MergeWallets(wallets, rows) \in [Keys -> AnyEntry \cup {NoEntry}]
           /\ \A a \in Addresses : rows[a] # NotListed =>
                  FactsIn(MergeWallets(wallets, rows), a) = {rows[a].facts}
<1> DEFINE merged == MergeWallets(wallets, rows)
           Joined(k) == [label |-> IF IsEntry(wallets[k]) THEN wallets[k].label ELSE Blank,
                         facts |-> rows[k[1]].facts]
<1>1. \A k \in Keys : merged[k] = IF k[1] \in Listed(rows) /\ k[2] = KeyOf(wallets, k[1])
                                  THEN Joined(k) ELSE wallets[k]
    BY DEF MergeWallets
<1>2. ASSUME NEW k \in Keys, rows[k[1]] \in Row
      PROVE  Joined(k) \in AnyEntry /\ Joined(k).facts = rows[k[1]].facts
    <2>1. wallets[k] \in AnyEntry \cup {NoEntry}
        BY DEF KeystoreReplies
    <2>2. (IF IsEntry(wallets[k]) THEN wallets[k].label ELSE Blank) \in Labels
        BY <2>1, EntriesAreEntries DEF IsEntry
    <2>3. rows[k[1]].facts \in Facts \cup {NoFacts}
        BY <1>2, EntriesAreEntries
    <2> QED BY <2>2, <2>3 DEF AnyEntry, Entry
<1> HIDE DEF Joined
<1>3. merged \in [Keys -> AnyEntry \cup {NoEntry}]
    <2>1. ASSUME NEW k \in Keys PROVE merged[k] \in AnyEntry \cup {NoEntry}
        <3>1. wallets[k] \in AnyEntry \cup {NoEntry}
            BY DEF KeystoreReplies
        <3>2. k[1] \in Listed(rows) => rows[k[1]] \in Row
            BY DEF Listed
        <3> QED BY <1>1, <1>2, <3>1, <3>2
    <2> QED BY <2>1 DEF MergeWallets
<1> HIDE DEF merged
<1>4. ASSUME NEW a \in Addresses, rows[a] # NotListed
      PROVE  FactsIn(merged, a) = {rows[a].facts}
    <2>1. /\ \A f \in Forms : /\ <<a, f>> \in Keys
                              /\ <<a, f>>[1] = a /\ <<a, f>>[2] = f
          /\ ~IsEntry(wallets[<<a, "own">>]) \/ ~IsEntry(wallets[<<a, "other">>])
          /\ Forms = {"own", "other"}
        BY KeysOf
    <2>2. rows[a] \in Row /\ a \in Listed(rows)
        BY <1>4, ListedRows
    <2> DEFINE key == KeyOf(wallets, a)
    <2>3. PICK rest \in Forms :
              /\ key \in Forms /\ Forms = {key, rest} /\ key # rest
              /\ ~IsEntry(wallets[<<a, rest>>])
        <3>1. CASE IsEntry(wallets[<<a, "other">>])
            BY <2>1, <3>1 DEF KeyOf
        <3>2. CASE ~IsEntry(wallets[<<a, "other">>])
            BY <2>1, <3>2 DEF KeyOf
        <3> QED BY <3>1, <3>2
    <2>4. merged[<<a, rest>>] = wallets[<<a, rest>>]
        BY <1>1, <2>1, <2>3
    <2>5. merged[<<a, key>>] = Joined(<<a, key>>)
        BY <1>1, <2>1, <2>2, <2>3
    <2>6. IsEntry(merged[<<a, key>>]) /\ merged[<<a, key>>].facts = rows[a].facts
        BY <1>2, <2>1, <2>2, <2>3, <2>5, EntriesAreEntries
    <2> HIDE DEF key
    <2>7. {g \in Forms : IsEntry(merged[<<a, g>>])} = {key}
        BY <2>3, <2>4, <2>6
    <2> QED BY <2>6, <2>7 DEF FactsIn
<1> QED BY <1>3, <1>4 DEF merged

--------------------------------------------------------------------------------
LEMMA AccountsInitInv == AccountsInit => AccountsInv
<1> SUFFICES ASSUME AccountsInit PROVE AccountsInv
    OBVIOUS
<1>1. [a \in Addresses |-> NotListed] \in Inventories
    BY DEF Inventories
<1>2. AccountsTypeOK
    BY <1>1, NothingKept, FailureIsSafe DEF AccountsInit, AccountsTypeOK
<1>3. stage = "replied" /\ shown.ok = FALSE
    BY FailureIsSafe DEF AccountsInit
<1> QED BY <1>2, <1>3 DEF AccountsInv, InventoryOrError, UsersNameWins, FactsAreTheManagers

\* A step that shows nothing, or leaves what is shown with what it rests on.
LEMMA ShowsNothing ==
    ASSUME AccountsTypeOK', shown' = Failure
    PROVE  AccountsInv'
BY FailureIsSafe DEF AccountsInv, InventoryOrError, UsersNameWins, FactsAreTheManagers

LEMMA BeforeTheReply == AccountsInv /\ stage # "replied" => shown = Failure
BY DEF AccountsInv

LEMMA AsksKeepInv ==
    ASSUME AccountsInv,
           \/ \E m \in AccountMethods : AskAccounts(m)
           \/ KeystoreAnswers \/ KeystoreFails \/ ManagerFails
    PROVE  AccountsInv'
<1>1. AccountsTypeOK
    BY DEF AccountsInv
<1>2. [a \in Addresses |-> NotListed] \in Inventories
    BY DEF Inventories
<1>3. CASE \E m \in AccountMethods : AskAccounts(m)
    <2>1. AccountsTypeOK' /\ shown' = Failure
        BY <1>2, <1>3, NothingKept, FailureIsSafe DEF AskAccounts, AccountsTypeOK
    <2> QED BY <2>1, ShowsNothing
<1>4. CASE KeystoreAnswers
    <2>1. AccountsTypeOK'
        BY <1>1, <1>4 DEF KeystoreAnswers, AccountsTypeOK
    <2> QED BY <1>4, <2>1, BeforeTheReply, ShowsNothing DEF KeystoreAnswers
<1>5. CASE KeystoreFails
    <2>1. AccountsTypeOK'
        BY <1>1, <1>5 DEF KeystoreFails, AccountsTypeOK
    <2> QED BY <1>5, <2>1, BeforeTheReply, ShowsNothing DEF KeystoreFails
<1>6. CASE ManagerFails
    <2>1. AccountsTypeOK'
        BY <1>1, <1>6 DEF ManagerFails, AccountsTypeOK
    <2> QED BY <1>6, <2>1, BeforeTheReply, ShowsNothing DEF ManagerFails
<1> QED BY <1>3, <1>4, <1>5, <1>6

LEMMA ManagerAnswersInv == AccountsInv /\ ManagerAnswers => AccountsInv'
<1> SUFFICES ASSUME AccountsInv, ManagerAnswers PROVE AccountsInv'
    OBVIOUS
<1> DEFINE rows == inventory'
           merged == CASE query = "get_account_labels" -> MergeLabels(kept, rows)
                       [] query = "get_account_wallets" -> MergeWallets(kept, rows)
                       [] OTHER -> NoEntries
<1>0. shown' = IF query = "account_roster" THEN Success(Present(rows), NoEntries)
               ELSE IF ~EveryRowReads(rows) THEN Failure
               ELSE Success(Listed(rows), merged)
    BY Zenon DEF ManagerAnswers
<1> HIDE DEF merged
<1>1. /\ kept \in KeystoreReplies(EntriesOf(query)) /\ query \in AccountMethods
      /\ kept \in KeystoreReplies(AnyEntry)
      /\ rows \in Inventories /\ kept' = kept /\ query' = query /\ stage' = "replied"
    BY FewerEntries DEF AccountsInv, AccountsTypeOK, ManagerAnswers
<1>2. Listed(rows) \subseteq Addresses /\ Present(rows) \subseteq Addresses
    BY DEF Listed, Present
<1>3. CASE query = "account_roster"
    <2>1. shown' = Success(Present(rows), NoEntries)
        BY <1>0, <1>3
    <2>2. AccountsTypeOK'
        BY <1>1, <1>2, <2>1 DEF AccountsTypeOK, Success, NoEntries
    <2>3. InventoryOrError'
        BY <2>1 DEF InventoryOrError, Success, Present
    <2> QED BY <1>1, <1>3, <2>2, <2>3 DEF AccountsInv, UsersNameWins, FactsAreTheManagers
<1>4. CASE query # "account_roster" /\ ~EveryRowReads(rows)
    <2>1. shown' = Failure
        BY <1>0, <1>4
    <2>2. AccountsTypeOK'
        BY <1>1, <2>1, FailureIsSafe DEF AccountsTypeOK
    <2> QED BY <2>1, <2>2, ShowsNothing
<1>5. CASE query # "account_roster" /\ EveryRowReads(rows)
    <2>1. Listed(rows) = {a \in Addresses : rows[a] # NotListed}
        BY <1>1, <1>5, ListedRows
    <2> DEFINE entries == merged
    <2>2. /\ shown' = Success(Listed(rows), entries)
          /\ entries \in [Keys -> EntriesOf(query) \cup {NoEntry}]
          /\ query = "get_account_labels" => entries = MergeLabels(kept, rows)
          /\ query = "get_account_wallets" => entries = MergeWallets(kept, rows)
        <3>1. NoEntries \in [Keys -> EntriesOf(query) \cup {NoEntry}]
            BY DEF NoEntries
        <3>2. query = "get_account_labels" =>
                  MergeLabels(kept, rows) \in [Keys -> EntriesOf(query) \cup {NoEntry}]
            BY <1>1, <1>5, MergedLabels, EntriesOfMethod
        <3>3. query = "get_account_wallets" =>
                  MergeWallets(kept, rows) \in [Keys -> EntriesOf(query) \cup {NoEntry}]
            BY <1>1, <1>5, MergedWallets, EntriesOfMethod
        <3> QED BY <1>0, <1>5, <3>1, <3>2, <3>3 DEF merged
    <2> HIDE DEF entries
    <2>3. shown'.ok = TRUE /\ shown'.accounts = Listed(rows) /\ shown'.entries = entries
        BY <2>2 DEF Success
    <2>4. AccountsTypeOK'
        BY <1>1, <1>2, <2>2 DEF AccountsTypeOK, Success
    <2>5. InventoryOrError'
        BY <2>1, <2>3 DEF InventoryOrError
    <2>6. UsersNameWins'
        <3>1. ASSUME query = "get_account_labels", NEW a \in Addresses
              PROVE  NamesIn(entries, a) =
                         IF NamesIn(kept, a) # {} \/ rows[a] = NotListed
                         THEN NamesIn(kept, a) ELSE {rows[a].label} \ {Blank}
            BY <1>1, <1>5, <2>2, <3>1, MergedLabels
        <3>2. \A a : NamesIn(kept, a)' = NamesIn(kept, a)
            BY <1>1 DEF NamesIn
        <3>3. \A a : NamesIn(shown.entries, a)' = NamesIn(entries, a)
            BY <2>3 DEF NamesIn
        <3> QED BY <1>1, <3>1, <3>2, <3>3 DEF UsersNameWins
    <2>7. FactsAreTheManagers'
        <3>1. ASSUME query = "get_account_wallets", NEW a \in Addresses, rows[a] # NotListed
              PROVE  FactsIn(entries, a) = {rows[a].facts}
            BY <1>1, <1>5, <2>2, <3>1, MergedWallets
        <3>2. \A a : FactsIn(shown.entries, a)' = FactsIn(entries, a)
            BY <2>3 DEF FactsIn
        <3> QED BY <1>1, <3>1, <3>2 DEF FactsAreTheManagers
    <2> QED BY <1>1, <2>4, <2>5, <2>6, <2>7 DEF AccountsInv
<1> QED BY <1>3, <1>4, <1>5

LEMMA AccountsStep == AccountsInv /\ [AccountsNext]_accountsVars => AccountsInv'
<1> SUFFICES ASSUME AccountsInv, [AccountsNext]_accountsVars PROVE AccountsInv'
    OBVIOUS
<1>1. CASE UNCHANGED accountsVars
    <2>1. /\ query' = query /\ stage' = stage /\ kept' = kept /\ inventory' = inventory
          /\ shown' = shown
        BY <1>1 DEF accountsVars
    <2>2. /\ \A a : NamesIn(kept, a)' = NamesIn(kept, a)
          /\ \A a : NamesIn(shown.entries, a)' = NamesIn(shown.entries, a)
          /\ \A a : FactsIn(shown.entries, a)' = FactsIn(shown.entries, a)
        BY <2>1 DEF NamesIn, FactsIn
    <2> QED BY <2>1, <2>2
           DEF AccountsInv, AccountsTypeOK, InventoryOrError, UsersNameWins,
               FactsAreTheManagers
<1> QED BY <1>1, AsksKeepInv, ManagerAnswersInv DEF AccountsNext

(* Whatever the two owners answer, the join is of entries a view can read.          *)
THEOREM AccountsTypeCorrect == AccountsSpec => []AccountsTypeOK
<1>1. AccountsInv => AccountsTypeOK
    BY DEF AccountsInv
<1> QED BY <1>1, AccountsInitInv, AccountsStep, PTL DEF AccountsSpec

(* A success has every account the manager lists; whatever keeps it from that is an    *)
(* error.                                                                         *)
THEOREM NoPartialInventory == AccountsSpec => []InventoryOrError
<1>1. AccountsInv => InventoryOrError
    BY DEF AccountsInv
<1> QED BY <1>1, AccountsInitInv, AccountsStep, PTL DEF AccountsSpec

(* The user's name for an account is the one that is shown, and the manager's only      *)
(* where there is none, for any names and spellings.                                 *)
THEOREM UsersNamesShown == AccountsSpec => []UsersNameWins
<1>1. AccountsInv => UsersNameWins
    BY DEF AccountsInv
<1> QED BY <1>1, AccountsInitInv, AccountsStep, PTL DEF AccountsSpec

(* An account's signer is described once, by what the manager said in this call.        *)
THEOREM ManagersFactsShown == AccountsSpec => []FactsAreTheManagers
<1>1. AccountsInv => FactsAreTheManagers
    BY DEF AccountsInv
<1> QED BY <1>1, AccountsInitInv, AccountsStep, PTL DEF AccountsSpec

================================================================================
