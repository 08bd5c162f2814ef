------------------------------ MODULE Sends_proofs ------------------------------
(* Sends' budget, its registered requests and the end of its polling, for every   *)
(* timeout of a chain, any durations, and any number of requests and pollers.     *)
EXTENDS Sends, TLAPS

(* What a call may have used when it comes to a step. The last step is what        *)
(* matters: the sender is handed enough for a deadline, and so answers before its  *)
(* caller gives up.                                                               *)
UsedAtMost(s) ==
    CASE s \in {"idle", "seed"} -> 0
      [] s = "registry" -> InitBudget
      [] s = "offered" -> InitBudget + ProbeBudget
      [] s = "build" -> InitBudget + ProbeBudget + OfferedBudget
      [] s \in {"hand", "sent"} -> InitBudget + ProbeBudget + OfferedBudget + AssetsBudget

Clocks ==
    /\ elapsed <= UsedAtMost(step)
    /\ step = "sent" => SenderFloor <= allowance /\ allowance <= SendBudget - elapsed
    /\ step # "sent" => allowance = 0 /\ answer = "none"
    /\ answer # "none" => answeredAt <= SenderTime
    /\ answer = "pending" => registered > 0

(* What a poller holds is true of its send: it was told of a request that exists,   *)
(* and holds a final answer only of one that is over.                              *)
Polled ==
    /\ known \subseteq 1 .. registered
    /\ \A r \in Requests : r \in 1 .. registered <=> status[r] # "none"
    /\ \A r \in Requests, p \in Pollers : poll[r][p] # "idle" => r \in known
    /\ \A r \in Requests, p \in Pollers : IsFinal(reply[r][p]) => IsOver(r)

SendsInv == TypeOK /\ Clocks /\ AnswerComesHome /\ Polled /\ StopsAtTheEnd

--------------------------------------------------------------------------------
(* The arithmetic of budget.rs.                                                   *)

\* slice: a grant is at most what is left and what is asked for, and worth a call.
LEMMA GrantFits ==
    ASSUME NEW total \in Nat, NEW used \in Nat, NEW perCall \in Nat
    PROVE  /\ Slice(total, used, perCall) \in Nat
           /\ Slice(total, used, perCall) <= perCall
           /\ Slice(total, used, perCall) > 0 => used + Slice(total, used, perCall) <= total
           /\ (used + perCall <= total /\ perCall >= MinSlice)
                  => Slice(total, used, perCall) = perCall
BY SMT DEF Slice, Lesser, MinSlice, None

\* What a call takes is at most what it was granted.
LEMMA SpendsFit ==
    ASSUME NEW grant \in Nat
    PROVE  \A d \in Spends(grant) : d \in Nat /\ d <= grant
BY TimesAreNat DEF Spends

\* round_trip: at most a minute.
LEMMA RoundTripBounds ==
    ASSUME NEW record \in Records
    PROVE  RoundTrip(record) \in 0 .. MaxRoundTrip
<1>1. record \in ChainRecords
    BY RecordsAreRecords
<1>2. SecondsOf(record) \in Nat
    BY <1>1 DEF ChainRecords, SecondsOf
<1>3. MaxRoundTrip \in Nat
    BY DEF MaxRoundTrip
<1>4. 1000 * SecondsOf(record) \in Nat
    BY <1>2
<1> QED BY <1>3, <1>4 DEF RoundTrip, Lesser

\* sender_budget: never below its floor.
LEMMA SenderBudgetFloor ==
    ASSUME NEW t \in Nat, NEW b \in BOOLEAN
    PROVE  SenderBudget(t, b) \in Nat /\ SenderBudget(t, b) >= SenderFloor
BY SMT DEF SenderBudget, Greater, SenderFloor, ProbeBudget, CalleeMargin, InitBudget

\* The sender's deadline leaves its answer the margin to come home in.
LEMMA DeadlineBeforeCaller ==
    ASSUME Clocks, TypeOK, step = "sent"
    PROVE  SenderTime = allowance - CalleeMargin /\ SenderTime \in Nat
BY SMT DEF Clocks, TypeOK, SenderTime, CalleeDeadline, CalleeMargin, MinSlice, None, SenderFloor

--------------------------------------------------------------------------------
(* The delegated call and those in front of it.                                   *)

LEMMA RepliesAreReplies ==
    /\ NotNow \in Replies
    /\ TypeOK => \A r \in Requests : StatusReply(r) \in Replies
<1>1. \A b \in BOOLEAN : Word(b) \in {"true", "false", "absent"}
    BY DEF Word
<1>2. \A b \in BOOLEAN : Refusal(b) \in Replies
    BY <1>1 DEF Refusal, Replies, Statuses
<1>3. ASSUME TypeOK, NEW r \in Requests
      PROVE  [ok |-> TRUE, status |-> status[r], final |-> Word(status[r] \in Ended)] \in Replies
    <2>1. status[r] \in Statuses
        BY <1>3 DEF TypeOK
    <2>2. Word(status[r] \in Ended) \in {"true", "false", "absent"}
        BY DEF Word
    <2> QED BY <2>1, <2>2 DEF Replies
<1> QED BY <1>2, <1>3 DEF NotNow, StatusReply

LEMMA InitInv == Init => SendsInv
<1> SUFFICES ASSUME Init PROVE SendsInv
    OBVIOUS
<1>1. TypeOK
    <2>1. reply \in [Requests -> [Pollers -> Replies]]
        BY RepliesAreReplies DEF Init
    <2>2. poll \in [Requests -> [Pollers -> {"idle", "asked", "answered"}]]
        BY DEF Init
    <2>3. status \in [Requests -> Statuses]
        BY DEF Init, Statuses
    <2>4. registered \in 0 .. MaxRequests
        BY MaxRequestsIsNat DEF Init
    <2>5. /\ step \in Steps /\ elapsed \in Nat /\ rt \in 0 .. MaxRoundTrip /\ allowance \in Nat
          /\ answeredAt \in Nat
        BY DEF Init, Steps, None, MaxRoundTrip
    <2>6. /\ inScope \in BOOLEAN /\ seeded \in BOOLEAN /\ sending \in BOOLEAN
          /\ scoped \in BOOLEAN
        BY Zenon DEF Init
    <2>7. /\ answer \in {"none", "other", "pending"} /\ sender \in Senders
          /\ known \subseteq Requests /\ lost \subseteq Requests /\ stopped \subseteq known
        BY DEF Init
    <2> QED BY <2>1, <2>2, <2>3, <2>4, <2>5, <2>6, <2>7, Zenon DEF TypeOK
<1>2. Clocks /\ AnswerComesHome
    BY DEF Init, Clocks, AnswerComesHome, UsedAtMost, None
<1>3. Polled /\ StopsAtTheEnd
    BY SendersAreKinds DEF Init, Polled, StopsAtTheEnd, Requests, IsFinal, NotNow, Refusal, Word
<1> QED BY <1>1, <1>2, <1>3 DEF SendsInv

(* The calls before the last one each add at most what they may take, and hand      *)
(* nothing to the sender.                                                          *)
LEMMA AskClocks ==
    ASSUME TypeOK, Clocks, NEW from \in {"registry", "offered", "build"},
           NEW perCall \in Nat, NEW to \in {"offered", "build", "hand"}, Asks(from, perCall, to),
           UsedAtMost(from) + perCall <= UsedAtMost(to)
    PROVE  /\ elapsed' \in Nat /\ elapsed' <= UsedAtMost(to)
           /\ step' = to /\ allowance' = allowance /\ answer' = answer /\ answeredAt' = answeredAt
           /\ registered' = registered
<1>1. PICK d \in Spends(Granted(perCall)) : elapsed' = elapsed + d
    BY DEF Asks
<1>2. Granted(perCall) \in Nat /\ Granted(perCall) <= perCall
    BY GrantFits DEF Granted, TypeOK, SendBudget
<1>3. d \in Nat /\ d <= perCall
    BY <1>1, <1>2, SpendsFit
<1>4. elapsed \in Nat /\ elapsed <= UsedAtMost(from)
    BY DEF TypeOK, Clocks, Asks
<1>5. UsedAtMost(from) \in Nat /\ UsedAtMost(to) \in Nat
    BY SMT DEF UsedAtMost, InitBudget, ProbeBudget, OfferedBudget, AssetsBudget
<1>6. elapsed' \in Nat /\ elapsed' <= UsedAtMost(to)
    BY <1>1, <1>3, <1>4, <1>5
<1> QED BY <1>6 DEF Asks, delegated, requests

LEMMA HandedEnough ==
    ASSUME TypeOK, Clocks, step = "hand"
    PROVE  LET grant == Granted(SenderBudget(rt, sending))
           IN  grant \in Nat /\ SenderFloor <= grant /\ grant <= SendBudget - elapsed
<1> DEFINE want == SenderBudget(rt, sending)
<1>0. rt \in Nat /\ sending \in BOOLEAN
    BY DEF TypeOK, MaxRoundTrip
<1>1. want \in Nat /\ want >= SenderFloor
    BY <1>0, SenderBudgetFloor
<1>2. elapsed \in Nat /\ elapsed <= 12000
    BY SMT DEF TypeOK, Clocks, UsedAtMost, InitBudget, ProbeBudget, OfferedBudget, AssetsBudget
<1> HIDE DEF want
<1>3. LET grant == Slice(SendBudget, elapsed, want)
      IN  grant \in Nat /\ SenderFloor <= grant /\ grant <= SendBudget - elapsed
    BY <1>1, <1>2, SMT DEF Slice, Lesser, SendBudget, SenderFloor, MinSlice, None
<1> QED BY <1>3 DEF Granted, want

LEMMA SenderTimeIsNat == TypeOK => SenderTime \in Nat
BY SMT DEF TypeOK, SenderTime, CalleeDeadline, CalleeMargin, MinSlice, None

LEMMA GrantIsNat ==
    ASSUME TypeOK, NEW perCall \in Nat
    PROVE  Granted(perCall) \in Nat /\ \A d \in Spends(Granted(perCall)) : elapsed + d \in Nat
<1>1. elapsed \in Nat /\ SendBudget \in Nat
    BY DEF TypeOK, SendBudget
<1>2. Granted(perCall) \in Nat
    BY <1>1, GrantFits DEF Granted
<1>3. \A d \in Spends(Granted(perCall)) : d \in Nat
    BY <1>2, SpendsFit
<1> QED BY <1>1, <1>2, <1>3

(* The form's half of the type.                                                    *)
FormType ==
    /\ step \in Steps /\ sending \in BOOLEAN /\ scoped \in BOOLEAN
    /\ elapsed \in Nat /\ rt \in 0 .. MaxRoundTrip /\ allowance \in Nat
    /\ answer \in {"none", "other", "pending"} /\ answeredAt \in Nat

LEMMA ReturnsType == Returns => /\ step' \in Steps /\ sending' \in BOOLEAN /\ scoped' \in BOOLEAN
                                /\ elapsed' \in Nat /\ rt' \in 0 .. MaxRoundTrip /\ allowance' \in Nat
<1> SUFFICES ASSUME Returns
             PROVE  /\ step' \in Steps /\ sending' \in BOOLEAN /\ scoped' \in BOOLEAN
                    /\ elapsed' \in Nat /\ rt' \in 0 .. MaxRoundTrip /\ allowance' \in Nat
    OBVIOUS
<1>1. sending' \in BOOLEAN /\ scoped' \in BOOLEAN
    BY Zenon DEF Returns
<1>2. step' \in Steps
    BY DEF Returns, Steps
<1>3. elapsed' \in Nat /\ rt' \in 0 .. MaxRoundTrip /\ allowance' \in Nat
    BY DEF Returns, None, MaxRoundTrip
<1> QED BY <1>1, <1>2, <1>3

LEMMA FormTyped == TypeOK /\ [Next]_vars => FormType'
<1> SUFFICES ASSUME TypeOK, [Next]_vars PROVE FormType'
    OBVIOUS
<1> USE DEF form, delegated, requests, view, polls
<1>0. FormType
    BY DEF TypeOK, FormType
<1>1. CASE Call
    BY <1>0, <1>1 DEF Call, FormType, Steps, TypeOK
<1>2. CASE Seed
    <2>1. elapsed' \in Nat
        <3>1. \A d \in Spends(Granted(InitBudget)) : elapsed + d \in Nat
            BY GrantIsNat DEF InitBudget
        <3>2. elapsed' = elapsed \/ \E d \in Spends(Granted(InitBudget)) : elapsed' = elapsed + d
            BY <1>2 DEF Seed
        <3> QED BY <3>1, <3>2 DEF TypeOK
    <2> QED BY <1>0, <1>2, <2>1 DEF Seed, FormType, Steps
<1>3. CASE ReadRegistry
    <2>1. elapsed' \in Nat
        BY <1>3, GrantIsNat DEF ReadRegistry, Asks, ProbeBudget
    <2>2. rt' \in 0 .. MaxRoundTrip
        BY <1>3, RoundTripBounds DEF ReadRegistry
    <2> QED BY <1>0, <1>3, <2>1, <2>2 DEF ReadRegistry, Asks, FormType, Steps
<1>4. CASE OfferedTokens
    <2>1. elapsed' \in Nat
        BY <1>4, GrantIsNat DEF OfferedTokens, Asks, OfferedBudget
    <2> QED BY <1>0, <1>4, <2>1 DEF OfferedTokens, Asks, FormType, Steps
<1>5. CASE BuildTransfer
    <2>1. elapsed' \in Nat
        BY <1>5, GrantIsNat DEF BuildTransfer, Asks, AssetsBudget
    <2> QED BY <1>0, <1>5, <2>1 DEF BuildTransfer, Asks, FormType, Steps
<1>6. CASE Refused
    BY <1>0, <1>6, ReturnsType DEF Refused, FormType
<1>7. CASE Hand
    <2>1. rt \in Nat /\ sending \in BOOLEAN
        BY DEF TypeOK, MaxRoundTrip
    <2>2. allowance' \in Nat
        BY <1>7, <2>1, SenderBudgetFloor, GrantIsNat DEF Hand
    <2> QED BY <1>0, <1>7, <2>2 DEF Hand, FormType, Steps
<1>8. CASE AnswerHeard \/ AnswerMissed
    BY <1>0, <1>8, ReturnsType DEF AnswerHeard, AnswerMissed, FormType
<1>9. CASE SenderRegisters \/ SenderAnswers
    <2>1. answeredAt' \in Nat
        BY <1>9, SenderTimeIsNat, SpendsFit DEF SenderRegisters, SenderAnswers
    <2>2. answer' \in {"none", "other", "pending"}
        BY <1>9 DEF SenderRegisters, SenderAnswers
    <2>3. UNCHANGED form
        BY <1>9 DEF SenderRegisters, SenderAnswers
    <2> QED BY <1>0, <2>1, <2>2, <2>3 DEF FormType
<1>10. CASE MoveScope
    BY <1>0, <1>10 DEF MoveScope, FormType, TypeOK
<1>11. CASE \E r \in Requests : Polling(r) \/ Sender(r)
    <2>1. UNCHANGED <<form, delegated>>
        BY <1>11 DEF Polling, Sender, Poll, SenderSays, HearStatus, MissStatus, CancelSend,
                     Broadcasts, Ends, Forgets, Moves
    <2> QED BY <1>0, <2>1 DEF FormType
<1>12. CASE UNCHANGED vars
    BY <1>0, <1>12 DEF vars, FormType
<1> QED BY <1>1, <1>2, <1>3, <1>4, <1>5, <1>6, <1>7, <1>8, <1>9, <1>10, <1>11, <1>12
        DEF Next, Form

--------------------------------------------------------------------------------
(* Time: a call has used no more than the calls in front of its step may take.      *)

LEMMA StepsLeave ==
    /\ UsedAtMost("idle") = 0 /\ UsedAtMost("seed") = 0
    /\ UsedAtMost("seed") + InitBudget <= UsedAtMost("registry")
    /\ UsedAtMost("registry") + ProbeBudget <= UsedAtMost("offered")
    /\ UsedAtMost("offered") + OfferedBudget <= UsedAtMost("build")
    /\ UsedAtMost("build") + AssetsBudget <= UsedAtMost("hand")
    /\ UsedAtMost("sent") = UsedAtMost("hand")
    /\ InitBudget \in Nat /\ ProbeBudget \in Nat /\ OfferedBudget \in Nat /\ AssetsBudget \in Nat
    /\ \A s \in Steps : UsedAtMost(s) \in Nat
BY SMT DEF UsedAtMost, InitBudget, ProbeBudget, OfferedBudget, AssetsBudget, Steps

LEMMA IdleClocks == Returns /\ answer' = "none" => Clocks'
BY StepsLeave DEF Returns, Clocks, None

LEMMA QuietClocks ==
    Clocks /\ UNCHANGED <<step, elapsed, allowance, delegated, registered>> => Clocks'
BY DEF Clocks, delegated, SenderTime

LEMMA ClocksKept == TypeOK /\ Clocks /\ [Next]_vars => Clocks'
<1> SUFFICES ASSUME TypeOK, Clocks, [Next]_vars PROVE Clocks'
    OBVIOUS
<1> USE DEF form, delegated, requests, view, polls
<1>1. CASE Call
    <2>1. step' = "seed" /\ UNCHANGED <<elapsed, allowance, answer, answeredAt, registered>>
        BY <1>1 DEF Call
    <2>2. elapsed' <= UsedAtMost("seed")
        BY <1>1, StepsLeave DEF Call, Clocks
    <2>3. allowance = 0 /\ answer = "none"
        BY <1>1 DEF Call, Clocks
    <2> QED BY <2>1, <2>2, <2>3 DEF Clocks
<1>2. CASE Seed
    <2>1. PICK d \in Nat : d <= InitBudget /\ elapsed' = elapsed + d
        <3>0. elapsed \in Nat /\ SendBudget \in Nat
            BY DEF TypeOK, SendBudget
        <3>1. Granted(InitBudget) \in Nat /\ Granted(InitBudget) <= InitBudget
            BY <3>0, GrantFits, StepsLeave DEF Granted
        <3>2. \A d \in Spends(Granted(InitBudget)) : d \in Nat /\ d <= Granted(InitBudget)
            BY <3>1, SpendsFit
        <3>3. CASE seeded /\ UNCHANGED <<seeded, elapsed>>
            BY <3>3, StepsLeave DEF TypeOK
        <3>4. CASE \E d \in Spends(Granted(InitBudget)) : elapsed' = elapsed + d
            BY <3>1, <3>2, <3>4, StepsLeave
        <3> QED BY <1>2, <3>3, <3>4 DEF Seed
    <2>2. elapsed \in Nat /\ elapsed <= UsedAtMost("seed")
        BY <1>2 DEF Seed, Clocks, TypeOK
    <2>3. elapsed' <= UsedAtMost("registry")
        BY <2>1, <2>2, StepsLeave DEF Steps
    <2>4. step' = "registry" /\ UNCHANGED <<allowance, answer, answeredAt, registered>>
        BY <1>2 DEF Seed
    <2>5. allowance = 0 /\ answer = "none"
        BY <1>2 DEF Seed, Clocks
    <2> QED BY <2>3, <2>4, <2>5 DEF Clocks
<1>3. ASSUME NEW from \in {"registry", "offered", "build"}, NEW perCall \in Nat,
             NEW to \in {"offered", "build", "hand"}, Asks(from, perCall, to),
             UsedAtMost(from) + perCall <= UsedAtMost(to)
      PROVE  Clocks'
    <2>1. allowance = 0 /\ answer = "none"
        BY <1>3 DEF Asks, Clocks
    <2>2. /\ elapsed' <= UsedAtMost(to) /\ step' = to
          /\ UNCHANGED <<allowance, answer, answeredAt, registered>>
        BY <1>3, AskClocks
    <2> QED BY <2>1, <2>2 DEF Clocks
<1>4. CASE ReadRegistry
    BY <1>3, <1>4, StepsLeave DEF ReadRegistry
<1>5. CASE OfferedTokens
    BY <1>3, <1>5, StepsLeave DEF OfferedTokens
<1>6. CASE BuildTransfer
    BY <1>3, <1>6, StepsLeave DEF BuildTransfer
<1>7. CASE Refused
    <2>1. answer' = "none"
        BY <1>7 DEF Refused, Clocks
    <2> QED BY <1>7, <2>1, IdleClocks DEF Refused
<1>8. CASE Hand
    <2>1. SenderFloor <= allowance' /\ allowance' <= SendBudget - elapsed
        BY <1>8, HandedEnough DEF Hand
    <2>2. step' = "sent" /\ UNCHANGED <<elapsed, answer, answeredAt, registered>> /\ answer = "none"
        BY <1>8 DEF Hand, Clocks
    <2>3. elapsed' <= UsedAtMost("sent")
        BY <1>8, <2>2, StepsLeave DEF Hand, Clocks
    <2> QED BY <2>1, <2>2, <2>3 DEF Clocks
<1>9. CASE AnswerHeard \/ AnswerMissed
    BY <1>9, IdleClocks DEF AnswerHeard, AnswerMissed
<1>10. CASE SenderRegisters \/ SenderAnswers
    <2>1. answeredAt' \in Spends(SenderTime) /\ UNCHANGED <<step, elapsed, allowance>> /\ step = "sent"
        BY <1>10 DEF SenderRegisters, SenderAnswers
    <2>2. answeredAt' <= SenderTime
        BY <2>1, SenderTimeIsNat, SpendsFit
    <2>3. SenderTime' = SenderTime
        BY <2>1 DEF SenderTime
    <2>4. answer' = "pending" => registered' > 0
        BY <1>10 DEF SenderRegisters, SenderAnswers, TypeOK
    <2> QED BY <2>1, <2>2, <2>3, <2>4 DEF Clocks
<1>11. CASE MoveScope
    BY <1>11, QuietClocks DEF MoveScope
<1>12. CASE \E r \in Requests : Polling(r) \/ Sender(r)
    <2>1. UNCHANGED <<step, elapsed, allowance, delegated, registered>>
        BY <1>12 DEF Polling, Sender, Poll, SenderSays, HearStatus, MissStatus, CancelSend,
                     Broadcasts, Ends, Forgets, Moves
    <2> QED BY <2>1, QuietClocks
<1>13. CASE UNCHANGED vars
    BY <1>13, QuietClocks DEF vars
<1> QED BY <1>1, <1>2, <1>4, <1>5, <1>6, <1>7, <1>8, <1>9, <1>10, <1>11, <1>12, <1>13
        DEF Next, Form

\* The budget holds wherever the clocks do.
LEMMA ClocksInTime == TypeOK /\ Clocks => InTime
<1> SUFFICES ASSUME TypeOK, Clocks PROVE InTime
    OBVIOUS
<1>1. UsedAtMost(step) <= SendBudget
    BY SMT DEF UsedAtMost, TypeOK, Steps, InitBudget, ProbeBudget, OfferedBudget, AssetsBudget, SendBudget
<1>2. UsedAtMost(step) \in Nat /\ elapsed \in Nat /\ allowance \in Nat /\ SendBudget \in Nat
    BY StepsLeave DEF TypeOK, SendBudget
<1> QED BY <1>1, <1>2 DEF Clocks, InTime

--------------------------------------------------------------------------------
(* Requests and pollers.                                                           *)

RequestsType ==
    /\ inScope \in BOOLEAN /\ seeded \in BOOLEAN
    /\ sender \in Senders /\ registered \in 0 .. MaxRequests
    /\ status \in [Requests -> Statuses]
    /\ known \subseteq Requests /\ lost \subseteq Requests /\ stopped \subseteq known
    /\ poll \in [Requests -> [Pollers -> {"idle", "asked", "answered"}]]
    /\ reply \in [Requests -> [Pollers -> Replies]]

LEMMA IdleType ==
    ASSUME RequestsType, NEW r \in Requests, NEW p \in Pollers, Idle(r, p)
    PROVE  /\ poll' \in [Requests -> [Pollers -> {"idle", "asked", "answered"}]]
           /\ reply' \in [Requests -> [Pollers -> Replies]]
BY RepliesAreReplies DEF RequestsType, Idle

LEMMA RequestsTyped == TypeOK /\ Clocks /\ Polled /\ [Next]_vars => RequestsType'
<1> SUFFICES ASSUME TypeOK, Clocks, Polled, [Next]_vars PROVE RequestsType'
    OBVIOUS
<1> USE DEF form, delegated, requests, view, polls
<1>0. RequestsType
    BY DEF TypeOK, RequestsType
<1>1. CASE Call \/ OfferedTokens \/ BuildTransfer \/ ReadRegistry \/ Refused \/ Hand
    <2>1. UNCHANGED <<inScope, seeded, requests, view, polls>>
        BY <1>1 DEF Call, OfferedTokens, BuildTransfer, ReadRegistry, Asks, Refused, Hand
    <2> QED BY <1>0, <2>1 DEF RequestsType
<1>2. CASE Seed
    <2>1. UNCHANGED <<inScope, requests, view, polls>>
        BY <1>2 DEF Seed
    <2>2. seeded' \in BOOLEAN
        BY <1>0, <1>2 DEF Seed, RequestsType
    <2> QED BY <1>0, <2>1, <2>2 DEF RequestsType
<1>3. CASE AnswerHeard \/ AnswerMissed
    <2>1. answer = "pending" => registered \in Requests
        BY DEF Clocks, TypeOK, Requests
    <2>2. known' \subseteq Requests /\ lost' \subseteq Requests /\ known \subseteq known' /\ stopped' = stopped
        BY <1>3, <2>1 DEF AnswerHeard, AnswerMissed, TypeOK
    <2>3. UNCHANGED <<inScope, seeded, requests, polls>>
        BY <1>3 DEF AnswerHeard, AnswerMissed
    <2> QED BY <1>0, <2>2, <2>3 DEF RequestsType
<1>4. CASE SenderRegisters
    <2>1. registered + 1 \in 0 .. MaxRequests
        BY <1>4, MaxRequestsIsNat DEF SenderRegisters, TypeOK
    <2>2. status' \in [Requests -> Statuses] /\ registered' \in 0 .. MaxRequests
        BY <1>4, <2>1 DEF SenderRegisters, TypeOK, Statuses, Moving
    <2>3. UNCHANGED <<inScope, seeded, sender, view, polls>>
        BY <1>4 DEF SenderRegisters
    <2> QED BY <1>0, <2>2, <2>3 DEF RequestsType
<1>5. CASE SenderAnswers
    BY <1>0, <1>5 DEF SenderAnswers, RequestsType
<1>6. CASE MoveScope
    <2>1. UNCHANGED <<seeded, requests, view, polls>> /\ inScope' \in BOOLEAN
        BY <1>6 DEF MoveScope
    <2> QED BY <1>0, <2>1 DEF RequestsType
<1>7. ASSUME NEW r \in Requests, NEW p \in Pollers,
             Poll(r, p) \/ SenderSays(r, p) \/ HearStatus(r, p) \/ MissStatus(r, p)
      PROVE  RequestsType'
    <2>1. CASE Poll(r, p)
        <3>1. poll' \in [Requests -> [Pollers -> {"idle", "asked", "answered"}]]
            BY <1>0, <2>1 DEF Poll, RequestsType
        <3> QED BY <1>0, <2>1, <3>1 DEF Poll, RequestsType
    <2>2. CASE SenderSays(r, p)
        <3>1. poll' \in [Requests -> [Pollers -> {"idle", "asked", "answered"}]]
            BY <1>0, <2>2 DEF SenderSays, RequestsType
        <3>2. reply' \in [Requests -> [Pollers -> Replies]]
            BY <1>0, <2>2, RepliesAreReplies DEF SenderSays, RequestsType
        <3> QED BY <1>0, <2>2, <3>1, <3>2 DEF SenderSays, RequestsType
    <2>3. CASE HearStatus(r, p) \/ MissStatus(r, p)
        <3>1. r \in known
            BY <2>3 DEF Polled, HearStatus, MissStatus
        <3>2. stopped' \subseteq known
            BY <1>0, <2>3, <3>1 DEF RequestsType, HearStatus, MissStatus, StopsIfFinal
        <3>3. /\ poll' \in [Requests -> [Pollers -> {"idle", "asked", "answered"}]]
              /\ reply' \in [Requests -> [Pollers -> Replies]]
            BY <1>0, <2>3, IdleType DEF HearStatus, MissStatus
        <3>4. UNCHANGED <<inScope, seeded, requests, known, lost>>
            BY <2>3 DEF HearStatus, MissStatus
        <3> QED BY <1>0, <3>2, <3>3, <3>4 DEF RequestsType
    <2> QED BY <1>7, <2>1, <2>2, <2>3
<1>8. ASSUME NEW r \in Requests, CancelSend(r) \/ Sender(r)
      PROVE  RequestsType'
    <2>1. PICK from \in SUBSET Statuses, to \in Statuses : Moves(r, from, to)
        BY <1>8, OutcomesAreEnds DEF CancelSend, Sender, Broadcasts, Ends, Forgets, EndsFrom,
                                     Statuses, Moving, Ended
    <2>2. status' \in [Requests -> Statuses]
        BY <1>0, <2>1 DEF Moves, RequestsType
    <2> QED BY <1>0, <2>1, <2>2 DEF Moves, RequestsType
<1>9. CASE UNCHANGED vars
    BY <1>0, <1>9 DEF vars, RequestsType
<1> QED BY <1>1, <1>2, <1>3, <1>4, <1>5, <1>6, <1>7, <1>8, <1>9 DEF Next, Form, Polling

\* A final answer is given only of a send that is over.
LEMMA FinalIsOver ==
    ASSUME TypeOK, NEW r \in Requests, status[r] # "none"
    PROVE  ~IsFinal(NotNow) /\ (IsFinal(StatusReply(r)) => IsOver(r))
<1>1. sender \in {"modern", "legacy"} /\ status[r] \in Statuses
    BY SendersAreKinds DEF TypeOK
<1>2. Word(FALSE) # "true" /\ (Word(TRUE) = "true" \/ Word(TRUE) = "absent")
    BY DEF Word
<1>3. ~IsFinal(NotNow)
    BY <1>2 DEF IsFinal, NotNow, Refusal
<1>4. CASE status[r] = "forgotten"
    BY <1>3, <1>4 DEF IsOver
<1>5. CASE status[r] \in Ended
    BY <1>3, <1>5 DEF IsOver
<1>6. CASE status[r] \in Moving
    <2>1. status[r] \notin Ended /\ status[r] # "forgotten"
        BY <1>6 DEF Moving, Ended
    <2>2. Word(status[r] \in Ended) = Word(FALSE)
        BY <2>1 DEF Word
    <2>3. StatusReply(r).status = status[r] /\ StatusReply(r).final = Word(FALSE)
        BY <2>1, <2>2 DEF StatusReply
    <2> QED BY <1>2, <1>3, <1>6, <2>3 DEF IsFinal
<1> QED BY <1>1, <1>4, <1>5, <1>6 DEF Statuses

\* What is over stays over, and what is registered stays registered.
LEMMA OverStaysOver ==
    ASSUME TypeOK, Polled, [Next]_vars, NEW r \in Requests
    PROVE  /\ IsOver(r) => IsOver(r)'
           /\ r \in 1 .. registered => r \in 1 .. registered'
           /\ r \in (1 .. registered)' <=> status'[r] # "none"
<1> USE DEF form, delegated, requests, view, polls
<1>0. /\ registered \in 0 .. MaxRequests /\ status \in [Requests -> Statuses]
      /\ r \in 1 .. registered <=> status[r] # "none"
    BY DEF TypeOK, Polled
<1>1. CASE UNCHANGED requests
    BY <1>0, <1>1 DEF IsOver
<1>2. CASE SenderRegisters
    <2>1. registered + 1 \in Requests /\ registered' = registered + 1
        BY <1>2, MaxRequestsIsNat DEF SenderRegisters, TypeOK, Requests
    <2>2. status[registered + 1] = "none"
        BY <2>1 DEF Polled, TypeOK
    <2>3. status'[r] = IF r = registered + 1 THEN "awaitingApproval" ELSE status[r]
        BY <1>0, <1>2 DEF SenderRegisters
    <2>4. IsOver(r) => r # registered + 1
        BY <2>2 DEF IsOver, Ended
    <2>5. r \in (1 .. registered)' <=> r \in 1 .. registered \/ r = registered + 1
        BY <1>0, <2>1 DEF Requests
    <2> QED BY <1>0, <2>1, <2>3, <2>4, <2>5 DEF IsOver
<1>3. ASSUME NEW q \in Requests, CancelSend(q) \/ Sender(q)
      PROVE  /\ registered' = registered
             /\ IsOver(r) => IsOver(r)'
             /\ status[r] # "none" <=> status'[r] # "none"
    <2> DEFINE Is(from, to) == Moves(q, from, to) /\ to # "none"
                                /\ (from \subseteq Moving \/ (to = "forgotten" /\ from = Ended))
    <2>a. CancelSend(q) => Is({"awaitingApproval"}, "cancelled")
        BY DEF CancelSend, Moving
    <2>b. Broadcasts(q) => Is({"awaitingApproval"}, "broadcasting")
        BY DEF Broadcasts, Moving
    <2>c. ASSUME NEW outcome \in Outcomes, Moves(q, EndsFrom(outcome), outcome)
          PROVE  Is(EndsFrom(outcome), outcome)
        BY <2>c, OutcomesAreEnds DEF EndsFrom, Moving
    <2>d. Forgets(q) => Is(Ended, "forgotten")
        BY DEF Forgets
    <2>1. PICK from, to : Is(from, to)
        BY <1>3, <2>a, <2>b, <2>c, <2>d DEF Sender, Ends
    <2>2. status[q] \in from /\ status'[r] = IF r = q THEN to ELSE status[r]
        BY <1>0, <2>1 DEF Moves
    <2>3. registered' = registered
        BY <2>1 DEF Moves
    <2> QED BY <2>1, <2>2, <2>3 DEF IsOver, Moving, Ended
<1>4. CASE \E q \in Requests : Polling(q) /\ ~CancelSend(q)
    <2>1. UNCHANGED requests
        BY <1>4 DEF Polling, Poll, SenderSays, HearStatus, MissStatus
    <2> QED BY <1>1, <2>1
<1>5. CASE Form \/ SenderAnswers \/ MoveScope \/ UNCHANGED vars
    <2>1. UNCHANGED requests
        BY <1>5 DEF Form, Call, Seed, ReadRegistry, OfferedTokens, BuildTransfer, Asks, Refused,
                    Hand, AnswerHeard, AnswerMissed, SenderAnswers, MoveScope, vars
    <2> QED BY <1>1, <2>1
<1>6. CASE \E q \in Requests : CancelSend(q) \/ Sender(q)
    BY <1>0, <1>3, <1>6
<1> QED BY <1>2, <1>4, <1>5, <1>6 DEF Next

\* Replies are final only of sends that are over, and polled only of sends that are known.
LEMMA PolledKept == TypeOK /\ Clocks /\ Polled /\ [Next]_vars => Polled'
<1> SUFFICES ASSUME TypeOK, Clocks, Polled, [Next]_vars PROVE Polled'
    OBVIOUS
<1> USE DEF form, delegated, requests, view, polls
<1>1. \A r \in Requests : r \in (1 .. registered)' <=> status'[r] # "none"
    BY OverStaysOver
<1>2. Requests' = Requests
    BY DEF Requests
<1>3. /\ \A r \in Requests : r \in 1 .. registered => r \in (1 .. registered)'
      /\ \A r \in Requests : IsOver(r) => IsOver(r)'
    BY OverStaysOver
<1>4. known' \subseteq (1 .. registered)' /\ known \subseteq known'
    <2>1. known' = known \/ (answer = "pending" /\ known' = known \cup {registered} /\ registered' = registered)
        BY DEF Next, Form, Call, Seed, ReadRegistry, OfferedTokens, BuildTransfer, Asks, Refused,
               Hand, AnswerHeard, AnswerMissed, SenderRegisters, SenderAnswers, MoveScope, Polling,
               Sender, Poll, SenderSays, HearStatus, MissStatus, CancelSend, Broadcasts, Ends,
               Forgets, Moves, vars
    <2>2. known \subseteq Requests /\ known \subseteq 1 .. registered
        BY DEF TypeOK, Polled
    <2>3. answer = "pending" => registered \in 1 .. registered
        BY DEF Clocks, TypeOK
    <2> QED BY <1>3, <2>1, <2>2, <2>3
<1>5. CASE UNCHANGED polls
    <2>1. \A r \in Requests, p \in Pollers : poll[r][p] # "idle" => r \in known'
        BY <1>4 DEF Polled
    <2>2. \A r \in Requests, p \in Pollers : IsFinal(reply[r][p]) => IsOver(r)'
        BY <1>3 DEF Polled
    <2> QED BY <1>1, <1>2, <1>4, <1>5, <2>1, <2>2 DEF Polled, IsFinal
<1>6. ASSUME NEW r \in Requests, NEW p \in Pollers,
             Poll(r, p) \/ SenderSays(r, p) \/ HearStatus(r, p) \/ MissStatus(r, p)
      PROVE  Polled'
    <2>1. UNCHANGED <<requests, known>> /\ r \in known
        BY <1>6 DEF Poll, SenderSays, HearStatus, MissStatus, Polled
    <2>2. status[r] # "none"
        BY <2>1 DEF Polled
    <2>3. \A q \in Requests, o \in Pollers : poll'[q][o] # "idle" => q = r \/ poll[q][o] # "idle"
        BY <1>6 DEF Poll, SenderSays, HearStatus, MissStatus, Idle, TypeOK
    <2>4. \A q \in Requests, o \in Pollers :
             reply'[q][o] \in {reply[q][o], NotNow} \/ (q = r /\ reply'[q][o] = StatusReply(r))
        BY <1>6 DEF Poll, SenderSays, HearStatus, MissStatus, Idle, TypeOK
    <2>5. \A q \in Requests : IsOver(q)' <=> IsOver(q)
        BY <2>1 DEF IsOver
    <2>6. \A q \in Requests, o \in Pollers : IsFinal(reply'[q][o]) => IsOver(q)
        BY <2>2, <2>4, FinalIsOver DEF Polled
    <2> QED BY <1>1, <1>2, <1>4, <2>1, <2>3, <2>5, <2>6 DEF Polled, IsFinal
<1>7. CASE Form \/ SenderRegisters \/ SenderAnswers \/ MoveScope \/ UNCHANGED vars
    <2>1. UNCHANGED polls
        BY <1>7 DEF Form, Call, Seed, ReadRegistry, OfferedTokens, BuildTransfer, Asks, Refused, Hand,
                    AnswerHeard, AnswerMissed, SenderRegisters, SenderAnswers, MoveScope, vars
    <2> QED BY <1>5, <2>1
<1>8. CASE \E r \in Requests : CancelSend(r) \/ Sender(r)
    <2>1. UNCHANGED polls
        BY <1>8 DEF CancelSend, Sender, Broadcasts, Ends, Forgets, Moves
    <2> QED BY <1>5, <2>1
<1> QED BY <1>6, <1>7, <1>8 DEF Next, Polling

\* A poller stops on a reply it heard, and that one was final.
LEMMA StopsKept == TypeOK /\ Polled /\ StopsAtTheEnd /\ [Next]_vars => StopsAtTheEnd'
<1> SUFFICES ASSUME TypeOK, Polled, StopsAtTheEnd, [Next]_vars PROVE StopsAtTheEnd'
    OBVIOUS
<1>1. \A r \in Requests : IsOver(r) => IsOver(r)'
    BY OverStaysOver
<1>2. stopped \subseteq Requests
    BY DEF TypeOK
<1>3. \A r \in stopped' : r \in stopped \/ (r \in Requests /\ IsOver(r))
    <2>1. CASE stopped' = stopped
        BY <2>1
    <2>2. ASSUME NEW r \in Requests, NEW p \in Pollers, HearStatus(r, p)
          PROVE  stopped' = IF IsFinal(reply[r][p]) THEN stopped \cup {r} ELSE stopped
        BY <2>2 DEF HearStatus, StopsIfFinal, RelayedFinal
    <2>3. ASSUME NEW r \in Requests, NEW p \in Pollers, MissStatus(r, p)
          PROVE  stopped' = stopped
        BY <2>3 DEF MissStatus, StopsIfFinal, RelayedFinal
    <2>4. stopped' = stopped \/ \E r \in Requests, p \in Pollers : HearStatus(r, p) \/ MissStatus(r, p)
        BY DEF Next, Form, Call, Seed, ReadRegistry, OfferedTokens, BuildTransfer, Asks, Refused,
               Hand, AnswerHeard, AnswerMissed, SenderRegisters, SenderAnswers, MoveScope, Polling,
               Sender, Poll, SenderSays, CancelSend, Broadcasts, Ends, Forgets, Moves, vars, view
    <2> QED BY <2>1, <2>2, <2>3, <2>4 DEF Polled
<1> QED BY <1>1, <1>2, <1>3 DEF StopsAtTheEnd, IsOver

\* A caller that waits hears what the sender answers in its deadline.
LEMMA HomeKept == TypeOK /\ Clocks /\ AnswerComesHome /\ [Next]_vars => AnswerComesHome'
<1> SUFFICES ASSUME TypeOK, Clocks, AnswerComesHome, [Next]_vars PROVE AnswerComesHome'
    OBVIOUS
<1> USE DEF form, delegated, requests, view, polls
<1>1. CASE UNCHANGED <<registered, known, lost, answer>>
    BY <1>1 DEF AnswerComesHome
<1>2. CASE SenderRegisters
    <2>1. \A r \in 1 .. registered : r \in known \cup lost
        BY <1>2 DEF SenderRegisters, AnswerComesHome
    <2>2. /\ registered' = registered + 1 /\ answer' = "pending" /\ registered \in Nat
          /\ UNCHANGED <<known, lost>>
        BY <1>2 DEF SenderRegisters, TypeOK
    <2> QED BY <2>1, <2>2 DEF AnswerComesHome
<1>3. CASE SenderAnswers
    BY <1>3 DEF SenderAnswers, AnswerComesHome
<1>4. CASE AnswerHeard
    BY <1>4 DEF AnswerHeard, AnswerComesHome
<1>5. CASE AnswerMissed
    <2>1. CASE answer # "pending"
        BY <1>5, <2>1 DEF AnswerMissed, AnswerComesHome
    <2>2. CASE answer = "pending"
        <3>1. answeredAt <= allowance - CalleeMargin /\ answeredAt \in Nat /\ allowance \in Nat
            BY <1>5, <2>2, DeadlineBeforeCaller DEF AnswerMissed, Clocks, TypeOK
        <3>2. \A trip \in Trips : answeredAt + trip <= allowance
            BY <3>1, TimesAreNat DEF CalleeMargin
        <3>3. \A trip \in Trips : ~(answeredAt + trip > allowance)
            BY <3>1, <3>2, TimesAreNat DEF CalleeMargin
        <3>4. Misses = {"lost"}
            BY <3>3 DEF Misses
        <3>5. lost' = lost \cup {registered} /\ UNCHANGED <<registered, known>>
            BY <1>5, <2>2, <3>4 DEF AnswerMissed
        <3> QED BY <2>2, <3>5 DEF AnswerComesHome
    <2> QED BY <2>1, <2>2
<1>6. CASE Call \/ Seed \/ ReadRegistry \/ OfferedTokens \/ BuildTransfer \/ Refused \/ Hand
           \/ MoveScope \/ UNCHANGED vars
    <2>1. UNCHANGED <<registered, known, lost, answer>>
        BY <1>6 DEF Call, Seed, ReadRegistry, OfferedTokens, BuildTransfer, Asks, Refused, Hand,
                    MoveScope, vars
    <2> QED BY <1>1, <2>1
<1>7. CASE \E r \in Requests : Polling(r) \/ Sender(r)
    <2>1. UNCHANGED <<registered, known, lost, answer>>
        BY <1>7 DEF Polling, Sender, Poll, SenderSays, HearStatus, MissStatus, CancelSend,
                    Broadcasts, Ends, Forgets, Moves
    <2> QED BY <1>1, <2>1
<1> QED BY <1>2, <1>3, <1>4, <1>5, <1>6, <1>7 DEF Next, Form

--------------------------------------------------------------------------------
(* Every reachable state meets the invariant, which is inductive.                   *)
THEOREM SendsSound == Spec => []SendsInv
<1>1. SendsInv /\ [Next]_vars => SendsInv'
    <2> SUFFICES ASSUME SendsInv, [Next]_vars PROVE SendsInv'
        OBVIOUS
    <2>1. TypeOK'
        BY FormTyped, RequestsTyped DEF SendsInv, FormType, RequestsType, TypeOK
    <2>2. Clocks' /\ AnswerComesHome' /\ Polled' /\ StopsAtTheEnd'
        BY ClocksKept, HomeKept, PolledKept, StopsKept DEF SendsInv
    <2> QED BY <2>1, <2>2 DEF SendsInv
<1> QED BY InitInv, <1>1, PTL DEF Spec

\* prepare_send and send are back within SEND_BUDGET, for every timeout of the chain and
\* whatever the calls they make take.
THEOREM BackInTime == Spec => []InTime
BY SendsSound, ClocksInTime, PTL DEF SendsInv

\* No request is registered behind a caller that gave up: the deadline that send hands to
\* the sender ends a trip before its own does, for every timeout of the chain.
THEOREM NoStrayRequest == Spec => []AnswerComesHome
BY SendsSound, PTL DEF SendsInv

\* A poller of send_status stops only when its send is over, for any number of requests and
\* of calls in flight, and at a sender that knows `final` or does not.
THEOREM StopsOnlyAtTheEnd == Spec => []StopsAtTheEnd
BY SendsSound, PTL DEF SendsInv

(* The types of Sends: no request is out of its place, and no clock below zero.     *)
THEOREM SendsTyped == Spec => []TypeOK
BY SendsSound, PTL DEF SendsInv

--------------------------------------------------------------------------------
(* The scope, and the time that is handed on.                                       *)

\* A call that is past the registry was in scope then, and a chain that is in scope now is
\* in scope during the call.
ScopeNoted ==
    /\ step # "idle" /\ inScope => scoped
    /\ step \in {"offered", "build", "hand", "sent"} => scoped

LEMMA ScopeNotedKept == TypeOK /\ ScopeNoted /\ [Next]_vars => ScopeNoted'
<1> SUFFICES ASSUME TypeOK, ScopeNoted, [Next]_vars PROVE ScopeNoted'
    OBVIOUS
<1>0. inScope \in BOOLEAN /\ scoped \in BOOLEAN
    BY DEF TypeOK
<1>1. CASE Call
    BY <1>1 DEF Call, ScopeNoted
<1>2. CASE Seed
    BY <1>2 DEF Seed, ScopeNoted
<1>3. CASE ReadRegistry
    BY <1>3 DEF ReadRegistry, Asks, InScopeChain, ScopeNoted
<1>4. CASE OfferedTokens \/ BuildTransfer
    BY <1>4 DEF OfferedTokens, BuildTransfer, Asks, ScopeNoted
<1>5. CASE Refused \/ AnswerHeard \/ AnswerMissed
    BY <1>5 DEF Refused, AnswerHeard, AnswerMissed, Returns, ScopeNoted
<1>6. CASE Hand
    BY <1>6 DEF Hand, ScopeNoted
<1>7. CASE SenderRegisters \/ SenderAnswers
    BY <1>7 DEF SenderRegisters, SenderAnswers, form, ScopeNoted
<1>8. CASE MoveScope
    <2>1. /\ inScope' = ~inScope /\ step' = step
          /\ scoped' = (scoped \/ (step # "idle" /\ ~inScope))
        BY <1>8 DEF MoveScope
    <2> QED BY <1>0, <2>1 DEF ScopeNoted
<1>9. CASE \E r \in Requests : Polling(r) \/ Sender(r)
    <2>1. inScope' = inScope /\ UNCHANGED form
        BY <1>9 DEF Polling, Sender, Poll, SenderSays, HearStatus, MissStatus, CancelSend,
                    Broadcasts, Ends, Forgets, Moves
    <2> QED BY <2>1 DEF form, ScopeNoted
<1>10. CASE UNCHANGED vars
    BY <1>10 DEF vars, form, ScopeNoted
<1> QED BY <1>1, <1>2, <1>3, <1>4, <1>5, <1>6, <1>7, <1>8, <1>9, <1>10 DEF Next, Form

\* Nothing is handed to the sender for a chain that was out of scope throughout, however
\* often the scope moves during the call.
THEOREM ScopeSeen == Spec => []ScopeWasSeen
<1>1. Init => ScopeNoted
    BY DEF Init, ScopeNoted
<1>2. SendsInv => TypeOK
    BY DEF SendsInv
<1>3. ScopeNoted => ScopeWasSeen
    BY DEF ScopeNoted, ScopeWasSeen
<1> QED BY <1>1, <1>2, <1>3, SendsSound, ScopeNotedKept, PTL DEF Spec

\* What the sender is handed is what its work was reckoned at, as far as the budget goes.
Handed == step = "sent" => allowance = Granted(SenderBudget(rt, sending))

LEMMA HandedKept == Handed /\ [Next]_vars => Handed'
<1> SUFFICES ASSUME Handed, [Next]_vars PROVE Handed'
    OBVIOUS
<1>1. CASE Call \/ Seed \/ ReadRegistry \/ OfferedTokens \/ BuildTransfer
    BY <1>1 DEF Call, Seed, ReadRegistry, OfferedTokens, BuildTransfer, Asks, Handed
<1>2. CASE Refused \/ AnswerHeard \/ AnswerMissed
    BY <1>2 DEF Refused, AnswerHeard, AnswerMissed, Returns, Handed
<1>3. CASE Hand
    BY <1>3 DEF Hand, Handed, Granted
<1>4. CASE UNCHANGED form
    BY <1>4 DEF form, Handed, Granted
<1>5. (SenderRegisters \/ SenderAnswers \/ UNCHANGED vars) => UNCHANGED form
    BY DEF SenderRegisters, SenderAnswers, vars
<1>6. MoveScope => UNCHANGED <<step, sending, elapsed, rt, allowance>>
    BY DEF MoveScope
<1>7. CASE MoveScope
    BY <1>6, <1>7 DEF Handed, Granted
<1>8. (\E r \in Requests : Polling(r) \/ Sender(r)) => UNCHANGED form
    BY DEF Polling, Sender, Poll, SenderSays, HearStatus, MissStatus, CancelSend, Broadcasts,
           Ends, Forgets, Moves
<1> QED BY <1>1, <1>2, <1>3, <1>4, <1>5, <1>7, <1>8 DEF Next, Form

LEMMA WorkFits ==
    ASSUME NEW t \in Nat, t <= 15000, NEW b \in BOOLEAN, NEW e \in Nat, e <= 12000
    PROVE  LET granted == Slice(SendBudget, e, SenderBudget(t, b))
           IN  /\ granted - CalleeMargin >= MinSlice
               /\ granted - CalleeMargin
                      >= 2 * ProbeBudget + 5 * (t + CalleeMargin) + (IF b THEN InitBudget ELSE 0)
<1>1. CASE b
    BY <1>1, SMT DEF SenderBudget, Greater, Lesser, Slice, SendBudget, SenderFloor, ProbeBudget,
                     CalleeMargin, InitBudget, MinSlice, None
<1>2. CASE ~b
    BY <1>2, SMT DEF SenderBudget, Greater, Lesser, Slice, SendBudget, SenderFloor, ProbeBudget,
                     CalleeMargin, InitBudget, MinSlice, None
<1> QED BY <1>1, <1>2

\* On the default timeouts, and on all of fifteen seconds or less, the sender is handed
\* time for its five round trips and the approval, whatever was used in front of it.
THEOREM SenderIsGivenTime == Spec => []SenderHasItsTime
<1>1. Init => Handed
    BY DEF Init, Handed
<1>2. ASSUME SendsInv, Handed PROVE SenderHasItsTime
    <2> SUFFICES ASSUME step = "sent", rt <= 15000 PROVE SenderTime >= SenderWork
        BY DEF SenderHasItsTime
    <2>1. rt \in Nat /\ sending \in BOOLEAN /\ elapsed \in Nat
        BY <1>2 DEF SendsInv, TypeOK, MaxRoundTrip
    <2>2. elapsed <= 12000
        BY <1>2, SMT DEF SendsInv, Clocks, UsedAtMost, InitBudget, ProbeBudget, OfferedBudget,
                         AssetsBudget
    <2>3. allowance = Slice(SendBudget, elapsed, SenderBudget(rt, sending))
        BY <1>2 DEF Handed, Granted
    <2>4. /\ allowance - CalleeMargin >= MinSlice
          /\ allowance - CalleeMargin
                 >= 2 * ProbeBudget + 5 * (rt + CalleeMargin)
                        + (IF sending THEN InitBudget ELSE 0)
        BY <2>1, <2>2, <2>3, WorkFits
    <2>5. SenderTime = allowance - CalleeMargin
        BY <1>2, DeadlineBeforeCaller DEF SendsInv
    <2> QED BY <2>4, <2>5 DEF SenderWork
<1> QED BY <1>1, <1>2, SendsSound, HandedKept, PTL DEF Spec

================================================================================
