--------------------------------- MODULE Sends ----------------------------------
(* Sends: a view that asks for prepare_send and send, one call at a time, and     *)
(* polls send_status and may cancel what it was told of. The request itself       *)
(* lives in tx_sender_module (external), whose answers may be late or lost.       *)
(*                                                                               *)
(* Time is that of the call in flight: `elapsed` is what its Budget has used, and *)
(* the delegated call has a clock of its own, started when it is made. A call     *)
(* takes one of Durations or all it was granted.                                  *)
EXTENDS Budget

CONSTANTS
    Records,        \* the chain's records in eth_rpc, of ChainRecords
    Durations,      \* bound: how long a call takes, when it does not take all it may
    Trips,          \* bound: how long an answer is on its way home
    Senders,        \* the senders of a run, of {"modern", "legacy"}
    Outcomes,       \* bound: how sends end that are not cancelled
    Pollers,        \* calls of send_status a view has in flight for one request
    MaxRequests     \* bound: requests the sender ever registers

ASSUME RecordsAreRecords == Records \subseteq ChainRecords
ASSUME TimesAreNat == Durations \subseteq Nat /\ Trips \subseteq 0 .. CalleeMargin
ASSUME SendersAreKinds == Senders \subseteq {"modern", "legacy"}
ASSUME OutcomesAreEnds == Outcomes \subseteq {"broadcast", "rejected", "failed", "stuck"}
ASSUME MaxRequestsIsNat == MaxRequests \in Nat

VARIABLES
    inScope,        \* eth_rpc: the chain is in the network scope
    seeded,         \* deps.eth_rpc: init_defaults was applied
    step,           \* where the call of prepare_send or send is
    sending,        \* it is a send
    elapsed,        \* of SendBudget
    rt,             \* the chain's round trip
    allowance,      \* granted to the delegated call
    answer,         \* of the sender to it: "none", "other" or "pending"
    answeredAt,     \* on the clock of the delegated call
    scoped,         \* history: the chain was in scope at some time of the call
    sender,         \* its kind: "modern" senders say whether a reply is final
    registered,     \* how many requests the sender has registered
    status,         \* of each request, at the sender
    known,          \* requests whose id the view was told
    lost,           \* history: requests whose reply the link dropped
    poll, reply,    \* of each request, each poller
    stopped         \* requests the view polls no more

form == <<step, sending, elapsed, rt, allowance, scoped>>
delegated == <<answer, answeredAt>>
requests == <<sender, registered, status>>
view == <<known, lost, stopped>>
polls == <<poll, reply>>
vars == <<inScope, seeded, form, delegated, requests, view, polls>>

Requests == 1 .. MaxRequests
Steps == {"idle", "seed", "registry", "offered", "build", "hand", "sent"}
Moving == {"awaitingApproval", "broadcasting"}
Ended == {"broadcast", "rejected", "cancelled", "failed", "stuck"}
Statuses == {"none", "forgotten"} \cup Moving \cup Ended
Replies == [ok : BOOLEAN, status : Statuses, final : {"true", "false", "absent"}]

\* Whether a send can still move. The sender forgets only what has ended.
IsOver(r) == status[r] \in Ended \cup {"forgotten"}

--------------------------------------------------------------------------------
(* What a reply of send_status says.                                             *)

Word(b) ==
    IF sender = "legacy" THEN "absent" ELSE IF b THEN "true" ELSE "false"

Refusal(gone) == [ok |-> FALSE, status |-> "none", final |-> Word(gone)]

\* The sender's reply now: the status of what it holds, or that it holds it no more.
StatusReply(r) ==
    IF status[r] = "forgotten"
    THEN Refusal(TRUE)
    ELSE [ok |-> TRUE, status |-> status[r], final |-> Word(status[r] \in Ended)]

NotNow == Refusal(FALSE)

\* Mutant: whatever a sender that predates `final` refuses is final.
IsFinalWhenRefused(answered) ==
    \/ answered.final = "true"
    \/ answered.final = "absent" /\ answered.status \notin Moving

\* Mutant: the status is read, the sender's own word is not.
IsFinalByStatus(answered) == answered.ok /\ answered.status \notin Moving

IsFinal(answered) ==
    \/ answered.final = "true"
    \/ answered.final = "absent" /\ answered.ok /\ answered.status \notin Moving

\* `final` of the relayed reply, where raw has the sender's answer, or nothing when none
\* came or it could not be read.
RelayedFinal(raw) == \E answered \in raw : IsFinal(answered)

--------------------------------------------------------------------------------
(* prepare_send and send.                                                        *)

\* What a call that may take `grant` takes.
Spends(grant) == {d \in Durations : d <= grant} \cup {grant}

Granted(perCall) == Slice(SendBudget, elapsed, perCall)

Init ==
    /\ inScope \in BOOLEAN /\ seeded = FALSE
    /\ step = "idle" /\ sending = FALSE /\ elapsed = 0 /\ rt = 0 /\ allowance = None
    /\ answer = "none" /\ answeredAt = 0 /\ scoped = FALSE
    /\ sender \in Senders /\ registered = 0 /\ status = [r \in Requests |-> "none"]
    /\ known = {} /\ lost = {} /\ stopped = {}
    /\ poll = [r \in Requests |-> [p \in Pollers |-> "idle"]]
    /\ reply = [r \in Requests |-> [p \in Pollers |-> NotNow]]

\* The request parses and names a chain; one that does not is refused and touches nothing.
Call ==
    /\ step = "idle"
    /\ step' = "seed" /\ sending' \in BOOLEAN /\ scoped' = inScope
    /\ UNCHANGED <<inScope, seeded, elapsed, rt, allowance, delegated, requests, view, polls>>

\* ensure_eth_rpc: seeding is tried until it is applied once, and its failure stops nothing.
Seed ==
    /\ step = "seed"
    /\ \/ seeded /\ UNCHANGED <<seeded, elapsed>>
       \/ /\ ~seeded
          /\ \E applied \in BOOLEAN :
                /\ applied => Granted(InitBudget) > None
                /\ seeded' = applied
          /\ \E d \in Spends(Granted(InitBudget)) : elapsed' = elapsed + d
    /\ step' = "registry"
    /\ UNCHANGED <<inScope, sending, rt, allowance, scoped, delegated, requests, view, polls>>

\* A call that is granted time and answered before it runs out.
Asks(from, perCall, to) ==
    /\ step = from /\ Granted(perCall) > None
    /\ \E d \in Spends(Granted(perCall)) : elapsed' = elapsed + d
    /\ step' = to
    /\ UNCHANGED <<inScope, seeded, sending, allowance, scoped,
                   delegated, requests, view, polls>>

\* Mutant: a chain the registry lists will do, enabled or not.
InRegistry == TRUE

InScopeChain == inScope

ReadRegistry ==
    /\ Asks("registry", ProbeBudget, "offered")
    /\ InScopeChain
    /\ \E record \in Records : rt' = RoundTrip(record)

OfferedTokens == Asks("offered", OfferedBudget, "build") /\ UNCHANGED rt

BuildTransfer == Asks("build", AssetsBudget, "hand") /\ UNCHANGED rt

\* The call is over, and its Budget with it.
Returns ==
    /\ step' = "idle" /\ sending' = FALSE /\ elapsed' = 0 /\ rt' = 0 /\ allowance' = None
    /\ scoped' = FALSE

\* What was asked fails or runs out of time, the chain is not in scope, no time is left, or
\* the transfer is not one call: an error, with nothing handed to the sender.
Refused ==
    /\ step \in {"registry", "offered", "build", "hand"}
    /\ Returns
    /\ UNCHANGED <<inScope, seeded, delegated, requests, view, polls>>

Hand ==
    /\ step = "hand" /\ Granted(SenderBudget(rt, sending)) > None
    /\ step' = "sent" /\ allowance' = Granted(SenderBudget(rt, sending))
    /\ UNCHANGED <<inScope, seeded, sending, elapsed, rt, scoped,
                   delegated, requests, view, polls>>

\* The sender keeps the deadline it is handed. One that is handed none keeps a default of
\* its own, which may outlast the caller.
SenderTime ==
    IF CalleeDeadline(allowance) > None
    THEN CalleeDeadline(allowance)
    ELSE allowance + CalleeMargin

\* The sender registers the request, or prices it or refuses it; then it answers.
SenderRegisters ==
    /\ step = "sent" /\ answer = "none" /\ sending /\ registered < MaxRequests
    /\ answeredAt' \in Spends(SenderTime) /\ answer' = "pending"
    /\ registered' = registered + 1
    /\ status' = [status EXCEPT ![registered + 1] = "awaitingApproval"]
    /\ UNCHANGED <<inScope, seeded, form, sender, view, polls>>

SenderAnswers ==
    /\ step = "sent" /\ answer = "none"
    /\ answeredAt' \in Spends(SenderTime) /\ answer' = "other"
    /\ UNCHANGED <<inScope, seeded, form, requests, view, polls>>

\* The answer comes home while the caller still waits, and is relayed whole.
AnswerHeard ==
    /\ step = "sent" /\ answer # "none"
    /\ \E trip \in Trips : answeredAt + trip <= allowance
    /\ known' = IF answer = "pending" THEN known \cup {registered} ELSE known
    /\ answer' = "none" /\ answeredAt' = 0
    /\ Returns
    /\ UNCHANGED <<inScope, seeded, requests, lost, stopped, polls>>

\* Why the caller does not hear: the link loses the request or its answer, or the answer
\* takes longer than the caller waits.
Misses ==
    {"lost"} \cup {"late" : trip \in {t \in Trips : answeredAt + t > allowance}}

AnswerMissed ==
    /\ step = "sent"
    /\ \E why \in Misses :
           lost' = IF why = "lost" /\ answer = "pending" THEN lost \cup {registered} ELSE lost
    /\ answer' = "none" /\ answeredAt' = 0
    /\ Returns
    /\ UNCHANGED <<inScope, seeded, requests, known, stopped, polls>>

\* External: the scope moves, in this app or another.
MoveScope ==
    /\ inScope' = ~inScope
    /\ scoped' = (scoped \/ (step # "idle" /\ ~inScope))
    /\ UNCHANGED <<seeded, step, sending, elapsed, rt, allowance,
                   delegated, requests, view, polls>>

Form ==
    \/ Call \/ Seed \/ ReadRegistry \/ OfferedTokens \/ BuildTransfer \/ Refused
    \/ Hand \/ AnswerHeard \/ AnswerMissed

--------------------------------------------------------------------------------
(* send_status and cancel_send.                                                  *)

Idle(r, p) ==
    /\ poll' = [poll EXCEPT ![r][p] = "idle"]
    /\ reply' = [reply EXCEPT ![r][p] = NotNow]

\* The view polls what it was told of until it is told that this is over. Nothing is kept
\* here between two polls.
Poll(r, p) ==
    /\ r \in known \ stopped /\ poll[r][p] = "idle"
    /\ poll' = [poll EXCEPT ![r][p] = "asked"]
    /\ UNCHANGED <<inScope, seeded, form, delegated, requests, view, reply>>

\* The sender says how the send stands, or that it has no time to tell.
SenderSays(r, p) ==
    /\ poll[r][p] = "asked"
    /\ \E said \in {StatusReply(r), NotNow} : reply' = [reply EXCEPT ![r][p] = said]
    /\ poll' = [poll EXCEPT ![r][p] = "answered"]
    /\ UNCHANGED <<inScope, seeded, form, delegated, requests, view>>

StopsIfFinal(r, raw) ==
    stopped' = IF RelayedFinal(raw) THEN stopped \cup {r} ELSE stopped

HearStatus(r, p) ==
    /\ poll[r][p] = "answered"
    /\ StopsIfFinal(r, {reply[r][p]})
    /\ Idle(r, p)
    /\ UNCHANGED <<inScope, seeded, form, delegated, requests, known, lost>>

\* No answer in time, no readable one, or no time left to ask: a refusal of this module's.
MissStatus(r, p) ==
    /\ poll[r][p] \in {"asked", "answered"}
    /\ StopsIfFinal(r, {})
    /\ Idle(r, p)
    /\ UNCHANGED <<inScope, seeded, form, delegated, requests, known, lost>>

Moves(r, from, to) ==
    /\ status[r] \in from
    /\ status' = [status EXCEPT ![r] = to]
    /\ UNCHANGED <<inScope, seeded, form, delegated, sender, registered, view, polls>>

\* The sender withdraws what has not been approved; its reply is relayed and read by nobody.
CancelSend(r) == r \in known /\ Moves(r, {"awaitingApproval"}, "cancelled")

\* External: an approved send goes out on a poll; a send ends, by a human's answer or for
\* want of one, on chain or stuck; what has ended is forgotten after a while.
Broadcasts(r) ==
    /\ \E p \in Pollers : poll[r][p] = "asked"
    /\ Moves(r, {"awaitingApproval"}, "broadcasting")

EndsFrom(outcome) ==
    CASE outcome = "rejected" -> {"awaitingApproval"}
      [] outcome = "failed" -> Moving
      [] outcome \in {"broadcast", "stuck"} -> {"broadcasting"}

Ends(r) == \E outcome \in Outcomes : Moves(r, EndsFrom(outcome), outcome)

Forgets(r) == Moves(r, Ended, "forgotten")

Polling(r) ==
    \/ \E p \in Pollers : Poll(r, p) \/ SenderSays(r, p) \/ HearStatus(r, p) \/ MissStatus(r, p)
    \/ CancelSend(r)

Sender(r) == Broadcasts(r) \/ Ends(r) \/ Forgets(r)

Next ==
    \/ Form \/ SenderRegisters \/ SenderAnswers \/ MoveScope
    \/ \E r \in Requests : Polling(r) \/ Sender(r)

Spec == Init /\ [][Next]_vars

\* A view polls again as long as it was not told to stop, a call ends, and a sender that is
\* asked again and again says at some time how the send stands, and is heard.
PollFairness ==
    /\ \A r \in Requests, p \in Pollers :
           /\ WF_vars(Poll(r, p))
           /\ WF_vars(MissStatus(r, p))
    /\ \A r \in Requests :
           /\ SF_vars(\E p \in Pollers : SenderSays(r, p) /\ reply'[r][p] = StatusReply(r))
           /\ SF_vars(\E p \in Pollers : HearStatus(r, p) /\ reply[r][p] # NotNow)

FairSpec == Spec /\ PollFairness

--------------------------------------------------------------------------------
(* Properties.                                                                   *)

\* Every variable has a value of its kind.
TypeOK ==
    /\ inScope \in BOOLEAN /\ seeded \in BOOLEAN
    /\ step \in Steps /\ sending \in BOOLEAN /\ scoped \in BOOLEAN
    /\ elapsed \in Nat /\ rt \in 0 .. MaxRoundTrip /\ allowance \in Nat
    /\ answer \in {"none", "other", "pending"} /\ answeredAt \in Nat
    /\ sender \in Senders /\ registered \in 0 .. MaxRequests
    /\ status \in [Requests -> Statuses]
    /\ known \subseteq Requests /\ lost \subseteq Requests /\ stopped \subseteq known
    /\ poll \in [Requests -> [Pollers -> {"idle", "asked", "answered"}]]
    /\ reply \in [Requests -> [Pollers -> Replies]]

\* Whatever its calls take and however often they fail, a method is back within
\* SEND_BUDGET: what it has used and what it still waits for fit (budget.rs, SEND_BUDGET).
InTime == elapsed + allowance <= SendBudget

\* What a send amounts to at the sender: its config and its gate, five round trips, and the
\* approval.
SenderWork ==
    2 * ProbeBudget + 5 * (rt + CalleeMargin) + (IF sending THEN InitBudget ELSE 0)

\* On the default timeouts the sender is always handed time for all its round trips and for
\* the approval, whatever the calls before it took (budget.rs, sender_budget and the test
\* of a send's bound). SEND_BUDGET cuts longer ones short.
SenderHasItsTime ==
    (step = "sent" /\ rt <= 15000) => SenderTime >= SenderWork

\* A request the sender registered is one the view can poll and cancel: unless the link
\* loses the reply, the caller is still there when it comes (budget.rs, callee_deadline).
\* So a view that was refused and sends again does not leave a first request behind.
AnswerComesHome ==
    \A r \in 1 .. registered :
        r \in known \cup lost \/ (r = registered /\ answer = "pending")

\* Nothing is handed to the sender for a chain that was out of scope throughout the call
\* (glue.rs, in_scope_chain).
ScopeWasSeen == step = "sent" => scoped

\* A view stops polling a send only when the sender can move it no more, whatever answers
\* were refused, lost, late or read in another order than they were given, and whichever
\* sender gave them (send_status.rs, is_final and relay).
StopsAtTheEnd == \A r \in stopped : IsOver(r)

\* A view that polls does come to stop once the send is over, also when the sender has
\* forgotten it in the meantime (glue.rs, send_status: poll until `final` is true). A
\* sender that predates `final` has to be heard before it forgets.
PollingEnds ==
    \A r \in Requests :
        (r \in known /\ IsOver(r))
            ~> (r \in stopped \/ (sender = "legacy" /\ status[r] = "forgotten"))

================================================================================
