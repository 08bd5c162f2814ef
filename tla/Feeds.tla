--------------------------------- MODULE Feeds ---------------------------------
(* The relays: what each dependency announces reaches the views of this module  *)
(* as an event of its own, on which a view reads again. Each feed is armed at    *)
(* most once at a time, by on_context_ready and by the methods that retry it.    *)
(*                                                                              *)
(* The three subscriptions of watch_sender are one feed here, "sender": they    *)
(* are armed together or not at all. What a feed announces is one number, its   *)
(* version; reading its owner is learning that number.                           *)
EXTENDS Integers, Sequences, SequencesExt

CONSTANTS
    Host,           \* the thread that runs on_context_ready
    Views,          \* the views, each on a dispatch thread of its own
    Shows,          \* the method whose reply each view shows
    Feeds,          \* the feeds a run keeps, of FeedNames
    Faults,         \* bound: of {"feedEnds", "subscribeFails", "callFails"}
    MaxMoves,       \* bound: what each feed announces
    MaxPending,     \* bound: events of one feed told apart while they wait
    MaxContexts     \* bound: calls of on_context_ready

FeedNames == {"keystore", "signers", "sender", "chains", "enabled", "scope", "tokens"}
Methods == {"list_accounts", "get_account_labels", "account_roster",
            "list_networks", "list_tokens", "set_token_enabled", "get_history"}
Threads == Views \cup {Host}
Never == -1

ASSUME FeedsAreNamed == Feeds \subseteq FeedNames
ASSUME ViewsShowMethods == Shows \in [Views -> Methods]
ASSUME HostIsNoView == Host \notin Views
ASSUME BoundsAreNat ==
    MaxMoves \in Nat /\ MaxPending \in Nat \ {0} /\ MaxContexts \in Nat

VARIABLES
    version,        \* what each feed's owner would answer
    flag,           \* watching_keystore, watching_sender and the flags of Feeds
    phase,          \* a feed's listener: "none", "starting", "on" or "ended"
    listeners,      \* how many threads drain the feed
    pending,        \* events its listener has not taken yet
    at,             \* where a thread is: "idle", "in" or "subscribe"
    toArm,          \* the feeds its method has still to arm
    toRead,         \* the owners its method has still to ask
    seen,           \* what the view read last of each feed's owner
    failed,         \* the view's last call was refused, and it knows
    due,            \* views told to read again
    unarmed,        \* history: flags clear when the method began and since
    contexts

upstream == <<version, pending>>
relays == <<flag, phase, listeners>>
calls == <<at, toArm, toRead, unarmed>>
shown == <<seen, failed, due>>
vars == <<upstream, relays, calls, shown, contexts>>

--------------------------------------------------------------------------------
(* What the code wires up.                                                       *)

Watch(f) == IF f \in Feeds THEN <<f>> ELSE <<>>

\* on_context_ready arms every feed, in this order.
StartupOrder ==
    Watch("keystore") \o Watch("signers") \o Watch("sender") \o Watch("chains")
        \o Watch("enabled") \o Watch("scope") \o Watch("tokens")

\* Mutant: the labels leave the manager's feed to the startup.
ArmsWithoutSigners(m) ==
    CASE m \in {"list_accounts", "get_account_labels"} -> Watch("keystore")
      [] m = "account_roster" -> Watch("signers")
      [] m = "list_networks" -> Watch("chains") \o Watch("enabled") \o Watch("scope")
      [] m = "set_token_enabled" -> Watch("tokens")
      [] m \in {"list_tokens", "get_history"} -> <<>>

\* The watch_* calls a method opens with.
Arms(m) ==
    CASE m \in {"list_accounts", "get_account_labels"} ->
                Watch("keystore") \o Watch("signers")
      [] m = "account_roster" -> Watch("signers")
      [] m = "list_networks" -> Watch("chains") \o Watch("enabled") \o Watch("scope")
      [] m = "set_token_enabled" -> Watch("tokens")
      [] m \in {"list_tokens", "get_history"} -> <<>>

\* The owners a method asks for what it shows, one call after another. One call
\* to the chain registry answers for all three of its feeds. A method about chains in
\* scope asks the registry first, of which it shows nothing.
Asks(m) ==
    CASE m \in {"list_accounts", "account_roster"} -> <<{"signers"}>>
      [] m = "get_account_labels" -> <<{"keystore"}, {"signers"}>>
      [] m = "list_networks" -> <<{"chains", "enabled", "scope"}>>
      [] m = "list_tokens" -> <<{}, {"tokens"}, {"chains"}>>
      [] m = "get_history" -> <<{}, {"sender"}>>
      [] m = "set_token_enabled" -> <<>>

\* Methods that read the settings, and are refused while there is no State.
NeedsContext == {"list_tokens"}

\* The feeds whose owners a view's reply comes from.
Asked(t) == Feeds \cap (UNION ToSet(Asks(Shows[t])))

\* Mutant: the native row's record moves and no token list hears of it.
AnnouncesOwnOnly(f) ==
    CASE f \in {"keystore", "signers"} -> {"accounts_changed"}
      [] f = "sender" -> {"history_changed"}
      [] f \in {"chains", "enabled", "scope"} -> {"networks_changed"}
      [] f = "tokens" -> {"tokens_changed"}

\* The events a feed's listener emits.
Announces(f) ==
    CASE f \in {"keystore", "signers"} -> {"accounts_changed"}
      [] f = "sender" -> {"send_status_changed", "tx_status_changed",
                          "balances_updated", "history_changed"}
      [] f = "chains" -> {"networks_changed", "tokens_changed"}
      [] f \in {"enabled", "scope"} -> {"networks_changed"}
      [] f = "tokens" -> {"tokens_changed"}

\* The event a view of this method reads again on.
Hears(m) ==
    CASE m \in {"list_accounts", "get_account_labels", "account_roster"} -> "accounts_changed"
      [] m = "list_networks" -> "networks_changed"
      [] m \in {"list_tokens", "set_token_enabled"} -> "tokens_changed"
      [] m = "get_history" -> "history_changed"

\* The views that read again on it.
Told(f) == due \cup {t \in Views : Hears(Shows[t]) \in Announces(f)}

\* Mutant: only the keystore's listener announces what it may have missed.
KeystoreSpeaksFirst == {"keystore"}

\* Their listeners announce once before they listen: arming is not retroactive.
SpeakFirst == {"keystore", "signers"}

\* Armed once: nothing releases their flags when the feed ends.
ArmedOnce == {"keystore", "sender"}

--------------------------------------------------------------------------------
Init ==
    /\ version = [f \in Feeds |-> 0]
    /\ flag = [f \in Feeds |-> FALSE]
    /\ phase = [f \in Feeds |-> "none"]
    /\ listeners = [f \in Feeds |-> 0]
    /\ pending = [f \in Feeds |-> 0]
    /\ at = [t \in Threads |-> "idle"]
    /\ toArm = [t \in Threads |-> <<>>]
    /\ toRead = [t \in Threads |-> <<>>]
    /\ seen = [t \in Views |-> [f \in Feeds |-> Never]]
    /\ failed = [t \in Views |-> FALSE]
    /\ due = {}
    /\ unarmed = [t \in Threads |-> {}]
    /\ contexts = 0

--------------------------------------------------------------------------------
(* The owners (external) move and announce it; nothing buffers what they         *)
(* announce before a subscription stands.                                        *)

Moves(f) ==
    /\ version[f] < MaxMoves
    /\ version' = [version EXCEPT ![f] = @ + 1]
    /\ pending' = IF phase[f] \in {"starting", "on"} /\ pending[f] < MaxPending
                  THEN [pending EXCEPT ![f] = @ + 1] ELSE pending

Move(f) ==
    /\ Moves(f)
    /\ UNCHANGED <<relays, calls, shown, contexts>>

--------------------------------------------------------------------------------
(* The listener threads.                                                         *)

SpeakUp(f) ==
    /\ phase[f] = "starting"
    /\ phase' = [phase EXCEPT ![f] = "on"]
    /\ due' = Told(f)
    /\ UNCHANGED <<upstream, flag, listeners, calls, seen, failed, contexts>>

\* Mutant: a view that is reading is not told.
RelayToIdle(f) ==
    /\ phase[f] = "on"
    /\ pending[f] > 0
    /\ pending' = [pending EXCEPT ![f] = @ - 1]
    /\ due' = IF \E t \in Views : at[t] = "in" THEN due ELSE Told(f)
    /\ UNCHANGED <<version, relays, calls, seen, failed, contexts>>

\* An event that is of its feed's kind; one that cannot be decoded is passed over.
Relay(f) ==
    /\ phase[f] = "on"
    /\ pending[f] > 0
    /\ pending' = [pending EXCEPT ![f] = @ - 1]
    /\ due' = Told(f)
    /\ UNCHANGED <<version, relays, calls, seen, failed, contexts>>

\* The owner went away, with what its listener had yet to take.
FeedEnds(f) ==
    /\ "feedEnds" \in Faults
    /\ phase[f] = "on"
    /\ phase' = [phase EXCEPT ![f] = "ended"]
    /\ listeners' = [listeners EXCEPT ![f] = @ - 1]
    /\ pending' = [pending EXCEPT ![f] = 0]
    /\ UNCHANGED <<version, flag, calls, shown, contexts>>

ReleaseFlag(f) ==
    /\ phase[f] = "ended"
    /\ f \notin ArmedOnce
    /\ phase' = [phase EXCEPT ![f] = "none"]
    /\ flag' = [flag EXCEPT ![f] = FALSE]
    /\ UNCHANGED <<upstream, listeners, calls, shown, contexts>>

--------------------------------------------------------------------------------
(* The threads inside on_context_ready or a method.                              *)

Enter(t, feeds, owners) ==
    /\ at' = [at EXCEPT ![t] = "in"]
    /\ toArm' = [toArm EXCEPT ![t] = feeds]
    /\ toRead' = [toRead EXCEPT ![t] = owners]
    /\ unarmed' = [unarmed EXCEPT ![t] = {f \in Feeds : ~ flag[f]}]

\* Mutant: a new context clears the flags, as it does those of its own State.
ContextAnew ==
    /\ at[Host] = "idle"
    /\ contexts < MaxContexts
    /\ contexts' = contexts + 1
    /\ Enter(Host, StartupOrder, <<>>)
    /\ flag' = [f \in Feeds |-> FALSE]
    /\ UNCHANGED <<upstream, phase, listeners, shown>>

\* on_context_ready can run again.
ContextReady ==
    /\ at[Host] = "idle"
    /\ contexts < MaxContexts
    /\ contexts' = contexts + 1
    /\ Enter(Host, StartupOrder, <<>>)
    /\ UNCHANGED <<upstream, relays, shown>>

\* A view calls its method, told to or not. A call that is refused for want of a State asks
\* nobody, and is no action.
Begin(t) ==
    /\ at[t] = "idle"
    /\ Shows[t] \in NeedsContext => contexts > 0
    /\ Enter(t, Arms(Shows[t]), Asks(Shows[t]))
    /\ due' = due \ {t}
    /\ failed' = [failed EXCEPT ![t] = FALSE]
    /\ UNCHANGED <<upstream, relays, seen, contexts>>

ArmsNext(t) == toArm' = [toArm EXCEPT ![t] = Tail(@)]

\* Mutant: the feed is ticked off before the subscription is tried.
SwapTakesFeed(t) ==
    /\ at[t] = "in"
    /\ toArm[t] # <<>>
    /\ flag' = [flag EXCEPT ![Head(toArm[t])] = TRUE]
    /\ unarmed' = [u \in Threads |-> unarmed[u] \ {Head(toArm[t])}]
    /\ at' = [at EXCEPT ![t] = IF flag[Head(toArm[t])] THEN @ ELSE "subscribe"]
    /\ ArmsNext(t)
    /\ UNCHANGED <<upstream, phase, listeners, toRead, shown, contexts>>

\* `swap(true)`: only the thread that finds the flag clear subscribes.
Swap(t) ==
    /\ at[t] = "in"
    /\ toArm[t] # <<>>
    /\ flag' = [flag EXCEPT ![Head(toArm[t])] = TRUE]
    /\ unarmed' = [u \in Threads |-> unarmed[u] \ {Head(toArm[t])}]
    /\ IF flag[Head(toArm[t])]
       THEN ArmsNext(t) /\ UNCHANGED at
       ELSE at' = [at EXCEPT ![t] = "subscribe"] /\ UNCHANGED toArm
    /\ UNCHANGED <<upstream, phase, listeners, toRead, shown, contexts>>

Subscribe(t) ==
    /\ at[t] = "subscribe"
    /\ LET f == Head(toArm[t]) IN
         /\ phase' = [phase EXCEPT ![f] = IF f \in SpeakFirst THEN "starting" ELSE "on"]
         /\ listeners' = [listeners EXCEPT ![f] = @ + 1]
    /\ at' = [at EXCEPT ![t] = "in"]
    /\ ArmsNext(t)
    /\ UNCHANGED <<upstream, flag, toRead, unarmed, shown, contexts>>

SubscribeFails(t) ==
    /\ "subscribeFails" \in Faults
    /\ at[t] = "subscribe"
    /\ flag' = [flag EXCEPT ![Head(toArm[t])] = FALSE]
    /\ at' = [at EXCEPT ![t] = "in"]
    /\ ArmsNext(t)
    /\ UNCHANGED <<upstream, phase, listeners, toRead, unarmed, shown, contexts>>

\* One call to an owner.
Read(t) ==
    /\ at[t] = "in"
    /\ toArm[t] = <<>>
    /\ toRead[t] # <<>>
    /\ seen' = [seen EXCEPT ![t] =
          [f \in Feeds |-> IF f \in Head(toRead[t]) THEN version[f] ELSE @[f]]]
    /\ toRead' = [toRead EXCEPT ![t] = Tail(@)]
    /\ UNCHANGED <<upstream, relays, at, toArm, unarmed, failed, due, contexts>>

\* A call is refused or not answered, and its error is the method's reply.
ReadFails(t) ==
    /\ "callFails" \in Faults
    /\ at[t] = "in"
    /\ toArm[t] = <<>>
    /\ toRead[t] # <<>>
    /\ failed' = [failed EXCEPT ![t] = TRUE]
    /\ toRead' = [toRead EXCEPT ![t] = <<>>]
    /\ UNCHANGED <<upstream, relays, at, toArm, unarmed, seen, due, contexts>>

\* set_token_enabled ends in a write to the token list, which may refuse it. One
\* refused before it arms its feed has no effect at all.
Return(t) ==
    /\ at[t] = "in"
    /\ toArm[t] = <<>>
    /\ toRead[t] = <<>>
    /\ at' = [at EXCEPT ![t] = "idle"]
    /\ unarmed' = [unarmed EXCEPT ![t] = {}]
    /\ \/ UNCHANGED upstream
       \/ /\ t \in Views
          /\ Shows[t] = "set_token_enabled"
          /\ "tokens" \in Feeds
          /\ Moves("tokens")
    /\ UNCHANGED <<relays, toArm, toRead, shown, contexts>>

--------------------------------------------------------------------------------
Listener(f) == SpeakUp(f) \/ Relay(f) \/ ReleaseFlag(f)

Goes(t) == Swap(t) \/ Subscribe(t) \/ SubscribeFails(t) \/ Return(t)

Reading(t) == Read(t) \/ ReadFails(t)

Next ==
    \/ \E f \in Feeds : Move(f) \/ Listener(f) \/ FeedEnds(f)
    \/ ContextReady
    \/ \E t \in Views : Begin(t) \/ Reading(t)
    \/ \E t \in Threads : Goes(t)

Spec == Init /\ [][Next]_vars

(* The listener threads run; a thread inside a method goes on and each of its   *)
(* calls is answered or times out; a view that is told to reads again.           *)
Fairness ==
    /\ \A f \in Feeds : WF_vars(Listener(f))
    /\ \A t \in Threads : WF_vars(Goes(t))
    /\ \A t \in Views : WF_vars(Reading(t)) /\ WF_vars(t \in due /\ Begin(t))

FairSpec == Spec /\ Fairness

--------------------------------------------------------------------------------
Subscribing(t, f) == at[t] = "subscribe" /\ Head(toArm[t]) = f

(* Every variable keeps its type.                                                *)
TypeOK ==
    /\ version \in [Feeds -> 0 .. MaxMoves]
    /\ flag \in [Feeds -> BOOLEAN]
    /\ phase \in [Feeds -> {"none", "starting", "on", "ended"}]
    /\ listeners \in [Feeds -> Int]
    /\ pending \in [Feeds -> 0 .. MaxPending]
    /\ at \in [Threads -> {"idle", "in", "subscribe"}]
    /\ toArm \in [Threads -> Seq(Feeds)]
    /\ toRead \in [Threads -> Seq(SUBSET FeedNames)]
    /\ seen \in [Views -> [Feeds -> 0 .. MaxMoves \cup {Never}]]
    /\ failed \in [Views -> BOOLEAN]
    /\ due \subseteq Views
    /\ unarmed \in [Threads -> SUBSET Feeds]
    /\ contexts \in 0 .. MaxContexts
    /\ \A t \in Threads : at[t] = "subscribe" => toArm[t] # <<>>

(* However many threads arm a feed at once, and however often on_context_ready   *)
(* runs, at most one listener drains it, and none that its flag does not hold    *)
(* for: no event is relayed twice and no thread is left on a dead channel.       *)
OneListener ==
    \A f \in Feeds : listeners[f] = 0 \/ (listeners[f] = 1 /\ flag[f])

\* A view shows what its owner would answer now, or has been refused, or is about
\* to ask; else word of the move is on its way, or the feed is not up.
FreshOrTold(t, f) ==
    \/ seen[t][f] \in {Never, version[f]}
    \/ failed[t]
    \/ t \in due
    \/ f \in (UNION ToSet(toRead[t]))
    \/ pending[f] > 0
    \/ phase[f] # "on"

(* Accounts never go silently stale: a change that falls between a read and the  *)
(* subscription that should have announced it is made good by the listener's      *)
(* first announcement, whichever threads arm, fail to arm and read, and also      *)
(* when a labels reply joins two owners that move in between.                     *)
AccountsFresh ==
    \A t \in Views : \A f \in Asked(t) \cap {"keystore", "signers"} : FreshOrTold(t, f)

(* glue.rs:700: this feed is how a view learns that the other app moved an        *)
(* endpoint: networks never go silently stale while the feed is up.                *)
NetworksFresh ==
    \A t \in Views : \A f \in Asked(t) \cap {"chains", "enabled", "scope"} : FreshOrTold(t, f)

(* Every event taken off a feed is heard by each view that shows what the feed's  *)
(* owner answers: a move of the chain record, which names the native asset,      *)
(* reaches the token list as well as the networks.                                *)
HeardByAll ==
    [][\A f \in Feeds :
         (phase[f] = "on" /\ phase'[f] = "on" /\ pending'[f] < pending[f])
             => {t \in Views : f \in Asked(t)} \subseteq due']_vars

(* glue.rs:322: a feed that ends re-arms on the next read. No method asks an      *)
(* owner whose feed's flag was clear when it began without someone having tried   *)
(* to arm it.                                                                     *)
ReadsRearm ==
    \A t \in Views :
        (at[t] = "in" /\ toArm[t] = <<>> /\ toRead[t] # <<>>)
            => Head(toRead[t]) \cap unarmed[t] = {}

(* The same of a feed that was up and has ended: once the startup is through, and *)
(* subscriptions do not fail, no other feed has its flag clear.                    *)
EndedFeedsRearm == contexts > 0 /\ at[Host] = "idle" => ReadsRearm

(* Once the owners move no more, every view comes, from wherever it is, to show   *)
(* what they would answer, unless that call was refused or the feed is down:      *)
(* nothing between the owner's event and the view's reply loses the move.         *)
ViewsCatchUp ==
    <>[][\A f \in Feeds : ~ Moves(f)]_vars =>
        \A t \in Views : \A f \in Asked(t) :
            []<>(seen[t][f] \in {Never, version[f]} \/ failed[t] \/ phase[f] # "on")
================================================================================
