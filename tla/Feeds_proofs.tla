------------------------------ MODULE Feeds_proofs ------------------------------
(* Feeds' type invariant, its one listener per feed, the accounts that never go  *)
(* silently stale, the one moment in which another page does, and the feeds that *)
(* a read arms again, for any feeds, views and bounds.                           *)
EXTENDS Feeds, SequenceTheorems, TLAPS

(* A feed's flag, its listener and the thread that arms it. The flag is held     *)
(* from the swap until the listener is gone, so whoever subscribes does it alone *)
(* and finds nobody listening.                                                   *)
Held ==
    /\ \A f \in Feeds :
         /\ listeners[f] = IF phase[f] \in {"starting", "on"} THEN 1 ELSE 0
         /\ phase[f] # "none" => flag[f]
    /\ \A t \in Threads : at[t] = "subscribe" =>
         /\ flag[Head(toArm[t])]
         /\ phase[Head(toArm[t])] = "none"
         /\ \A u \in Threads : Subscribing(u, Head(toArm[t])) => u = t

FeedsInv == TypeOK /\ Held

--------------------------------------------------------------------------------
LEMMA WatchIsSeq == \A f : Watch(f) \in Seq(Feeds)
BY DEF Watch

LEMMA ArmedIsSeq ==
    /\ StartupOrder \in Seq(Feeds)
    /\ \A m \in Methods : Arms(m) \in Seq(Feeds)
<1>1. \A s, u \in Seq(Feeds) : s \o u \in Seq(Feeds)
    BY ConcatProperties
<1>2. StartupOrder \in Seq(Feeds)
    BY <1>1, WatchIsSeq DEF StartupOrder
<1>3. \A m \in Methods : Arms(m) \in Seq(Feeds)
    BY <1>1, WatchIsSeq DEF Arms, Methods
<1> QED BY <1>2, <1>3

LEMMA AsksIsSeq == \A m \in Methods : Asks(m) \in Seq(SUBSET FeedNames)
<1> DEFINE S == SUBSET FeedNames
<1>1. /\ <<>> \in Seq(S)
      /\ \A x, y, z \in S : <<x>> \in Seq(S) /\ <<x, y>> \in Seq(S) /\ <<x, y, z>> \in Seq(S)
    OBVIOUS
<1>2. /\ {} \in S /\ {"signers"} \in S /\ {"keystore"} \in S /\ {"tokens"} \in S
      /\ {"chains"} \in S /\ {"sender"} \in S
      /\ {"chains", "enabled", "scope"} \in S
    BY DEF FeedNames
<1> HIDE DEF S
<1>3. \A m \in Methods : Asks(m) \in Seq(S)
    BY <1>1, <1>2 DEF Asks, Methods
<1> QED BY <1>3 DEF S

LEMMA HeadOfSeq ==
    ASSUME NEW S, NEW s \in Seq(S), s # <<>>
    PROVE  Head(s) \in S /\ Tail(s) \in Seq(S)
BY HeadTailProperties

--------------------------------------------------------------------------------
LEMMA InitType == Init => TypeOK
BY BoundsAreNat DEF Init, TypeOK, Never, Threads

LEMMA MovesType ==
    ASSUME TypeOK, NEW f \in Feeds, Moves(f)
    PROVE  /\ version' \in [Feeds -> 0 .. MaxMoves]
           /\ pending' \in [Feeds -> 0 .. MaxPending]
BY BoundsAreNat DEF TypeOK, Moves

LEMMA StepType == TypeOK /\ [Next]_vars => TypeOK'
<1> SUFFICES ASSUME TypeOK, [Next]_vars PROVE TypeOK'
    OBVIOUS
<1> USE BoundsAreNat
<1>1. ASSUME NEW f \in Feeds, Move(f) PROVE TypeOK'
    BY <1>1, MovesType DEF Move, TypeOK, relays, calls, shown
<1>2. ASSUME NEW f \in Feeds, SpeakUp(f) PROVE TypeOK'
    BY <1>2 DEF SpeakUp, TypeOK, Told, upstream, calls
<1>3. ASSUME NEW f \in Feeds, Relay(f) PROVE TypeOK'
    BY <1>3 DEF Relay, TypeOK, Told, relays, calls
<1>4. ASSUME NEW f \in Feeds, FeedEnds(f) PROVE TypeOK'
    BY <1>4 DEF FeedEnds, TypeOK, calls, shown
<1>5. ASSUME NEW f \in Feeds, ReleaseFlag(f) PROVE TypeOK'
    BY <1>5 DEF ReleaseFlag, TypeOK, upstream, calls, shown
<1>6. ASSUME ContextReady PROVE TypeOK'
    BY <1>6, ArmedIsSeq DEF ContextReady, Enter, TypeOK, upstream, relays, shown, Threads
<1>7. ASSUME NEW t \in Views, Begin(t) PROVE TypeOK'
    <2>1. Shows[t] \in Methods
        BY ViewsShowMethods
    <2>2. Arms(Shows[t]) \in Seq(Feeds) /\ Asks(Shows[t]) \in Seq(SUBSET FeedNames)
        BY <2>1, ArmedIsSeq, AsksIsSeq
    <2> QED BY <1>7, <2>2 DEF Begin, Enter, TypeOK, upstream, relays, Threads
<1>8. ASSUME NEW t \in Views, Read(t) PROVE TypeOK'
    <2>1. Tail(toRead[t]) \in Seq(SUBSET FeedNames)
        BY <1>8, HeadOfSeq DEF Read, TypeOK, Threads
    <2>2. toRead' \in [Threads -> Seq(SUBSET FeedNames)]
        BY <1>8, <2>1 DEF Read, TypeOK
    <2>3. seen' \in [Views -> [Feeds -> 0 .. MaxMoves \cup {Never}]]
        BY <1>8 DEF Read, TypeOK
    <2> QED BY <1>8, <2>2, <2>3 DEF Read, TypeOK, upstream, relays
<1>9. ASSUME NEW t \in Views, ReadFails(t) PROVE TypeOK'
    <2>1. toRead' \in [Threads -> Seq(SUBSET FeedNames)]
        BY <1>9, EmptySeq DEF ReadFails, TypeOK
    <2>2. failed' \in [Views -> BOOLEAN]
        BY <1>9 DEF ReadFails, TypeOK
    <2> QED BY <1>9, <2>1, <2>2 DEF ReadFails, TypeOK, upstream, relays
<1>10. ASSUME NEW t \in Threads, toArm[t] # <<>>
       PROVE Head(toArm[t]) \in Feeds /\ Tail(toArm[t]) \in Seq(Feeds)
    BY <1>10, HeadOfSeq DEF TypeOK
<1>11. ASSUME NEW t \in Threads, Swap(t) PROVE TypeOK'
    <2>1. Head(toArm[t]) \in Feeds /\ Tail(toArm[t]) \in Seq(Feeds)
        BY <1>10, <1>11 DEF Swap
    <2>2. flag' \in [Feeds -> BOOLEAN] /\ unarmed' \in [Threads -> SUBSET Feeds]
        BY <1>11 DEF Swap, TypeOK
    <2>3. at' \in [Threads -> {"idle", "in", "subscribe"}]
              /\ toArm' \in [Threads -> Seq(Feeds)]
        BY <1>11, <2>1 DEF Swap, ArmsNext, TypeOK
    <2>4. \A u \in Threads : at'[u] = "subscribe" => toArm'[u] # <<>>
        BY <1>11 DEF Swap, ArmsNext, TypeOK
    <2> QED BY <1>11, <2>2, <2>3, <2>4 DEF Swap, TypeOK, upstream, shown
<1>12. ASSUME NEW t \in Threads, Subscribe(t) PROVE TypeOK'
    <2>1. Head(toArm[t]) \in Feeds /\ Tail(toArm[t]) \in Seq(Feeds)
        BY <1>10, <1>12 DEF Subscribe, TypeOK
    <2>2. phase' \in [Feeds -> {"none", "starting", "on", "ended"}]
              /\ listeners' \in [Feeds -> Int]
        BY <1>12, <2>1 DEF Subscribe, TypeOK
    <2>3. /\ at' \in [Threads -> {"idle", "in", "subscribe"}]
          /\ toArm' \in [Threads -> Seq(Feeds)]
          /\ \A u \in Threads : at'[u] = "subscribe" => toArm'[u] # <<>>
        BY <1>12, <2>1 DEF Subscribe, ArmsNext, TypeOK
    <2> QED BY <1>12, <2>2, <2>3 DEF Subscribe, TypeOK, upstream, shown
<1>13. ASSUME NEW t \in Threads, SubscribeFails(t) PROVE TypeOK'
    <2>1. Head(toArm[t]) \in Feeds /\ Tail(toArm[t]) \in Seq(Feeds)
        BY <1>10, <1>13 DEF SubscribeFails, TypeOK
    <2> QED BY <1>13, <2>1 DEF SubscribeFails, ArmsNext, TypeOK, upstream, shown
<1>14. ASSUME NEW t \in Threads, Return(t) PROVE TypeOK'
    <2>1. /\ version' \in [Feeds -> 0 .. MaxMoves]
          /\ pending' \in [Feeds -> 0 .. MaxPending]
        BY <1>14, MovesType DEF Return, TypeOK, upstream
    <2> QED BY <1>14, <2>1 DEF Return, TypeOK, relays, shown
<1>15. CASE UNCHANGED vars
    BY <1>15 DEF TypeOK, vars, upstream, relays, calls, shown
<1> QED
    BY <1>1, <1>2, <1>3, <1>4, <1>5, <1>6, <1>7, <1>8, <1>9, <1>11, <1>12, <1>13,
       <1>14, <1>15
    DEF Next, Listener, Goes, Reading

--------------------------------------------------------------------------------
LEMMA InitHeld == Init => Held
BY DEF Init, Held

\* A step that touches no flag, no listener and no thread that arms.
LEMMA HeldKept ==
    ASSUME Held, UNCHANGED <<relays, at, toArm>>
    PROVE  Held'
BY DEF Held, Subscribing, relays

LEMMA HeldListener ==
    ASSUME TypeOK, Held, NEW f \in Feeds,
           SpeakUp(f) \/ FeedEnds(f) \/ ReleaseFlag(f)
    PROVE  Held'
<1>1. phase[f] # "none" /\ \A g \in Feeds : g # f => phase'[g] = phase[g]
    BY DEF SpeakUp, FeedEnds, ReleaseFlag, TypeOK
<1>2. at' = at /\ toArm' = toArm
    BY DEF SpeakUp, FeedEnds, ReleaseFlag, calls
<1>3. ASSUME NEW t \in Threads, at[t] = "subscribe"
      PROVE  Head(toArm[t]) \in Feeds \ {f}
    BY <1>1, <1>3, HeadOfSeq DEF Held, TypeOK
<1>4. \A g \in Feeds : g # f => flag'[g] = flag[g]
    BY DEF SpeakUp, FeedEnds, ReleaseFlag, TypeOK
<1>5. \A t \in Threads : at'[t] = "subscribe" =>
         /\ flag'[Head(toArm'[t])]
         /\ phase'[Head(toArm'[t])] = "none"
         /\ \A u \in Threads : Subscribing(u, Head(toArm[t]))' => u = t
    BY <1>1, <1>2, <1>3, <1>4 DEF Held, Subscribing
<1>6. \A g \in Feeds : listeners'[g] = IF phase'[g] \in {"starting", "on"} THEN 1 ELSE 0
    BY DEF SpeakUp, FeedEnds, ReleaseFlag, Held, TypeOK
<1>7. \A g \in Feeds : phase'[g] # "none" => flag'[g]
    BY DEF SpeakUp, FeedEnds, ReleaseFlag, Held, TypeOK
<1> QED BY <1>2, <1>5, <1>6, <1>7 DEF Held, Subscribing

\* A thread that begins or ends its method is at no subscription.
LEMMA HeldCall ==
    ASSUME TypeOK, Held, NEW t \in Threads, at[t] # "subscribe",
           UNCHANGED relays,
           NEW a \in {"idle", "in"}, at' = [at EXCEPT ![t] = a],
           \A u \in Threads \ {t} : toArm'[u] = toArm[u]
    PROVE  Held'
<1>1. \A u \in Threads : at'[u] = "subscribe" =>
         u # t /\ at[u] = "subscribe" /\ toArm'[u] = toArm[u]
    BY DEF TypeOK
<1> QED BY <1>1 DEF Held, Subscribing, relays

LEMMA HeldSwap ==
    ASSUME TypeOK, Held, NEW t \in Threads, Swap(t)
    PROVE  Held'
<1> DEFINE f == Head(toArm[t])
<1>1. f \in Feeds
    BY HeadOfSeq DEF Swap, TypeOK
<1>2. \A g \in Feeds : (phase'[g] # "none" => flag'[g])
          /\ listeners'[g] = IF phase'[g] \in {"starting", "on"} THEN 1 ELSE 0
    BY DEF Swap, Held, TypeOK
<1>3. CASE flag[f]
    <2>1. flag' = flag
        BY <1>1, <1>3 DEF Swap, TypeOK
    <2>2. \A u \in Threads : at'[u] = "subscribe" =>
             u # t /\ at[u] = "subscribe" /\ toArm'[u] = toArm[u]
        BY <1>3 DEF Swap, ArmsNext, TypeOK
    <2> QED BY <1>2, <2>1, <2>2 DEF Swap, Held, Subscribing
<1>4. CASE ~ flag[f]
    <2>1. phase'[f] = "none" /\ flag'[f] /\ toArm' = toArm /\ phase' = phase
        BY <1>1, <1>4 DEF Swap, Held, TypeOK
    <2>2. \A u \in Threads : at[u] = "subscribe" => Head(toArm[u]) # f
        BY <1>4 DEF Held
    <2>3. \A u \in Threads : at'[u] = "subscribe" => u = t \/ at[u] = "subscribe"
        BY DEF Swap, TypeOK
    <2>4. \A g \in Feeds : flag[g] => flag'[g]
        BY <1>1 DEF Swap, TypeOK
    <2>5. \A u \in Threads : at[u] = "subscribe" => Head(toArm[u]) \in Feeds
        BY HeadOfSeq DEF TypeOK
    <2>6. \A u \in Threads : at'[u] = "subscribe" =>
             flag'[Head(toArm'[u])] /\ phase'[Head(toArm'[u])] = "none"
        BY <2>1, <2>3, <2>4, <2>5 DEF Held
    <2>7. \A u, w \in Threads :
             at'[u] = "subscribe" /\ at'[w] = "subscribe"
                 /\ Head(toArm'[u]) = Head(toArm'[w]) => u = w
        BY <2>1, <2>2, <2>3 DEF Held, Subscribing
    <2> QED BY <1>2, <2>6, <2>7 DEF Held, Subscribing
<1> QED BY <1>3, <1>4

LEMMA HeldArmed ==
    ASSUME TypeOK, Held, NEW t \in Threads, Subscribe(t) \/ SubscribeFails(t)
    PROVE  Held'
<1> DEFINE f == Head(toArm[t])
<1>1. f \in Feeds /\ at[t] = "subscribe"
    BY HeadOfSeq DEF Subscribe, SubscribeFails, TypeOK
<1>2. flag[f] /\ phase[f] = "none" /\ listeners[f] = 0
    BY <1>1 DEF Held
<1>3. \A u \in Threads : at'[u] = "subscribe" =>
         u # t /\ at[u] = "subscribe" /\ toArm'[u] = toArm[u]
    BY DEF Subscribe, SubscribeFails, ArmsNext, TypeOK
<1>4. \A u \in Threads : at'[u] = "subscribe" => Head(toArm'[u]) \in Feeds \ {f}
    <2> SUFFICES ASSUME NEW u \in Threads, at'[u] = "subscribe"
                 PROVE  Head(toArm'[u]) \in Feeds \ {f}
        OBVIOUS
    <2>1. u # t /\ at[u] = "subscribe" /\ toArm'[u] = toArm[u]
        BY <1>3
    <2>2. Head(toArm[u]) \in Feeds
        BY <2>1, HeadOfSeq DEF TypeOK
    <2>3. Head(toArm[u]) # f
        BY <1>1, <2>1 DEF Held, Subscribing
    <2> QED BY <2>1, <2>2, <2>3
<1>5. /\ \A g \in Feeds : listeners'[g] = IF phase'[g] \in {"starting", "on"} THEN 1 ELSE 0
      /\ \A g \in Feeds : phase'[g] # "none" => flag'[g]
    <2>1. CASE Subscribe(t)
        <3>1. \A g \in Feeds \ {f} : phase'[g] = phase[g] /\ listeners'[g] = listeners[g]
            BY <2>1 DEF Subscribe, TypeOK
        <3>2. phase'[f] \in {"starting", "on"} /\ listeners'[f] = 1 /\ flag' = flag
            BY <1>1, <1>2, <2>1 DEF Subscribe, TypeOK
        <3> QED BY <1>2, <3>1, <3>2 DEF Held
    <2>2. CASE SubscribeFails(t)
        <3>1. phase' = phase /\ listeners' = listeners
                  /\ \A g \in Feeds \ {f} : flag'[g] = flag[g]
            BY <2>2 DEF SubscribeFails, TypeOK
        <3> QED BY <1>2, <3>1 DEF Held
    <2> QED BY <2>1, <2>2
<1>7. \A g \in Feeds \ {f} : phase'[g] = phase[g] /\ flag'[g] = flag[g]
    BY DEF Subscribe, SubscribeFails, TypeOK
<1>8. \A u \in Threads : at'[u] = "subscribe" =>
         flag'[Head(toArm'[u])] /\ phase'[Head(toArm'[u])] = "none"
    BY <1>3, <1>4, <1>7 DEF Held
<1>9. \A u, w \in Threads :
         at'[u] = "subscribe" /\ at'[w] = "subscribe"
             /\ Head(toArm'[u]) = Head(toArm'[w]) => u = w
    BY <1>3 DEF Held, Subscribing
<1> QED BY <1>5, <1>8, <1>9 DEF Held, Subscribing

LEMMA StepHeld == TypeOK /\ Held /\ [Next]_vars => Held'
<1> SUFFICES ASSUME TypeOK, Held, [Next]_vars PROVE Held'
    OBVIOUS
<1>1. ASSUME NEW f \in Feeds, Move(f) \/ Relay(f) PROVE Held'
    BY <1>1, HeldKept DEF Move, Relay, calls
<1>2. ASSUME NEW f \in Feeds, SpeakUp(f) \/ FeedEnds(f) \/ ReleaseFlag(f) PROVE Held'
    BY <1>2, HeldListener
<1>3. ASSUME ContextReady PROVE Held'
    <2>1. \A u \in Threads \ {Host} : toArm'[u] = toArm[u]
        BY <1>3 DEF ContextReady, Enter, TypeOK
    <2> QED BY <1>3, <2>1, HeldCall DEF ContextReady, Enter, Threads
<1>4. ASSUME NEW t \in Views, Begin(t) PROVE Held'
    <2>1. \A u \in Threads \ {t} : toArm'[u] = toArm[u]
        BY <1>4 DEF Begin, Enter, TypeOK
    <2> QED BY <1>4, <2>1, HeldCall DEF Begin, Enter, Threads
<1>5. ASSUME NEW t \in Views, Reading(t) PROVE Held'
    BY <1>5, HeldKept DEF Reading, Read, ReadFails
<1>6. ASSUME NEW t \in Threads, Swap(t) PROVE Held'
    BY <1>6, HeldSwap
<1>7. ASSUME NEW t \in Threads, Subscribe(t) \/ SubscribeFails(t) PROVE Held'
    BY <1>7, HeldArmed
<1>8. ASSUME NEW t \in Threads, Return(t) PROVE Held'
    BY <1>8, HeldCall DEF Return
<1>9. CASE UNCHANGED vars
    BY <1>9, HeldKept DEF vars, calls
<1> QED BY <1>1, <1>2, <1>3, <1>4, <1>5, <1>6, <1>7, <1>8, <1>9
        DEF Next, Listener, Goes

LEMMA FeedsInvInductive == Spec => []FeedsInv
<1>1. Init => FeedsInv
    BY InitType, InitHeld DEF FeedsInv
<1>2. FeedsInv /\ [Next]_vars => FeedsInv'
    BY StepType, StepHeld DEF FeedsInv
<1> QED BY <1>1, <1>2, PTL DEF Spec

(* Whatever feeds and threads there are, a listener runs alone on its feed and   *)
(* its flag holds the feed for it.                                               *)
THEOREM AloneOnItsFeed == Spec => []OneListener
<1>1. FeedsInv => OneListener
    <2> SUFFICES ASSUME TypeOK, Held, NEW f \in Feeds
                 PROVE  listeners[f] = 0 \/ (listeners[f] = 1 /\ flag[f])
        BY DEF FeedsInv, OneListener
    <2>1. CASE phase[f] \in {"starting", "on"}
        BY <2>1 DEF Held
    <2>2. CASE phase[f] \notin {"starting", "on"}
        BY <2>2 DEF Held
    <2> QED BY <2>1, <2>2
<1> QED BY <1>1, FeedsInvInductive, PTL

--------------------------------------------------------------------------------
AccountFeeds == {"keystore", "signers"}

LEMMA AnnouncedIsHeard ==
    ASSUME NEW t \in Views, NEW f \in Asked(t)
    PROVE  Hears(Shows[t]) \in Announces(f)
<1>1. Shows[t] \in Methods
    BY ViewsShowMethods
<1>2. f \in (UNION ToSet(Asks(Shows[t])))
    BY DEF Asked
<1>3. PICK i \in DOMAIN Asks(Shows[t]) : f \in Asks(Shows[t])[i]
    BY <1>2 DEF ToSet
<1>4. CASE Shows[t] \in {"list_accounts", "account_roster"}
    BY <1>3, <1>4 DEF Asks, Hears, Announces
<1>5. CASE Shows[t] = "get_account_labels"
    BY <1>3, <1>5 DEF Asks, Hears, Announces
<1>6. CASE Shows[t] = "list_networks"
    BY <1>3, <1>6 DEF Asks, Hears, Announces
<1>7. CASE Shows[t] = "list_tokens"
    BY <1>3, <1>7 DEF Asks, Hears, Announces
<1>8. CASE Shows[t] = "get_history"
    BY <1>3, <1>8 DEF Asks, Hears, Announces
<1>9. CASE Shows[t] = "set_token_enabled"
    BY <1>3, <1>9 DEF Asks
<1> QED BY <1>1, <1>4, <1>5, <1>6, <1>7, <1>8, <1>9 DEF Methods

LEMMA TailKeeps ==
    ASSUME NEW S, NEW s \in Seq(SUBSET S), s # <<>>, NEW x \in (UNION ToSet(s))
    PROVE  x \in Head(s) \/ x \in (UNION ToSet(Tail(s)))
<1>1. PICK i \in 1 .. Len(s) : x \in s[i]
    BY DEF ToSet
<1>2. CASE i = 1
    BY <1>1, <1>2, HeadTailProperties
<1>3. CASE i # 1
    <2>1. i - 1 \in 1 .. Len(Tail(s)) /\ Tail(s)[i - 1] = s[i]
        BY <1>1, <1>3, HeadTailProperties
    <2>2. DOMAIN Tail(s) = 1 .. Len(Tail(s))
        BY HeadTailProperties, LenProperties
    <2>3. s[i] \in ToSet(Tail(s))
        BY <2>1, <2>2 DEF ToSet
    <2> QED BY <1>1, <2>3
<1> QED BY <1>2, <1>3

\* A listener takes up a feed, and does not announce what it may have missed.
ComesUpSilently(f) == f \notin SpeakFirst /\ phase[f] = "none" /\ phase'[f] = "on"

\* What is stale is read or heard of again: a step that leaves a view fresh or told of a
\* feed's moves, whoever takes it, unless it takes up that very feed in silence.
LEMMA FreshStep ==
    ASSUME TypeOK, Held, [Next]_vars,
           NEW t \in Views, NEW f \in Asked(t), FreshOrTold(t, f), ~ComesUpSilently(f)
    PROVE  FreshOrTold(t, f)'
<1>1. f \in Feeds /\ t \in Told(f) /\ f \in (UNION ToSet(Asks(Shows[t])))
    BY AnnouncedIsHeard DEF Asked, Told
<1>2. ASSUME NEW g \in Feeds, Moves(g), UNCHANGED <<phase, seen, failed, due, toRead>>
      PROVE  FreshOrTold(t, f)'
    <2>1. CASE g # f
        <3>1. version'[f] = version[f] /\ pending'[f] = pending[f]
            BY <1>1, <1>2, <2>1 DEF Moves, TypeOK
        <3> QED BY <1>2, <3>1 DEF FreshOrTold
    <2>2. CASE g = f /\ phase[f] = "on"
        <3>1. pending'[f] > 0
            BY <1>1, <1>2, <2>2, BoundsAreNat DEF Moves, TypeOK
        <3> QED BY <3>1 DEF FreshOrTold
    <2>3. CASE phase[f] # "on"
        BY <1>2, <2>3 DEF FreshOrTold
    <2> QED BY <2>1, <2>2, <2>3
<1>3. ASSUME UNCHANGED <<version, pending, phase, seen, failed, due, toRead>>
      PROVE  FreshOrTold(t, f)'
    BY <1>3 DEF FreshOrTold
<1>4. ASSUME NEW g \in Feeds, Move(g) PROVE FreshOrTold(t, f)'
    BY <1>4, <1>2 DEF Move, relays, calls, shown
<1>5. ASSUME NEW g \in Feeds, SpeakUp(g) \/ Relay(g) PROVE FreshOrTold(t, f)'
    <2>1. UNCHANGED <<version, seen, failed, toRead>>
        BY <1>5 DEF SpeakUp, Relay, upstream, calls
    <2>2. CASE g = f
        BY <1>1, <1>5, <2>2 DEF SpeakUp, Relay, FreshOrTold
    <2>3. CASE g # f
        <3>1. phase'[f] = phase[f] /\ pending'[f] = pending[f]
            BY <1>1, <1>5, <2>3 DEF SpeakUp, Relay, TypeOK, relays, upstream
        <3>2. t \in due => t \in due'
            BY <1>5 DEF SpeakUp, Relay, Told
        <3> QED BY <2>1, <3>1, <3>2 DEF FreshOrTold
    <2> QED BY <2>2, <2>3
<1>6. ASSUME NEW g \in Feeds, FeedEnds(g) \/ ReleaseFlag(g) PROVE FreshOrTold(t, f)'
    <2>1. UNCHANGED <<version, seen, failed, due, toRead>>
        BY <1>6 DEF FeedEnds, ReleaseFlag, upstream, calls, shown
    <2>2. CASE g = f
        <3>1. phase'[f] # "on"
            BY <1>1, <1>6, <2>2 DEF FeedEnds, ReleaseFlag, TypeOK
        <3> QED BY <3>1 DEF FreshOrTold
    <2>3. CASE g # f
        <3>1. phase'[f] = phase[f] /\ pending'[f] = pending[f]
            BY <1>1, <1>6, <2>3 DEF FeedEnds, ReleaseFlag, TypeOK, upstream
        <3> QED BY <2>1, <3>1 DEF FreshOrTold
    <2> QED BY <2>2, <2>3
<1>7. ASSUME ContextReady PROVE FreshOrTold(t, f)'
    <2>1. t # Host
        BY HostIsNoView
    <2>2. toRead'[t] = toRead[t]
        BY <1>7, <2>1 DEF ContextReady, Enter, TypeOK, Threads
    <2> QED BY <1>7, <2>2 DEF ContextReady, FreshOrTold, upstream, relays, shown
<1>8. ASSUME NEW u \in Views, Begin(u) PROVE FreshOrTold(t, f)'
    <2>1. CASE u = t
        <3>1. toRead'[t] = Asks(Shows[t])
            BY <1>8, <2>1 DEF Begin, Enter, TypeOK, Threads
        <3> QED BY <1>1, <3>1 DEF FreshOrTold
    <2>2. CASE u # t
        <3>1. toRead'[t] = toRead[t] /\ failed'[t] = failed[t] /\ (t \in due => t \in due')
            BY <1>8, <2>2 DEF Begin, Enter, TypeOK, Threads
        <3> QED BY <1>8, <3>1 DEF Begin, FreshOrTold, upstream, relays
    <2> QED BY <2>1, <2>2
<1>9. ASSUME NEW u \in Views, Read(u) PROVE FreshOrTold(t, f)'
    <2>1. CASE u = t /\ f \in Head(toRead[t])
        <3>1. seen'[t][f] = version[f] /\ version' = version
            BY <1>1, <1>9, <2>1 DEF Read, TypeOK, upstream
        <3> QED BY <3>1 DEF FreshOrTold
    <2>2. CASE u = t /\ f \notin Head(toRead[t])
        <3>1. seen'[t][f] = seen[t][f] /\ toRead'[t] = Tail(toRead[t])
            BY <1>1, <1>9, <2>2 DEF Read, TypeOK, Threads
        <3>2. f \in (UNION ToSet(toRead[t])) => f \in (UNION ToSet(toRead'[t]))
            BY <1>9, <2>2, <3>1, TailKeeps DEF Read, TypeOK, Threads
        <3> QED BY <1>9, <3>1, <3>2 DEF Read, FreshOrTold, upstream, relays
    <2>3. CASE u # t
        <3>1. seen'[t] = seen[t] /\ toRead'[t] = toRead[t]
            BY <1>9, <2>3 DEF Read, TypeOK, Threads
        <3> QED BY <1>9, <3>1 DEF Read, FreshOrTold, upstream, relays
    <2> QED BY <2>1, <2>2, <2>3
<1>10. ASSUME NEW u \in Views, ReadFails(u) PROVE FreshOrTold(t, f)'
    <2>1. CASE u = t
        <3>1. failed'[t]
            BY <1>10, <2>1 DEF ReadFails, TypeOK
        <3> QED BY <3>1 DEF FreshOrTold
    <2>2. CASE u # t
        <3>1. failed'[t] = failed[t] /\ toRead'[t] = toRead[t]
            BY <1>10, <2>2 DEF ReadFails, TypeOK, Threads
        <3> QED BY <1>10, <3>1 DEF ReadFails, FreshOrTold, upstream, relays
    <2> QED BY <2>1, <2>2
<1>11. ASSUME NEW u \in Threads, Swap(u) \/ SubscribeFails(u) PROVE FreshOrTold(t, f)'
    BY <1>3, <1>11 DEF Swap, SubscribeFails, upstream, shown
<1>12. ASSUME NEW u \in Threads, Subscribe(u) PROVE FreshOrTold(t, f)'
    <2> DEFINE g == Head(toArm[u])
    <2>1. g \in Feeds
        BY <1>12, HeadOfSeq DEF Subscribe, TypeOK
    <2>2. CASE g = f
        <3>1. phase'[f] = IF f \in SpeakFirst THEN "starting" ELSE "on"
            BY <1>1, <1>12, <2>1, <2>2 DEF Subscribe, TypeOK
        <3>2. CASE phase'[f] # "on"
            BY <3>2 DEF FreshOrTold
        <3>3. CASE phase'[f] = "on"
            <4>1. f \notin SpeakFirst
                BY <3>1, <3>3
            <4>2. phase[f] = "none"
                BY <1>12, <2>2 DEF Held, Subscribe
            <4> QED BY <3>3, <4>1, <4>2 DEF ComesUpSilently
        <3> QED BY <3>2, <3>3
    <2>3. CASE g # f
        <3>1. phase'[f] = phase[f]
            BY <1>1, <1>12, <2>1, <2>3 DEF Subscribe, TypeOK
        <3> QED BY <1>12, <3>1 DEF Subscribe, FreshOrTold, upstream, shown
    <2> QED BY <2>2, <2>3
<1>13. ASSUME NEW u \in Threads, Return(u) PROVE FreshOrTold(t, f)'
    <2>1. UNCHANGED <<phase, seen, failed, due, toRead>>
        BY <1>13 DEF Return, relays, shown
    <2>2. CASE UNCHANGED upstream
        BY <1>3, <2>1, <2>2 DEF upstream
    <2>3. CASE "tokens" \in Feeds /\ Moves("tokens")
        BY <1>2, <2>1, <2>3
    <2> QED BY <1>13, <2>2, <2>3 DEF Return
<1>14. CASE UNCHANGED vars
    BY <1>3, <1>14 DEF vars, upstream, relays, calls, shown
<1> QED
    BY <1>4, <1>5, <1>6, <1>7, <1>8, <1>9, <1>10, <1>11, <1>12, <1>13, <1>14
    DEF Next, Listener, Goes, Reading

(* For any number of views and whatever fails or ends, no account page goes      *)
(* silently stale.                                                                *)
THEOREM AccountsNeverStale == Spec => []AccountsFresh
<1>1. Init => AccountsFresh
    BY DEF Init, AccountsFresh, FreshOrTold, Asked
<1>2. FeedsInv /\ AccountsFresh /\ [Next]_vars => AccountsFresh'
    <2> SUFFICES ASSUME FeedsInv, AccountsFresh, [Next]_vars PROVE AccountsFresh'
        OBVIOUS
    <2>1. ASSUME NEW t \in Views, NEW f \in Asked(t) \cap AccountFeeds
          PROVE  FreshOrTold(t, f)'
        BY FreshStep DEF FeedsInv, AccountsFresh, AccountFeeds, ComesUpSilently, SpeakFirst
    <2> QED BY <2>1 DEF AccountsFresh, AccountFeeds, Asked
<1> QED BY <1>1, <1>2, FeedsInvInductive, PTL DEF Spec

\* What takes a feed up in silence is its subscription, and that is all it does.
LEMMA SilentStep ==
    ASSUME TypeOK, [Next]_vars, NEW f \in Feeds, ComesUpSilently(f)
    PROVE  UNCHANGED <<version, pending, seen, failed, due, toRead>>
<1>1. phase \in [Feeds -> {"none", "starting", "on", "ended"}]
    BY DEF TypeOK
<1>2. phase'[f] # phase[f] /\ phase'[f] = "on"
    BY DEF ComesUpSilently
<1>3. ASSUME NEW u \in Threads, Subscribe(u)
      PROVE  UNCHANGED <<version, pending, seen, failed, due, toRead>>
    BY <1>3 DEF Subscribe, upstream, shown
<1>4. ASSUME NEW g \in Feeds, SpeakUp(g) \/ FeedEnds(g) \/ ReleaseFlag(g) \/ Relay(g)
                              \/ Move(g)
      PROVE  FALSE
    <2>1. CASE SpeakUp(g)
        BY <1>1, <1>2, <2>1 DEF SpeakUp, ComesUpSilently
    <2>2. CASE FeedEnds(g) \/ ReleaseFlag(g)
        BY <1>1, <1>2, <2>2 DEF FeedEnds, ReleaseFlag
    <2>3. CASE Relay(g) \/ Move(g)
        BY <1>2, <2>3 DEF Relay, Move, relays
    <2> QED BY <1>4, <2>1, <2>2, <2>3
<1>5. ASSUME ContextReady \/ UNCHANGED vars PROVE FALSE
    BY <1>2, <1>5 DEF ContextReady, vars, relays
<1>6. ASSUME NEW u \in Views, Begin(u) \/ Reading(u) PROVE FALSE
    BY <1>2, <1>6 DEF Begin, Reading, Read, ReadFails, relays
<1>7. ASSUME NEW u \in Threads, Swap(u) \/ SubscribeFails(u) \/ Return(u) PROVE FALSE
    BY <1>2, <1>7 DEF Swap, SubscribeFails, Return, relays
<1> QED BY <1>3, <1>4, <1>5, <1>6, <1>7 DEF Next, Listener, Goes

(* Whatever the feed, a view that is current or told goes silently stale at one step     *)
(* only: the one that takes the feed up without announcing once, as watch_keystore and    *)
(* watch_signers do (glue.rs, watch_networks and watch_tokens against watch_signers).    *)
THEOREM OnlyTheWindowIsMissed ==
    Spec => [][\A t \in Views : \A f \in Asked(t) :
                  FreshOrTold(t, f) /\ ~FreshOrTold(t, f)' => ComesUpSilently(f)]_vars
<1>1. FeedsInv /\ [Next]_vars =>
          [\A t \in Views : \A f \in Asked(t) :
              FreshOrTold(t, f) /\ ~FreshOrTold(t, f)' => ComesUpSilently(f)]_vars
    <2> SUFFICES ASSUME FeedsInv, [Next]_vars, NEW t \in Views, NEW f \in Asked(t),
                        FreshOrTold(t, f), ~FreshOrTold(t, f)'
                 PROVE  ComesUpSilently(f)
        OBVIOUS
    <2> QED BY FreshStep DEF FeedsInv
<1> QED BY <1>1, FeedsInvInductive, PTL DEF Spec

(* A feed is taken up in silence only when the views that show what it is about have     *)
(* its owner's last word, or are to ask for it.                                       *)
NothingWasMissed ==
    \A t \in Views : \A f \in Asked(t) :
        ComesUpSilently(f) =>
            \/ seen[t][f] \in {Never, version[f]}
            \/ failed[t] \/ t \in due \/ f \in (UNION ToSet(toRead[t])) \/ pending[f] > 0

(* So what the networks page misses, it misses between its reading and its feed's coming  *)
(* up, and nothing else: where no owner moves in that window no page of any feed is       *)
(* silently stale, for any views and feeds, and whatever fails or ends.                  *)
THEOREM NetworksNeverStaleBut ==
    Spec /\ [][NothingWasMissed]_vars =>
        [](NetworksFresh /\ \A t \in Views : \A f \in Asked(t) : FreshOrTold(t, f))
<1> DEFINE AllFresh == \A t \in Views : \A f \in Asked(t) : FreshOrTold(t, f)
<1>1. Init => AllFresh
    BY DEF Init, FreshOrTold, Asked
<1>2. FeedsInv /\ AllFresh /\ [Next]_vars /\ [NothingWasMissed]_vars => AllFresh'
    <2> SUFFICES ASSUME FeedsInv, AllFresh, [Next]_vars, [NothingWasMissed]_vars,
                        NEW t \in Views, NEW f \in Asked(t)
                 PROVE  FreshOrTold(t, f)'
        BY DEF Asked
    <2>1. CASE ~ComesUpSilently(f)
        BY <2>1, FreshStep DEF FeedsInv
    <2>2. CASE ComesUpSilently(f)
        <3>1. NothingWasMissed
            BY <2>2 DEF ComesUpSilently, vars, relays
        <3>2. f \in Feeds
            BY DEF Asked
        <3>3. UNCHANGED <<version, pending, seen, failed, due, toRead>>
            BY <2>2, <3>2, SilentStep DEF FeedsInv
        <3> QED BY <2>2, <3>1, <3>3 DEF NothingWasMissed, FreshOrTold
    <2> QED BY <2>1, <2>2
<1>3. AllFresh => NetworksFresh
    BY DEF NetworksFresh
<1> HIDE DEF AllFresh
<1>4. Spec /\ [][NothingWasMissed]_vars => [](NetworksFresh /\ AllFresh)
    BY <1>1, <1>2, <1>3, FeedsInvInductive, PTL DEF Spec
<1> QED BY <1>4 DEF AllFresh

--------------------------------------------------------------------------------
(* What a feed's listener announces is what the views of its owner read again on.      *)

(* No event is taken off a feed unheard by a view that shows what its owner answers,   *)
(* for any views and feeds.                                                          *)
THEOREM EveryViewHears == Spec => HeardByAll
<1>1. ASSUME TypeOK, [Next]_vars
      PROVE  [\A f \in Feeds :
                (phase[f] = "on" /\ phase'[f] = "on" /\ pending'[f] < pending[f])
                    => {t \in Views : f \in Asked(t)} \subseteq due']_vars
    <2> SUFFICES ASSUME Next, NEW f \in Feeds, phase[f] = "on", phase'[f] = "on",
                        pending'[f] < pending[f], NEW t \in Views, f \in Asked(t)
                 PROVE  t \in due'
        BY <1>1
    <2>0. pending \in [Feeds -> 0 .. MaxPending] /\ phase \in [Feeds -> {"none", "starting", "on", "ended"}]
          /\ MaxPending \in Nat /\ \A g \in Feeds : pending[g] \in Nat
        BY <1>1, BoundsAreNat DEF TypeOK
    <2>1. ASSUME NEW g \in Feeds, Moves(g) PROVE FALSE
        <3>1. pending'[f] = pending[f] \/ pending'[f] = pending[f] + 1
            BY <2>0, <2>1 DEF Moves
        <3> QED BY <3>1, <2>0
    <2>2. ASSUME pending' = pending PROVE FALSE
        BY <2>0, <2>2
    <2>3. ASSUME NEW g \in Feeds, Listener(g) \/ FeedEnds(g) PROVE t \in due'
        <3>1. CASE Relay(g)
            <4>1. g = f
                BY <2>0, <3>1 DEF Relay
            <4> QED BY <3>1, <4>1, AnnouncedIsHeard DEF Relay, Told
        <3>2. CASE SpeakUp(g) \/ ReleaseFlag(g)
            BY <2>2, <3>2 DEF SpeakUp, ReleaseFlag, upstream
        <3>3. CASE FeedEnds(g)
            BY <2>0, <3>3 DEF FeedEnds
        <3> QED BY <2>3, <3>1, <3>2, <3>3 DEF Listener
    <2>4. CASE ContextReady
        BY <2>2, <2>4 DEF ContextReady, upstream
    <2>5. ASSUME NEW u \in Views, Begin(u) \/ Reading(u) PROVE FALSE
        BY <2>2, <2>5 DEF Begin, Reading, Read, ReadFails, upstream
    <2>6. ASSUME NEW u \in Threads, Goes(u) PROVE FALSE
        BY <2>1, <2>2, <2>6 DEF Goes, Swap, Subscribe, SubscribeFails, Return, upstream
    <2> QED BY <2>1, <2>3, <2>4, <2>5, <2>6 DEF Next, Move
<1>2. FeedsInv => TypeOK
    BY DEF FeedsInv
<1> QED BY <1>1, <1>2, FeedsInvInductive, PTL DEF Spec, HeardByAll

(* The types of Feeds, for any set of views, methods, faults and bounds.              *)
THEOREM FeedsTyped == Spec => []TypeOK
<1>1. FeedsInv => TypeOK
    BY DEF FeedsInv
<1> QED BY <1>1, FeedsInvInductive, PTL DEF Spec

--------------------------------------------------------------------------------
(* A method that arms every feed it asks the owner of arms it before it asks.          *)

\* The methods that leave a feed they ask the owner of to on_context_ready.
LeavesToStartup == {"list_tokens", "get_history"}

\* What t has still to ask is of feeds whose flag was set, that somebody has swapped since,
\* or that t itself has still to arm.
Rearms(t) ==
    /\ at[t] = "subscribe" => Head(toArm[t]) \notin unarmed[t]
    /\ unarmed[t] \cap (UNION ToSet(toRead[t])) \subseteq ToSet(toArm[t])

LEMMA OneOrAnother ==
    ASSUME NEW S, NEW s \in Seq(S), s # <<>>
    PROVE  /\ ToSet(s) \subseteq {Head(s)} \cup ToSet(Tail(s))
           /\ ToSet(Tail(s)) \subseteq ToSet(s)
           /\ Head(s) \in ToSet(s)
<1>1. /\ Len(s) \in Nat \ {0} /\ DOMAIN s = 1 .. Len(s) /\ Head(s) = s[1]
      /\ Tail(s) \in Seq(S) /\ Len(Tail(s)) = Len(s) - 1
      /\ \A i \in 1 .. Len(s) - 1 : Tail(s)[i] = s[i + 1]
    BY HeadTailProperties, LenProperties, EmptySeq
<1>2. DOMAIN Tail(s) = 1 .. Len(s) - 1
    BY <1>1, LenProperties
<1>3. ASSUME NEW i \in 1 .. Len(s) PROVE s[i] \in {Head(s)} \cup ToSet(Tail(s))
    <2>1. CASE i = 1
        BY <1>1, <2>1
    <2>2. CASE i # 1
        <3>1. i - 1 \in 1 .. Len(s) - 1 /\ Tail(s)[i - 1] = s[i]
            BY <1>1, <2>2
        <3> QED BY <1>2, <3>1 DEF ToSet
    <2> QED BY <2>1, <2>2
<1>4. ASSUME NEW i \in 1 .. Len(s) - 1 PROVE Tail(s)[i] \in ToSet(s)
    <2>1. i + 1 \in 1 .. Len(s) /\ Tail(s)[i] = s[i + 1]
        BY <1>1
    <2> QED BY <1>1, <2>1 DEF ToSet
<1>5. 1 \in 1 .. Len(s)
    BY <1>1
<1> QED BY <1>1, <1>2, <1>3, <1>4, <1>5 DEF ToSet

LEMMA WatchedIsArmed == \A f \in Feeds : Watch(f) = <<f>>
BY DEF Watch

LEMMA ToSetOfConcat ==
    ASSUME NEW S, NEW s \in Seq(S), NEW u \in Seq(S)
    PROVE  ToSet(s) \subseteq ToSet(s \o u) /\ ToSet(u) \subseteq ToSet(s \o u)
<1>1. /\ DOMAIN s = 1 .. Len(s) /\ DOMAIN u = 1 .. Len(u)
      /\ Len(s) \in Nat /\ Len(u) \in Nat /\ Len(s \o u) = Len(s) + Len(u)
      /\ DOMAIN (s \o u) = 1 .. Len(s \o u)
      /\ \A i \in 1 .. Len(s) + Len(u) :
             (s \o u)[i] = IF i <= Len(s) THEN s[i] ELSE u[i - Len(s)]
    BY ConcatProperties, LenProperties
<1>2. ASSUME NEW i \in 1 .. Len(s) PROVE s[i] \in ToSet(s \o u)
    <2>1. i \in 1 .. Len(s) + Len(u) /\ (s \o u)[i] = s[i]
        BY <1>1
    <2> QED BY <1>1, <2>1 DEF ToSet
<1>3. ASSUME NEW i \in 1 .. Len(u) PROVE u[i] \in ToSet(s \o u)
    <2>1. Len(s) + i \in 1 .. Len(s) + Len(u) /\ (s \o u)[Len(s) + i] = u[i]
        BY <1>1
    <2> QED BY <1>1, <2>1 DEF ToSet
<1> QED BY <1>1, <1>2, <1>3 DEF ToSet

LEMMA ArmsWhatItAsks ==
    ASSUME NEW m \in Methods \ LeavesToStartup, NEW f \in Feeds,
           f \in (UNION ToSet(Asks(m)))
    PROVE  f \in ToSet(Arms(m))
<1>1. \A g : Watch(g) \in Seq(Feeds)
    BY WatchIsSeq
<1>2. \A g, h : Watch(g) \o Watch(h) \in Seq(Feeds)
    BY <1>1, ConcatProperties
<1>3. f \in ToSet(Watch(f))
    BY WatchedIsArmed DEF ToSet
<1>4. PICK i \in DOMAIN Asks(m) : f \in Asks(m)[i]
    BY DEF ToSet
<1>5. CASE m \in {"list_accounts", "get_account_labels"}
    <2>1. f \in {"keystore", "signers"}
        BY <1>4, <1>5 DEF Asks
    <2> QED BY <1>1, <1>3, <1>5, <2>1, ToSetOfConcat DEF Arms
<1>6. CASE m = "account_roster"
    BY <1>3, <1>4, <1>6 DEF Asks, Arms
<1>7. CASE m = "list_networks"
    <2>1. f \in {"chains", "enabled", "scope"}
        BY <1>4, <1>7 DEF Asks
    <2>2. /\ ToSet(Watch("chains")) \subseteq ToSet(Watch("chains") \o Watch("enabled"))
          /\ ToSet(Watch("enabled")) \subseteq ToSet(Watch("chains") \o Watch("enabled"))
        BY <1>1, ToSetOfConcat
    <2>3. /\ ToSet(Watch("chains") \o Watch("enabled")) \subseteq ToSet(Arms(m))
          /\ ToSet(Watch("scope")) \subseteq ToSet(Arms(m))
        BY <1>1, <1>2, <1>7, ToSetOfConcat DEF Arms
    <2> QED BY <1>3, <2>1, <2>2, <2>3
<1>8. CASE m = "set_token_enabled"
    BY <1>4, <1>8 DEF Asks
<1> QED BY <1>5, <1>6, <1>7, <1>8 DEF Methods, LeavesToStartup

LEMMA RearmsStep ==
    ASSUME TypeOK, [Next]_vars,
           NEW t \in Views, Shows[t] \notin LeavesToStartup, Rearms(t)
    PROVE  Rearms(t)'
<1>0. t \in Threads /\ t # Host
    BY HostIsNoView DEF Threads
<1>1. ASSUME UNCHANGED <<at, toArm, toRead, unarmed>> PROVE Rearms(t)'
    BY <1>1 DEF Rearms
<1>2. ASSUME NEW u \in Threads, u # t, at'[t] = at[t], toArm'[t] = toArm[t],
             toRead'[t] = toRead[t], unarmed'[t] \subseteq unarmed[t]
      PROVE  Rearms(t)'
    BY <1>2 DEF Rearms
<1>3. ASSUME NEW f \in Feeds, Move(f) \/ Listener(f) \/ FeedEnds(f) PROVE Rearms(t)'
    BY <1>1, <1>3 DEF Move, Listener, SpeakUp, Relay, ReleaseFlag, FeedEnds, calls
<1>4. ASSUME ContextReady PROVE Rearms(t)'
    <2>1. at'[t] = at[t] /\ toArm'[t] = toArm[t] /\ toRead'[t] = toRead[t]
              /\ unarmed'[t] = unarmed[t]
        BY <1>0, <1>4 DEF ContextReady, Enter, TypeOK
    <2> QED BY <1>0, <1>2, <2>1 DEF Threads
<1>5. ASSUME NEW u \in Views, Begin(u) PROVE Rearms(t)'
    <2>1. CASE u = t
        <3>1. /\ at'[t] = "in" /\ toArm'[t] = Arms(Shows[t]) /\ toRead'[t] = Asks(Shows[t])
              /\ unarmed'[t] \subseteq Feeds
            BY <1>0, <1>5, <2>1 DEF Begin, Enter, TypeOK
        <3>2. Shows[t] \in Methods \ LeavesToStartup
            BY ViewsShowMethods
        <3> QED BY <3>1, <3>2, ArmsWhatItAsks DEF Rearms
    <2>2. CASE u # t
        <3>1. at'[t] = at[t] /\ toArm'[t] = toArm[t] /\ toRead'[t] = toRead[t]
                  /\ unarmed'[t] = unarmed[t]
            BY <1>0, <1>5, <2>2 DEF Begin, Enter, TypeOK
        <3> QED BY <1>2, <2>2, <3>1 DEF Threads
    <2> QED BY <2>1, <2>2
<1>6. ASSUME NEW u \in Views, Reading(u) PROVE Rearms(t)'
    <2>0. UNCHANGED <<at, toArm, unarmed>>
        BY <1>6 DEF Reading, Read, ReadFails
    <2>1. CASE u = t /\ Read(u)
        <3>1. toRead[t] \in Seq(SUBSET FeedNames) /\ toRead[t] # <<>>
                  /\ toRead'[t] = Tail(toRead[t])
            BY <1>0, <2>1 DEF Read, TypeOK
        <3>2. (UNION ToSet(toRead'[t])) \subseteq (UNION ToSet(toRead[t]))
            BY <3>1, OneOrAnother
        <3> QED BY <2>0, <3>2 DEF Rearms
    <2>2. CASE u = t /\ ReadFails(u)
        <3>1. toRead'[t] = <<>>
            BY <1>0, <2>2 DEF ReadFails, TypeOK
        <3>2. (UNION ToSet(toRead'[t])) = {}
            BY <3>1 DEF ToSet
        <3> QED BY <2>0, <3>2 DEF Rearms
    <2>3. CASE u # t
        <3>1. toRead'[t] = toRead[t]
            BY <1>0, <1>6, <2>3 DEF Reading, Read, ReadFails, TypeOK
        <3> QED BY <2>0, <3>1 DEF Rearms
    <2> QED BY <1>6, <2>1, <2>2, <2>3 DEF Reading
<1>7. ASSUME NEW u \in Threads, Swap(u) PROVE Rearms(t)'
    <2>1. unarmed'[t] = unarmed[t] \ {Head(toArm[u])} /\ toRead' = toRead
        BY <1>0, <1>7 DEF Swap
    <2>2. CASE u = t /\ flag[Head(toArm[u])]
        <3>1. toArm[t] \in Seq(Feeds) /\ toArm[t] # <<>> /\ toArm'[t] = Tail(toArm[t])
                  /\ at'[t] = "in"
            BY <1>0, <1>7, <2>2 DEF Swap, ArmsNext, TypeOK
        <3>2. ToSet(toArm[t]) \subseteq {Head(toArm[t])} \cup ToSet(toArm'[t])
            BY <3>1, OneOrAnother
        <3> QED BY <2>1, <2>2, <3>1, <3>2 DEF Rearms
    <2>3. CASE u = t /\ ~flag[Head(toArm[u])]
        <3>1. toArm' = toArm
            BY <1>7, <2>3 DEF Swap
        <3>2. toArm[t] \in Seq(Feeds) /\ toArm[t] # <<>>
            BY <1>0, <1>7, <2>3 DEF Swap, TypeOK
        <3> QED BY <2>1, <2>3, <3>1 DEF Rearms
    <2>4. CASE u # t
        <3>1. at'[t] = at[t] /\ toArm'[t] = toArm[t]
            BY <1>0, <1>7, <2>4 DEF Swap, ArmsNext, TypeOK
        <3> QED BY <2>1, <2>4, <3>1, <1>2
    <2> QED BY <2>2, <2>3, <2>4
<1>8. ASSUME NEW u \in Threads, Subscribe(u) \/ SubscribeFails(u) PROVE Rearms(t)'
    <2>1. toRead' = toRead /\ unarmed' = unarmed
        BY <1>8 DEF Subscribe, SubscribeFails
    <2>2. CASE u = t
        <3>1. /\ toArm[t] \in Seq(Feeds) /\ toArm[t] # <<>> /\ toArm'[t] = Tail(toArm[t])
              /\ at[t] = "subscribe" /\ at'[t] = "in"
            BY <1>0, <1>8, <2>2 DEF Subscribe, SubscribeFails, ArmsNext, TypeOK
        <3>2. ToSet(toArm[t]) \subseteq {Head(toArm[t])} \cup ToSet(toArm'[t])
            BY <3>1, OneOrAnother
        <3> QED BY <2>1, <3>1, <3>2 DEF Rearms
    <2>3. CASE u # t
        <3>1. at'[t] = at[t] /\ toArm'[t] = toArm[t]
            BY <1>0, <1>8, <2>3 DEF Subscribe, SubscribeFails, ArmsNext, TypeOK
        <3> QED BY <2>1, <2>3, <3>1, <1>2
    <2> QED BY <2>2, <2>3
<1>9. ASSUME NEW u \in Threads, Return(u) PROVE Rearms(t)'
    <2>1. toArm' = toArm /\ toRead' = toRead
        BY <1>9 DEF Return
    <2>2. unarmed'[t] \subseteq unarmed[t] /\ (at'[t] = "idle" \/ at'[t] = at[t])
        BY <1>0, <1>9 DEF Return, TypeOK
    <2> QED BY <2>1, <2>2 DEF Rearms
<1>10. CASE UNCHANGED vars
    BY <1>1, <1>10 DEF vars, calls
<1> QED
    BY <1>3, <1>4, <1>5, <1>6, <1>7, <1>8, <1>9, <1>10 DEF Next, Goes

\* ReadsRearm of the other views alone.
OthersRearm ==
    \A t \in Views :
        (Shows[t] \notin LeavesToStartup /\ at[t] = "in" /\ toArm[t] = <<>> /\ toRead[t] # <<>>)
            => Head(toRead[t]) \cap unarmed[t] = {}

(* glue.rs:322 is true of every view but those that list tokens or history: what ended    *)
(* is armed again, or somebody tries, before its owner is asked, whatever the other      *)
(* views show and whatever fails and ends meanwhile, for any views, feeds and faults.     *)
THEOREM PagesRearm == Spec => []OthersRearm
<1> DEFINE J == \A t \in Views : Shows[t] \notin LeavesToStartup => Rearms(t)
<1>1. TypeOK /\ J => OthersRearm
    <2> SUFFICES ASSUME TypeOK, J, NEW t \in Views, Shows[t] \notin LeavesToStartup,
                        at[t] = "in", toArm[t] = <<>>, toRead[t] # <<>>
                 PROVE  Head(toRead[t]) \cap unarmed[t] = {}
        BY DEF OthersRearm
    <2>1. toRead[t] \in Seq(SUBSET FeedNames)
        BY DEF TypeOK, Threads
    <2>2. Head(toRead[t]) \in ToSet(toRead[t])
        BY <2>1, OneOrAnother
    <2>3. ToSet(toArm[t]) = {}
        BY DEF ToSet
    <2> QED BY <2>2, <2>3 DEF Rearms
<1>2. Init => J
    BY DEF Init, Rearms, Threads
<1>3. TypeOK /\ J /\ [Next]_vars => J'
    BY RearmsStep
<1>4. FeedsInv => TypeOK
    BY DEF FeedsInv
<1> HIDE DEF J
<1> QED BY <1>1, <1>2, <1>3, <1>4, FeedsInvInductive, PTL DEF Spec

(* So where no view lists tokens or history, as on the account and network pages,        *)
(* ReadsRearm holds as it stands.                                                         *)
THEOREM ReadsRearmTheirFeeds ==
    ASSUME \A t \in Views : Shows[t] \notin LeavesToStartup
    PROVE  Spec => []ReadsRearm
<1>1. OthersRearm => ReadsRearm
    BY DEF OthersRearm, ReadsRearm
<1> QED BY <1>1, PagesRearm, PTL

================================================================================
