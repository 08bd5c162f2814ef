--------------------------- MODULE ProfileKeys_proofs ---------------------------
(* What holds of ProfileKeys for every set of callers, addresses and names, and  *)
(* every bound.                                                                   *)
EXTENDS ProfileKeys, FiniteSetTheorems, TLAPS

--------------------------------------------------------------------------------
(* Files and books.                                                               *)

LEMMA VaultFacts ==
    /\ First \in Vaults /\ Last \in Vaults
    /\ Vaults \subseteq StoreNames
    /\ \A v \in Vaults : v # First => v = Last
    /\ \A v \in Vaults : v # Last => v = First
    /\ "contacts" \in Vaults => First = "contacts"
    /\ "settings" \in Vaults => Last = "settings"
BY VaultsAreStores DEF First, Last, StoreNames

LEMMA EmptyBookIsBook == EmptyBook \in Books
<1>1. Entries(EmptyBook) = {}
  BY DEF Entries, EmptyBook
<1>2. Cardinality({}) = 0
  BY FS_EmptySet
<1>. QED
  BY <1>1, <1>2, MaxContactsIsNat DEF EmptyBook, Books

LEMMA DefaultIsContents == \A v \in StoreNames : Default(v) \in Contents(v)
BY EmptyBookIsBook DEF Default, Contents, Orders, StoreNames

LEMMA EntriesFinite ==
    ASSUME NEW b
    PROVE  IsFiniteSet(Entries(b)) /\ Cardinality(Entries(b)) \in Nat
<1>1. Entries(b) \subseteq Addresses
  BY DEF Entries
<1>. QED
  BY <1>1, AddressesAreFinite, FS_Subset, FS_CardinalityType

(* A book that has room for an address is a book once it is saved.                *)
LEMMA SavedIsBook ==
    ASSUME NEW b \in Books, NEW a \in Addresses, NEW n \in Names, Fits(b, a)
    PROVE  Saved(b, a, n) \in Books
<1>. DEFINE c == Saved(b, a, n)
<1>1. c \in [Addresses -> Names \cup {Absent}]
  BY DEF Books, Saved
<1>2. Entries(c) = Entries(b) \cup {a}
  BY AbsentIsNoName DEF Books, Saved, Entries
<1>3. Cardinality(Entries(c)) <= MaxContacts
  <2>1. CASE a \in Entries(b)
    <3>1. Entries(c) = Entries(b)
      BY <1>2, <2>1
    <3>. QED
      BY <3>1 DEF Books
  <2>2. CASE a \notin Entries(b)
    <3>1. Cardinality(Entries(b)) < MaxContacts
      BY <2>2 DEF Fits
    <3>2. Cardinality(Entries(b) \cup {a}) = Cardinality(Entries(b)) + 1
      BY <2>2, EntriesFinite, FS_AddElement
    <3>3. Cardinality(Entries(b)) \in Nat
      BY EntriesFinite
    <3>. QED
      BY <1>2, <3>1, <3>2, <3>3, MaxContactsIsNat
  <2>. QED
    BY <2>1, <2>2
<1>. QED
  BY <1>1, <1>3 DEF Books

LEMMA ForgottenIsBook ==
    ASSUME NEW b \in Books, NEW a \in Addresses
    PROVE  Forgotten(b, a) \in Books
<1>. DEFINE c == Forgotten(b, a)
<1>1. c \in [Addresses -> Names \cup {Absent}]
  BY DEF Books, Forgotten
<1>2. Entries(c) \subseteq Entries(b)
  BY DEF Books, Forgotten, Entries
<1>3. Cardinality(Entries(c)) <= Cardinality(Entries(b))
  BY <1>2, EntriesFinite, FS_Subset
<1>4. Cardinality(Entries(c)) \in Nat /\ Cardinality(Entries(b)) \in Nat
  BY EntriesFinite
<1>5. Cardinality(Entries(b)) <= MaxContacts
  BY DEF Books
<1>. QED
  BY <1>1, <1>3, <1>4, <1>5, MaxContactsIsNat DEF Books

LEMMA FileFacts ==
    ASSUME NEW v \in StoreNames, NEW f \in Files(v)
    PROVE  /\ f.kind \in FileKinds
           /\ f.gen \in Generations \cup {NoKey}
           /\ f.data \in Contents(v)
           /\ f.kind = "box" => f.gen \in Generations
BY DefaultIsContents DEF Files, NoFile, Junk, Foreign, Box, FileKinds

LEMMA NewFiles ==
    ASSUME NEW v \in StoreNames
    PROVE  /\ NoFile(v) \in Files(v)
           /\ \A g \in Generations, d \in Contents(v) : Box(g, d) \in Files(v)
BY DEF Files

--------------------------------------------------------------------------------
(* Type correctness, one lemma per group of actions. An action that leaves a     *)
(* group of variables alone leaves its types alone.                               *)

LEMMA Kept ==
    ASSUME TypeOK
    PROVE  /\ UNCHANGED managerVars => ManagerTypeOK'
           /\ UNCHANGED feedVars => FeedTypeOK'
           /\ UNCHANGED <<work, roundVars>> => RoundTypeOK'
           /\ UNCHANGED vaultVars => VaultTypeOK'
           /\ UNCHANGED threadVars => ThreadTypeOK'
           /\ UNCHANGED <<historyVars, crashes>> => HistoryTypeOK'
<1>1. UNCHANGED managerVars => ManagerTypeOK'
  BY DEF TypeOK, ManagerTypeOK, managerVars
<1>2. UNCHANGED feedVars => FeedTypeOK'
  BY DEF TypeOK, FeedTypeOK, feedVars
<1>3. UNCHANGED <<work, roundVars>> => RoundTypeOK'
  BY DEF TypeOK, RoundTypeOK, roundVars
<1>4. UNCHANGED vaultVars => VaultTypeOK'
  BY DEF TypeOK, VaultTypeOK, vaultVars
<1>5. UNCHANGED threadVars => ThreadTypeOK'
  BY DEF TypeOK, ThreadTypeOK, threadVars
<1>6. UNCHANGED <<historyVars, crashes>> => HistoryTypeOK'
  BY DEF TypeOK, HistoryTypeOK, historyVars
<1>. QED
  BY <1>1, <1>2, <1>3, <1>4, <1>5, <1>6

LEMMA TypeInit == Init => TypeOK
<1>. SUFFICES ASSUME Init PROVE TypeOK
  OBVIOUS
<1>1. ManagerTypeOK
  BY DEF Init, ManagerTypeOK
<1>2. FeedTypeOK
  BY BoundsAreNat DEF Init, FeedTypeOK
<1>3. RoundTypeOK
  BY VaultFacts DEF Init, RoundTypeOK
<1>4. VaultTypeOK
  <2>1. held \in [Vaults -> Generations \cup {NoKey}]
    BY DEF Init
  <2>2. DOMAIN file = Vaults /\ \A v \in Vaults : file[v] \in Files(v)
    BY VaultsAreStores DEF Init, OnDisk, StoreNames
  <2>. QED
    BY <2>1, <2>2 DEF VaultTypeOK
<1>5. ThreadTypeOK
  BY DEF Init, ThreadTypeOK, Feeds
<1>6. HistoryTypeOK
  <2>1. crashes \in 0 .. MaxCrashes
    BY BoundsAreNat DEF Init
  <2>2. unsaid \in BOOLEAN
    BY DEF Init
  <2>3. report \in [Vaults -> {"ok", "refused", "unsealed"}]
    BY DEF Init
  <2>. QED
    BY <2>1, <2>2, <2>3 DEF HistoryTypeOK
<1>. QED
  BY <1>1, <1>2, <1>3, <1>4, <1>5, <1>6 DEF TypeOK

LEMMA TypeManager ==
    ASSUME TypeOK, Manager
    PROVE  TypeOK'
<1>1. /\ UNCHANGED <<flag, listener, work, roundVars, vaultVars, threadVars>>
      /\ UNCHANGED <<historyVars, crashes>>
  BY DEF Manager
<1>2. pending' \in [Feeds -> 0 .. MaxPending]
  <2>1. PICK f \in Feeds : Announce(f)
    BY DEF Manager, Unlock, Rotate, LockAll, LockSome, Feeds
  <2>. QED
    BY <2>1, BoundsAreNat DEF Announce, TypeOK, FeedTypeOK
<1>3. FeedTypeOK'
  BY <1>1, <1>2 DEF TypeOK, FeedTypeOK
<1>4. unlocked' \in BOOLEAN
  BY DEF Manager, Unlock, Rotate, LockAll, LockSome, managerVars, TypeOK,
         ManagerTypeOK
<1>5. generation' \in Generations
  <2>1. generation' = generation \/ (generation < MaxGeneration /\ generation' = generation + 1)
    BY DEF Manager, Unlock, Rotate, LockAll, LockSome, managerVars
  <2>2. generation \in Generations
    BY DEF TypeOK, ManagerTypeOK
  <2>. QED
    BY <2>1, <2>2, BoundsAreNat DEF Generations
<1>6. ManagerTypeOK'
  BY <1>4, <1>5 DEF ManagerTypeOK
<1>. QED
  BY <1>1, <1>3, <1>6, Kept DEF TypeOK

LEMMA TypeFeeds ==
    ASSUME TypeOK, NEW f \in Feeds, Deliver(f) \/ FeedEnds(f) \/ ReleaseFlag(f)
    PROVE  TypeOK'
<1>1. /\ UNCHANGED <<managerVars, roundVars, vaultVars, threadVars>>
      /\ UNCHANGED <<historyVars, crashes>>
  BY DEF Deliver, FeedEnds, ReleaseFlag
<1>2. pending' \in [Feeds -> 0 .. MaxPending]
  BY BoundsAreNat DEF Deliver, FeedEnds, ReleaseFlag, TypeOK, FeedTypeOK
<1>3. /\ flag' \in [Feeds -> BOOLEAN]
      /\ listener' \in [Feeds -> {"none", "on", "ended"}]
  BY DEF Deliver, FeedEnds, ReleaseFlag, TypeOK, FeedTypeOK
<1>4. FeedTypeOK'
  BY <1>2, <1>3 DEF FeedTypeOK
<1>5. work' \in SUBSET {"ask", "lock"}
  BY DEF Deliver, FeedEnds, ReleaseFlag, WorkOf, TypeOK, RoundTypeOK
<1>6. RoundTypeOK'
  BY <1>1, <1>5 DEF TypeOK, RoundTypeOK, roundVars
<1>. QED
  BY <1>1, <1>4, <1>6, Kept DEF TypeOK

LEMMA TypeRest ==
    ASSUME Rest, work' \in SUBSET {"ask", "lock"}
    PROVE  RoundTypeOK'
BY VaultFacts DEF Rest, RoundTypeOK

LEMMA TypeGoesOn ==
    ASSUME TypeOK, NEW m \in BOOLEAN, RoundGoesOn(m), UNCHANGED work
    PROVE  RoundTypeOK'
<1>1. CASE Rest
  BY <1>1, TypeRest DEF TypeOK, RoundTypeOK
<1>2. CASE ~ Rest
  <2>1. /\ stage' \in {"ask", "emit"}
        /\ scope' \in Vaults
        /\ current' = NoKey /\ boxKey' = NoKey
    BY <1>2, VaultFacts DEF RoundGoesOn, TypeOK, RoundTypeOK
  <2>2. moved' \in BOOLEAN /\ locking' \in BOOLEAN
    BY <1>2 DEF RoundGoesOn, TypeOK, RoundTypeOK
  <2>. QED
    BY <2>1, <2>2 DEF TypeOK, RoundTypeOK
<1>. QED
  BY <1>1, <1>2

LEMMA TypeReport ==
    ASSUME TypeOK, NEW r \in {"ok", "refused", "unsealed"}, Report(r)
    PROVE  report' \in [Vaults -> {"ok", "refused", "unsealed"}]
BY DEF TypeOK, HistoryTypeOK, Report

LEMMA TypeTakeKey ==
    ASSUME TypeOK, TakeKey, file' = file
    PROVE  VaultTypeOK' /\ RoundTypeOK'
<1>1. VaultTypeOK'
  BY DEF TakeKey, TypeOK, VaultTypeOK, RoundTypeOK
<1>2. (held[scope] # current) \in BOOLEAN
  OBVIOUS
<1>3. RoundTypeOK'
  BY <1>2, TypeGoesOn DEF TakeKey
<1>. QED
  BY <1>1, <1>3

LEMMA TypeWorker ==
    ASSUME TypeOK, Worker
    PROVE  TypeOK'
<1>1. /\ UNCHANGED <<managerVars, feedVars, threadVars, crashes>>
  BY DEF Worker, Take, Close, AnswerCurrent, NoAnswer, HearLocked, HearKey,
         AnswerBox, AnswerBoxLocked, UnlockAsIs, UnlockSealingAgain,
         UnlockUnsealed, TakeKey, Emit
<1>2. SUFFICES RoundTypeOK' /\ VaultTypeOK' /\ HistoryTypeOK'
  BY <1>1, Kept DEF TypeOK
<1>3. unsaid' \in BOOLEAN /\ crashes' \in 0 .. MaxCrashes
  <2>1. unsaid' \in BOOLEAN
    BY DEF Worker, Take, Close, AnswerCurrent, NoAnswer, HearLocked, HearKey,
           AnswerBox, AnswerBoxLocked, UnlockAsIs, UnlockSealingAgain,
           UnlockUnsealed, TakeKey, Emit, historyVars, TypeOK, HistoryTypeOK
  <2>. QED
    BY <2>1, <1>1 DEF TypeOK, HistoryTypeOK
<1>4. report' \in [Vaults -> {"ok", "refused", "unsealed"}]
  <2>1. report' = report \/ \E r \in {"ok", "refused", "unsealed"} : Report(r)
    BY DEF Worker, Take, Close, AnswerCurrent, NoAnswer, HearLocked, HearKey,
           AnswerBox, AnswerBoxLocked, UnlockAsIs, UnlockSealingAgain,
           UnlockUnsealed, Emit, historyVars
  <2>. QED
    BY <2>1, TypeReport DEF TypeOK, HistoryTypeOK
<1>5. HistoryTypeOK'
  BY <1>3, <1>4 DEF HistoryTypeOK
<1>6. CASE Take
  <2>1. /\ work' \in SUBSET {"ask", "lock"} /\ stage' \in {"close", "ask"}
        /\ UNCHANGED <<scope, moved, current, boxKey>>
        /\ UNCHANGED vaultVars
    BY <1>6 DEF Take
  <2>2. locking' \in BOOLEAN
    BY <1>6 DEF Take
  <2>3. RoundTypeOK'
    BY <2>1, <2>2 DEF TypeOK, RoundTypeOK
  <2>. QED
    BY <2>1, <2>3, <1>5, Kept
<1>7. CASE Close
  <2>1. VaultTypeOK'
    BY <1>7 DEF Close, TypeOK, VaultTypeOK, RoundTypeOK
  <2>2. /\ stage' \in {"close", "ask"} /\ scope' \in Vaults
        /\ UNCHANGED <<work, locking, current, boxKey>>
    BY <1>7, VaultFacts DEF Close
  <2>3. moved' \in BOOLEAN
    BY <1>7 DEF Close, TypeOK, RoundTypeOK
  <2>4. RoundTypeOK'
    BY <2>2, <2>3 DEF TypeOK, RoundTypeOK
  <2>. QED
    BY <2>1, <2>4, <1>5
<1>8. CASE AnswerCurrent
  <2>1. /\ UNCHANGED <<work, scope, moved, locking, boxKey, vaultVars>>
        /\ stage' = "hear" /\ current' \in {generation, NoKey}
    BY <1>8 DEF AnswerCurrent
  <2>2. generation \in Generations
    BY DEF TypeOK, ManagerTypeOK
  <2>3. RoundTypeOK'
    BY <2>1, <2>2 DEF TypeOK, RoundTypeOK
  <2>. QED
    BY <2>1, <2>3, <1>5, Kept
<1>9. CASE NoAnswer
  BY <1>9, <1>5, TypeGoesOn, Kept DEF NoAnswer
<1>10. CASE HearLocked
  <2>1. VaultTypeOK'
    BY <1>10 DEF HearLocked, TypeOK, VaultTypeOK, RoundTypeOK
  <2>2. IsOpen(scope) \in BOOLEAN
    BY DEF IsOpen
  <2>. QED
    BY <1>10, <2>1, <2>2, <1>5, TypeGoesOn DEF HearLocked
<1>11. CASE HearKey
  <2>1. /\ UNCHANGED <<work, scope, moved, locking, current, vaultVars>>
        /\ stage' \in {"askBox", "unlock"} /\ current # NoKey
        /\ boxKey' \in {Wanted(scope), current}
    BY <1>11 DEF HearKey
  <2>2. Wanted(scope) \in Generations \cup {NoKey}
    BY FileFacts, VaultFacts DEF Wanted, TypeOK, VaultTypeOK, RoundTypeOK
  <2>3. RoundTypeOK'
    BY <2>1, <2>2 DEF TypeOK, RoundTypeOK
  <2>. QED
    BY <2>1, <2>3, <1>5, Kept
<1>12. CASE AnswerBox
  <2>1. /\ UNCHANGED <<work, scope, moved, locking, current, boxKey, vaultVars>>
        /\ stage' = "unlock" /\ stage = "askBox"
    BY <1>12 DEF AnswerBox
  <2>2. RoundTypeOK'
    BY <2>1 DEF TypeOK, RoundTypeOK
  <2>. QED
    BY <2>1, <2>2, <1>5, Kept
<1>13. CASE AnswerBoxLocked
  BY <1>13, <1>5, TypeGoesOn, Kept DEF AnswerBoxLocked
<1>14. CASE UnlockAsIs
  BY <1>14, <1>5, TypeTakeKey DEF UnlockAsIs
<1>15. CASE UnlockSealingAgain
  <2>1. RoundTypeOK'
    <3>1. (held[scope] # current) \in BOOLEAN
      OBVIOUS
    <3>. QED
      BY <1>15, <3>1, TypeGoesOn DEF UnlockSealingAgain, TakeKey
  <2>2. scope \in Vaults /\ scope \in StoreNames /\ current \in Generations
    BY <1>15, VaultFacts DEF UnlockSealingAgain, TakeKey, TypeOK, RoundTypeOK
  <2>3. Box(current, file[scope].data) \in Files(scope)
    BY <2>2, FileFacts, NewFiles DEF TypeOK, VaultTypeOK
  <2>4. VaultTypeOK'
    BY <1>15, <2>2, <2>3
    DEF UnlockSealingAgain, TakeKey, TypeOK, VaultTypeOK
  <2>. QED
    BY <2>1, <2>4, <1>5
<1>16. CASE UnlockUnsealed
  BY <1>16, <1>5, TypeTakeKey DEF UnlockUnsealed
<1>17. CASE Emit
  BY <1>17, <1>5, TypeRest, Kept DEF Emit, TypeOK, RoundTypeOK
<1>. QED
  BY <1>6, <1>7, <1>8, <1>9, <1>10, <1>11, <1>12, <1>13, <1>14, <1>15, <1>16,
     <1>17
  DEF Worker

LEMMA TypeNextFeed ==
    ASSUME TypeOK, NEW t \in Threads, NEW tells \in BOOLEAN,
           NextFeed(t, tells) \/ AfterFeeds(t, tells)
    PROVE  /\ at' \in [Threads ->
                  {"idle", "swap", "subscribe", "tell", "op", "repair", "say"}]
           /\ feed' \in [Threads -> Feeds]
BY DEF NextFeed, AfterFeeds, TypeOK, ThreadTypeOK, Feeds

LEMMA TypeSwapFlag ==
    ASSUME TypeOK, NEW t \in Threads, SwapFlag(t)
    PROVE  TypeOK'
<1>1. /\ UNCHANGED <<managerVars, work, roundVars, vaultVars, historyVars, crashes>>
      /\ UNCHANGED <<listener, pending, armed>>
  BY DEF SwapFlag
<1>2. feed[t] \in Feeds /\ armed[t] \in BOOLEAN
  BY DEF TypeOK, ThreadTypeOK
<1>3. flag' \in [Feeds -> BOOLEAN]
  BY <1>2 DEF SwapFlag, TypeOK, FeedTypeOK
<1>4. FeedTypeOK'
  BY <1>1, <1>3 DEF TypeOK, FeedTypeOK
<1>5. ThreadTypeOK'
  <2>1. CASE flag[feed[t]]
    <3>1. NextFeed(t, armed[t])
      BY <2>1 DEF SwapFlag
    <3>. QED
      BY <3>1, <1>1, <1>2, TypeNextFeed DEF TypeOK, ThreadTypeOK
  <2>2. CASE ~ flag[feed[t]]
    BY <2>2, <1>1 DEF SwapFlag, TypeOK, ThreadTypeOK
  <2>. QED
    BY <2>1, <2>2
<1>. QED
  BY <1>1, <1>4, <1>5, Kept DEF TypeOK

(* Whatever a dispatch thread writes, it writes a file of that vault.             *)
LEMMA TypeWritten ==
    ASSUME TypeOK, RepairHoldsKey, NEW t \in Threads,
           \/ SaveContact(t) \/ ForgetContact(t)
           \/ SetTokenSort(t) \/ Quarantine(t) \/ Repair(t)
    PROVE  /\ DOMAIN file' = Vaults
           /\ \A v \in Vaults : file'[v] \in Files(v)
<1>1. \A v \in Vaults : IsOpen(v) => held[v] \in Generations
  BY DEF IsOpen, TypeOK, VaultTypeOK
<1>2. ASSUME NEW v \in StoreNames, NEW f, file' = [file EXCEPT ![v] = f],
             v \in Vaults => f \in Files(v)
      PROVE  DOMAIN file' = Vaults /\ \A w \in Vaults : file'[w] \in Files(w)
  BY <1>2 DEF TypeOK, VaultTypeOK
<1>3. "contacts" \in StoreNames /\ "settings" \in StoreNames
  BY DEF StoreNames
<1>4. CASE SaveContact(t)
  <2>1. PICK a \in Addresses, n \in Names :
            /\ Fits(file["contacts"].data, a)
            /\ WriteBook(t, Saved(file["contacts"].data, a, n))
    BY <1>4 DEF SaveContact
  <2>. DEFINE f == Box(held["contacts"], Saved(file["contacts"].data, a, n))
  <2>2. ASSUME "contacts" \in Vaults PROVE f \in Files("contacts")
    <3>1. file["contacts"].data \in Books
      BY <2>2, <1>3, FileFacts DEF TypeOK, VaultTypeOK, Contents
    <3>2. Saved(file["contacts"].data, a, n) \in Contents("contacts")
      BY <3>1, <2>1, SavedIsBook DEF Contents
    <3>3. held["contacts"] \in Generations
      BY <2>2, <1>1, <1>4 DEF SaveContact, Readable
    <3>. QED
      BY <3>2, <3>3, <1>3, NewFiles
  <2>3. file' = [file EXCEPT !["contacts"] = f]
    BY <2>1 DEF WriteBook
  <2>. HIDE DEF f
  <2>. QED
    BY <2>2, <2>3, <1>2, <1>3
<1>5. CASE ForgetContact(t)
  <2>1. PICK a \in Addresses :
            WriteBook(t, Forgotten(file["contacts"].data, a))
    BY <1>5 DEF ForgetContact
  <2>. DEFINE f == Box(held["contacts"], Forgotten(file["contacts"].data, a))
  <2>2. ASSUME "contacts" \in Vaults PROVE f \in Files("contacts")
    <3>1. file["contacts"].data \in Books
      BY <2>2, <1>3, FileFacts DEF TypeOK, VaultTypeOK, Contents
    <3>2. Forgotten(file["contacts"].data, a) \in Contents("contacts")
      BY <3>1, ForgottenIsBook DEF Contents
    <3>3. held["contacts"] \in Generations
      BY <2>2, <1>1, <1>5 DEF ForgetContact, Readable
    <3>. QED
      BY <3>2, <3>3, <1>3, NewFiles
  <2>3. file' = [file EXCEPT !["contacts"] = f]
    BY <2>1 DEF WriteBook
  <2>. HIDE DEF f
  <2>. QED
    BY <2>2, <2>3, <1>2, <1>3
<1>6. CASE SetTokenSort(t) \/ Repair(t)
  <2>1. PICK o \in Orders : WriteSettings(o)
    BY <1>6 DEF SetTokenSort, Repair
  <2>. DEFINE f == Box(held["settings"], o)
  <2>2. ASSUME "settings" \in Vaults PROVE f \in Files("settings")
    <3>1. IsOpen("settings")
      BY <1>6 DEF SetTokenSort, Repair, Readable, RepairHoldsKey
    <3>. QED
      BY <3>1, <2>2, <1>1, <1>3, NewFiles DEF Contents
  <2>3. file' = [file EXCEPT !["settings"] = f]
    BY <2>1 DEF WriteSettings
  <2>. HIDE DEF f
  <2>. QED
    BY <2>2, <2>3, <1>2, <1>3
<1>7. CASE Quarantine(t)
  BY <1>7, <1>2, <1>3, NewFiles DEF Quarantine
<1>. QED
  BY <1>4, <1>5, <1>6, <1>7

LEMMA TypeThreads ==
    ASSUME TypeOK, RepairHoldsKey, NEW t \in Threads, Begin(t) \/ Goes(t)
    PROVE  TypeOK'
<1>. DEFINE Places == {"idle", "swap", "subscribe", "tell", "op", "repair", "say"}
<1>1. CASE Begin(t) \/ Swap(t)
  BY <1>1, TypeSwapFlag DEF Begin, Swap
<1>2. CASE Subscribe(t)
  <2>1. /\ UNCHANGED <<managerVars, work, roundVars, vaultVars, historyVars, crashes>>
        /\ UNCHANGED <<flag, pending>>
    BY <1>2 DEF Subscribe
  <2>2. armed' \in [Threads -> BOOLEAN]
    BY <1>2 DEF Subscribe, TypeOK, ThreadTypeOK
  <2>3. FeedTypeOK'
    BY <1>2, <2>1 DEF Subscribe, TypeOK, FeedTypeOK, ThreadTypeOK
  <2>4. ThreadTypeOK'
    BY <1>2, <2>2, TypeNextFeed DEF Subscribe, ThreadTypeOK
  <2>. QED
    BY <2>1, <2>3, <2>4, Kept DEF TypeOK
<1>3. CASE SubscribeFails(t)
  <2>1. /\ UNCHANGED <<managerVars, work, roundVars, vaultVars, historyVars, crashes>>
        /\ UNCHANGED <<listener, pending, armed>>
    BY <1>3 DEF SubscribeFails
  <2>2. FeedTypeOK'
    BY <1>3, <2>1 DEF SubscribeFails, TypeOK, FeedTypeOK, ThreadTypeOK
  <2>3. armed[t] \in BOOLEAN
    BY DEF TypeOK, ThreadTypeOK
  <2>4. ThreadTypeOK'
    BY <1>3, <2>1, <2>3, TypeNextFeed
    DEF SubscribeFails, TypeOK, ThreadTypeOK
  <2>. QED
    BY <2>1, <2>2, <2>4, Kept DEF TypeOK
<1>4. CASE Tell(t)
  <2>1. /\ UNCHANGED <<managerVars, feedVars, vaultVars, historyVars, crashes>>
        /\ UNCHANGED roundVars
        /\ work' = work \cup {"ask"}
    BY <1>4 DEF Tell
  <2>2. RoundTypeOK'
    BY <2>1 DEF TypeOK, RoundTypeOK, roundVars
  <2>3. armed' \in [Threads -> BOOLEAN]
    BY <1>4 DEF Tell, TypeOK, ThreadTypeOK
  <2>4. ThreadTypeOK'
    BY <1>4, <2>3, TypeNextFeed DEF Tell, ThreadTypeOK
  <2>. QED
    BY <2>1, <2>2, <2>4, Kept DEF TypeOK
<1>5. CASE \/ Reply(t) \/ SaveContact(t) \/ ForgetContact(t)
          \/ SetTokenSort(t) \/ Quarantine(t) \/ Repair(t) \/ RepairFails(t)
          \/ Say(t)
  <2>. USE DEF Reply, SaveContact, ForgetContact, SetTokenSort, Quarantine,
               Repair, RepairFails, Say, Return, WriteBook, WriteSettings
  <2>1. /\ UNCHANGED <<managerVars, feedVars, work, roundVars, feed, armed, crashes>>
        /\ UNCHANGED <<held, report>>
    BY <1>5 DEF vaultVars, historyVars
  <2>2. at' \in [Threads -> Places]
    <3>1. \E p \in Places : at' = [at EXCEPT ![t] = p]
      BY <1>5
    <3>. QED
      BY <3>1 DEF TypeOK, ThreadTypeOK
  <2>3. ThreadTypeOK'
    BY <2>1, <2>2 DEF TypeOK, ThreadTypeOK
  <2>4. unsaid' \in BOOLEAN
    BY <1>5 DEF historyVars, TypeOK, HistoryTypeOK
  <2>5. HistoryTypeOK'
    BY <2>1, <2>4 DEF TypeOK, HistoryTypeOK
  <2>6. VaultTypeOK'
    <3>1. CASE UNCHANGED file
      BY <2>1, <3>1 DEF TypeOK, VaultTypeOK
    <3>2. CASE \/ SaveContact(t) \/ ForgetContact(t)
               \/ SetTokenSort(t) \/ Quarantine(t) \/ Repair(t)
      BY <3>2, <2>1, TypeWritten DEF TypeOK, VaultTypeOK
    <3>. QED
      BY <1>5, <3>1, <3>2 DEF vaultVars
  <2>. QED
    BY <2>1, <2>3, <2>5, <2>6, Kept DEF TypeOK
<1>. QED
  BY <1>1, <1>2, <1>3, <1>4, <1>5 DEF Goes

LEMMA TypeRestart ==
    ASSUME TypeOK, Restart
    PROVE  TypeOK'
<1>1. ManagerTypeOK'
  BY Kept DEF Restart
<1>2. FeedTypeOK'
  BY BoundsAreNat DEF Restart, FeedTypeOK
<1>3. RoundTypeOK'
  BY TypeRest DEF Restart
<1>4. VaultTypeOK'
  BY DEF Restart, TypeOK, VaultTypeOK
<1>5. ThreadTypeOK'
  BY DEF Restart, ThreadTypeOK, Feeds
<1>6. crashes' \in 0 .. MaxCrashes
  BY BoundsAreNat DEF Restart, TypeOK, HistoryTypeOK
<1>7. HistoryTypeOK'
  <2>1. unsaid' \in BOOLEAN
    BY DEF Restart
  <2>2. report' \in [Vaults -> {"ok", "refused", "unsealed"}]
    BY DEF Restart
  <2>. QED
    BY <1>6, <2>1, <2>2 DEF HistoryTypeOK
<1>. QED
  BY <1>1, <1>2, <1>3, <1>4, <1>5, <1>7 DEF TypeOK

(* No step takes the settings' key from a thread that is repairing the file.      *)
LEMMA RepairStep ==
    ASSUME TypeOK, RepairHoldsKey, [Next]_vars
    PROVE  RepairHoldsKey'
<1>. SUFFICES ASSUME NEW t \in Threads, at'[t] = "repair"
              PROVE  "settings" \in Vaults /\ IsOpen("settings")'
  BY DEF RepairHoldsKey
<1>1. CASE UNCHANGED <<at, held>>
  BY <1>1 DEF RepairHoldsKey, IsOpen
<1>2. CASE UNCHANGED vars \/ Manager
  BY <1>1, <1>2 DEF vars, threadVars, vaultVars, Manager
<1>3. CASE \E f \in Feeds : Deliver(f) \/ FeedEnds(f) \/ ReleaseFlag(f)
  BY <1>1, <1>3 DEF threadVars, vaultVars, Deliver, FeedEnds, ReleaseFlag
<1>4. CASE Worker
  <2>1. UNCHANGED at
    BY <1>4 DEF threadVars, Worker, Take, Close, AnswerCurrent, NoAnswer,
           HearLocked, HearKey, AnswerBox, AnswerBoxLocked, UnlockAsIs,
           UnlockSealingAgain, UnlockUnsealed, TakeKey, Emit
  <2>2. at[t] = "repair" /\ "settings" \in Vaults /\ IsOpen("settings")
    BY <2>1 DEF RepairHoldsKey
  <2>3. held' = held \/ (GateFree(scope) /\ \E k : held' = [held EXCEPT ![scope] = k])
    BY <1>4 DEF vaultVars, Worker, Take, Close, AnswerCurrent, NoAnswer,
           HearLocked, HearKey, AnswerBox, AnswerBoxLocked, UnlockAsIs,
           UnlockSealingAgain, UnlockUnsealed, TakeKey, Emit
  <2>4. GateFree(scope) => scope # "settings"
    BY <2>2 DEF GateFree
  <2>. QED
    BY <2>2, <2>3, <2>4 DEF TypeOK, VaultTypeOK, IsOpen
<1>5. ASSUME NEW u \in Threads, Begin(u) \/ Goes(u)
      PROVE  "settings" \in Vaults /\ IsOpen("settings")'
  <2>1. held' = held
    BY <1>5 DEF vaultVars, Begin, Goes, Swap, SwapFlag, Subscribe,
           SubscribeFails, Tell, Reply, SaveContact, ForgetContact, WriteBook,
           SetTokenSort, WriteSettings, Quarantine, Repair, RepairFails, Say
  <2>2. CASE Quarantine(u)
    BY <2>1, <2>2, RequestsAreServed DEF Quarantine, IsOpen
  <2>3. CASE ~ Quarantine(u)
    <3>1. \E p : p # "repair" /\ at' = [at EXCEPT ![u] = p]
      BY <1>5, <2>3
      DEF Begin, Goes, Swap, SwapFlag, Subscribe, SubscribeFails, Tell,
          NextFeed, AfterFeeds, Reply, SaveContact, ForgetContact, WriteBook,
          SetTokenSort, WriteSettings, Repair, RepairFails, Say, Return
    <3>2. at[t] = "repair"
      BY <3>1 DEF TypeOK, ThreadTypeOK
    <3>. QED
      BY <3>2, <2>1 DEF RepairHoldsKey, IsOpen
  <2>. QED
    BY <2>2, <2>3
<1>6. CASE Restart
  BY <1>6 DEF Restart
<1>. QED
  BY <1>2, <1>3, <1>4, <1>5, <1>6 DEF Next

LEMMA TypeStep ==
    ASSUME TypeOK, RepairHoldsKey, [Next]_vars
    PROVE  TypeOK'
<1>1. CASE UNCHANGED vars
  BY <1>1, Kept DEF vars, TypeOK
<1>2. CASE Restart
  BY <1>2, TypeRestart
<1>. QED
  BY <1>1, <1>2, TypeManager, TypeFeeds, TypeWorker, TypeThreads DEF Next

(* The types of ProfileKeys, and with them the gate: a thread that repairs the    *)
(* settings keeps their key until it has written them.                            *)
THEOREM TypeCorrect == Spec => [](TypeOK /\ RepairHoldsKey)
<1>1. Init => TypeOK /\ RepairHoldsKey
  BY TypeInit DEF Init, RepairHoldsKey
<1>2. TypeOK /\ RepairHoldsKey /\ [Next]_vars => (TypeOK /\ RepairHoldsKey)'
  BY TypeStep, RepairStep
<1>. QED
  BY <1>1, <1>2, PTL DEF Spec

--------------------------------------------------------------------------------
(* No lost wake-up. NoLostWakeUp is not inductive: an answer in hand may have    *)
(* been overtaken while the vault still holds the right key, and the step that   *)
(* takes it would then make the vault wrong. Settled(v) says of the key in hand  *)
(* what NoLostWakeUp says of the key held, and RoundShape where a round begins   *)
(* and ends.                                                                      *)

Excused == Deaf \/ AskComing

Settled(v) ==
    IF InHand(v) THEN current = Expected
    ELSE held[v] = Expected \/ report[v] = "refused"

WakeInv == \A v \in Vaults : Excused \/ WillAsk(v) \/ Settled(v)

RoundShape ==
    /\ stage = "recv" => scope = First
    /\ stage = "emit" => scope = Last

KeysInv == TypeOK /\ RepairHoldsKey /\ RoundShape /\ WakeInv

LEMMA ShapeGoesOn ==
    ASSUME NEW m, RoundGoesOn(m)
    PROVE  RoundShape'
BY VaultFacts DEF RoundGoesOn, Rest, RoundShape

LEMMA ShapeStep ==
    ASSUME RoundShape, [Next]_vars
    PROVE  RoundShape'
<1>1. CASE UNCHANGED roundVars
  BY <1>1 DEF roundVars, RoundShape
<1>2. CASE Worker
  <2>1. CASE \/ Take \/ Close \/ AnswerCurrent \/ HearKey \/ AnswerBox
    BY <2>1 DEF Take, Close, AnswerCurrent, HearKey, AnswerBox, RoundShape
  <2>2. CASE NoAnswer \/ HearLocked \/ AnswerBoxLocked \/ TakeKey
    BY <2>2, ShapeGoesOn DEF NoAnswer, HearLocked, AnswerBoxLocked, TakeKey
  <2>3. CASE Emit
    BY <2>3 DEF Emit, Rest, RoundShape
  <2>. QED
    BY <1>2, <2>1, <2>2, <2>3
    DEF Worker, UnlockAsIs, UnlockSealingAgain, UnlockUnsealed
<1>3. CASE Restart
  BY <1>3 DEF Restart, Rest, RoundShape
<1>4. Next => Worker \/ Restart \/ UNCHANGED roundVars
  BY DEF Next, Manager, Deliver, FeedEnds, ReleaseFlag, Begin, Goes, Swap,
         SwapFlag, Subscribe, SubscribeFails, Tell, Reply, SaveContact,
         ForgetContact, WriteBook, SetTokenSort, WriteSettings, Quarantine,
         Repair, RepairFails, Say
<1>. QED
  BY <1>1, <1>2, <1>3, <1>4 DEF vars

(* What the manager moves, it announces on the feed its move is about - or that   *)
(* feed is down.                                                                  *)
LEMMA WakeManager ==
    ASSUME KeysInv, Manager
    PROVE  WakeInv'
<1>1. UNCHANGED <<listener, work, roundVars, held, report, at, armed>>
  BY DEF Manager, vaultVars, threadVars, historyVars
<1>2. \A f \in Feeds : pending[f] \in 0 .. MaxPending
  BY DEF KeysInv, TypeOK, FeedTypeOK
<1>3. \A f \in Feeds : Announce(f) => listener[f] # "on" \/ pending'[f] > 0
  BY <1>2, BoundsAreNat DEF Announce, KeysInv, TypeOK, FeedTypeOK
<1>4. "changed" \in Feeds /\ "locked" \in Feeds
  BY DEF Feeds
<1>5. CASE Unlock \/ Rotate
  <2>1. Cause' = "changed" /\ Announce("changed")
    BY <1>5 DEF Unlock, Rotate, Cause
  <2>2. Excused'
    BY <2>1, <1>1, <1>3, <1>4 DEF Excused, Deaf, AskComing
  <2>. QED
    BY <2>2 DEF WakeInv
<1>6. CASE LockAll
  <2>1. Cause' = "locked" /\ Announce("locked")
    BY <1>6 DEF LockAll, Cause
  <2>2. Excused'
    BY <2>1, <1>1, <1>3, <1>4 DEF Excused, Deaf, AskComing
  <2>. QED
    BY <2>2 DEF WakeInv
<1>7. CASE LockSome
  <2>1. /\ UNCHANGED <<Cause, Expected>>
        /\ Cause \in Feeds
        /\ Announce("locked")
    BY <1>7 DEF LockSome, managerVars, Cause, Expected, Feeds
  <2>2. pending[Cause] > 0 => pending'[Cause] > 0
    BY <2>1, <1>2, <1>4, BoundsAreNat DEF Announce, KeysInv, TypeOK, FeedTypeOK
  <2>3. Excused => Excused'
    BY <2>1, <2>2, <1>1 DEF Excused, Deaf, AskComing, Telling
  <2>4. \A v \in Vaults : (WillAsk(v) => WillAsk(v)') /\ (Settled(v) => Settled(v)')
    BY <2>1, <1>1 DEF WillAsk, Settled, InHand, roundVars
  <2>. QED
    BY <2>3, <2>4 DEF WakeInv, KeysInv
<1>. QED
  BY <1>5, <1>6, <1>7 DEF Manager

LEMMA WakeFeeds ==
    ASSUME KeysInv, NEW f \in Feeds, Deliver(f) \/ FeedEnds(f) \/ ReleaseFlag(f)
    PROVE  WakeInv'
<1>1. UNCHANGED <<unlocked, generation, roundVars, held, report, at, armed>>
  BY DEF Deliver, FeedEnds, ReleaseFlag, managerVars, vaultVars, threadVars,
         historyVars
<1>2. UNCHANGED <<Cause, Expected>> /\ Cause \in Feeds
  BY <1>1 DEF Cause, Expected, Feeds
<1>3. \A v \in Vaults : (WillAsk(v) => WillAsk(v)') /\ (Settled(v) => Settled(v)')
  BY <1>1, <1>2 DEF WillAsk, Settled, InHand, roundVars
<1>4. Excused => Excused'
  <2>1. CASE Deliver(f)
    BY <2>1 DEF Deliver, Excused, AskComing
  <2>2. CASE FeedEnds(f) \/ ReleaseFlag(f)
    <3>1. UNCHANGED work
      BY <2>2 DEF FeedEnds, ReleaseFlag
    <3>2. CASE f = Cause
      BY <2>2, <3>2, <1>2
      DEF FeedEnds, ReleaseFlag, Excused, Deaf, KeysInv, TypeOK, FeedTypeOK
    <3>3. CASE f # Cause
      BY <2>2, <3>1, <3>3, <1>1, <1>2
      DEF FeedEnds, ReleaseFlag, Excused, Deaf, AskComing, Telling, KeysInv,
          TypeOK, FeedTypeOK
    <3>. QED
      BY <3>2, <3>3
  <2>. QED
    BY <2>1, <2>2
<1>. QED
  BY <1>3, <1>4 DEF WakeInv, KeysInv

(* The end of a refresh, whatever it did: the vault at hand is settled, and the   *)
(* next one is about to be asked for.                                             *)
LEMMA WakeGoesOn ==
    ASSUME KeysInv, NEW m, RoundGoesOn(m),
           stage \in {"ask", "hear", "askBox", "unlock"},
           UNCHANGED <<managerVars, feedVars, threadVars, work>>,
           Excused \/ held'[scope] = Expected \/ report'[scope] = "refused",
           \A v \in Vaults : v # scope => held'[v] = held[v] /\ report'[v] = report[v]
    PROVE  WakeInv'
<1>1. UNCHANGED Expected /\ (Excused => Excused')
  BY DEF Expected, Excused, Deaf, AskComing, Telling, Cause, managerVars,
         feedVars, threadVars
<1>2. scope \in Vaults
  BY DEF KeysInv, TypeOK, RoundTypeOK
<1>3. SUFFICES ASSUME NEW v \in Vaults, ~ Excused PROVE WillAsk(v)' \/ Settled(v)'
  BY <1>1 DEF WakeInv
<1>4. ~ InHand(v)'
  BY DEF RoundGoesOn, Rest, InHand
<1>5. CASE v = scope
  BY <1>1, <1>3, <1>4, <1>5 DEF Settled
<1>6. CASE v # scope /\ scope # Last
  BY <1>6, VaultFacts, <1>2 DEF RoundGoesOn, WillAsk
<1>7. CASE v # scope /\ scope = Last
  <2>1. ~ WillAsk(v) /\ ~ InHand(v)
    BY <1>7 DEF WillAsk, InHand
  <2>2. Settled(v)
    BY <2>1, <1>3 DEF KeysInv, WakeInv
  <2>. QED
    BY <2>1, <2>2, <1>1, <1>4, <1>7 DEF Settled
<1>. QED
  BY <1>5, <1>6, <1>7

LEMMA WakeTakeKey ==
    ASSUME KeysInv, TakeKey, NEW r, Report(r)
    PROVE  WakeInv'
<1>1. scope \in Vaults /\ InHand(scope) /\ ~ WillAsk(scope)
  BY DEF TakeKey, InHand, WillAsk, KeysInv, TypeOK, RoundTypeOK
<1>2. Excused \/ current = Expected
  BY <1>1 DEF KeysInv, WakeInv, Settled
<1>3. /\ held'[scope] = current
      /\ \A v \in Vaults : v # scope => held'[v] = held[v] /\ report'[v] = report[v]
  BY <1>1 DEF TakeKey, Report, KeysInv, TypeOK, VaultTypeOK, HistoryTypeOK
<1>. QED
  BY <1>2, <1>3, WakeGoesOn DEF TakeKey

LEMMA WakeWorker ==
    ASSUME KeysInv, Worker
    PROVE  WakeInv'
<1>1. scope \in Vaults
  BY DEF KeysInv, TypeOK, RoundTypeOK
<1>2. CASE Take
  <2>1. \A v \in Vaults : WillAsk(v)'
    BY <1>2, VaultFacts DEF Take, WillAsk, KeysInv, RoundShape
  <2>. QED
    BY <2>1 DEF WakeInv
<1>3. CASE Close
  <2>1. \A v \in Vaults : WillAsk(v)'
    BY <1>3, VaultFacts DEF Close, WillAsk
  <2>. QED
    BY <2>1 DEF WakeInv
<1>4. CASE AnswerCurrent \/ HearKey \/ AnswerBox
  <2>1. UNCHANGED <<managerVars, feedVars, threadVars, work, scope, held, report>>
    BY <1>4 DEF AnswerCurrent, HearKey, AnswerBox, vaultVars, historyVars
  <2>2. UNCHANGED Expected /\ (Excused => Excused')
    BY <2>1 DEF Expected, Excused, Deaf, AskComing, Telling, Cause,
                managerVars, feedVars, threadVars
  <2>3. ASSUME NEW v \in Vaults, v # scope, WillAsk(v) \/ Settled(v)
        PROVE  WillAsk(v)' \/ Settled(v)'
    BY <1>4, <2>1, <2>2, <2>3
    DEF AnswerCurrent, HearKey, AnswerBox, WillAsk, Settled, InHand
  <2>4. Excused \/ Settled(scope)'
    <3>1. CASE AnswerCurrent
      BY <3>1, <2>2 DEF AnswerCurrent, Settled, InHand, Expected, managerVars
    <3>2. CASE HearKey \/ AnswerBox
      <4>1. InHand(scope) /\ ~ WillAsk(scope) /\ InHand(scope)' /\ current' = current
        BY <3>2, <2>1 DEF HearKey, AnswerBox, InHand, WillAsk
      <4>2. Excused \/ current = Expected
        BY <4>1, <1>1 DEF KeysInv, WakeInv, Settled
      <4>. QED
        BY <4>1, <4>2, <2>1, <2>2 DEF Settled
    <3>. QED
      BY <1>4, <3>1, <3>2
  <2>5. ASSUME NEW v \in Vaults PROVE (Excused \/ WillAsk(v) \/ Settled(v))'
    <3>1. CASE v = scope
      BY <3>1, <2>1, <2>2, <2>4
    <3>2. CASE v # scope
      BY <3>2, <2>2, <2>3 DEF KeysInv, WakeInv
    <3>. QED
      BY <3>1, <3>2
  <2>. QED
    BY <2>5 DEF WakeInv
<1>5. CASE NoAnswer \/ AnswerBoxLocked
  <2>1. /\ report'[scope] = "refused"
        /\ held' = held
        /\ \A v \in Vaults : v # scope => report'[v] = report[v]
    BY <1>5, <1>1
    DEF NoAnswer, AnswerBoxLocked, Report, vaultVars, KeysInv, TypeOK,
        HistoryTypeOK
  <2>. QED
    BY <1>5, <2>1, WakeGoesOn DEF NoAnswer, AnswerBoxLocked
<1>6. CASE HearLocked
  <2>1. InHand(scope) /\ ~ WillAsk(scope)
    BY <1>6 DEF HearLocked, InHand, WillAsk
  <2>2. Excused \/ NoKey = Expected
    BY <1>6, <2>1, <1>1 DEF HearLocked, KeysInv, WakeInv, Settled
  <2>3. /\ held'[scope] = NoKey
        /\ \A v \in Vaults : v # scope => held'[v] = held[v] /\ report'[v] = report[v]
    BY <1>6, <1>1
    DEF HearLocked, Report, KeysInv, TypeOK, VaultTypeOK, HistoryTypeOK
  <2>. QED
    BY <1>6, <2>2, <2>3, WakeGoesOn DEF HearLocked
<1>7. CASE UnlockAsIs \/ UnlockSealingAgain \/ UnlockUnsealed
  BY <1>7, WakeTakeKey DEF UnlockAsIs, UnlockSealingAgain, UnlockUnsealed
<1>8. CASE Emit
  <2>1. UNCHANGED <<managerVars, feedVars, threadVars, work, held, report>>
    BY <1>8 DEF Emit, vaultVars
  <2>2. UNCHANGED Expected /\ (Excused => Excused')
    BY <2>1 DEF Expected, Excused, Deaf, AskComing, Telling, Cause,
                managerVars, feedVars, threadVars
  <2>3. \A v \in Vaults : ~ WillAsk(v) /\ ~ InHand(v) /\ ~ InHand(v)'
    BY <1>8 DEF Emit, Rest, WillAsk, InHand, KeysInv, RoundShape
  <2>. QED
    BY <2>1, <2>2, <2>3 DEF WakeInv, KeysInv, Settled
<1>. QED
  BY <1>2, <1>3, <1>4, <1>5, <1>6, <1>7, <1>8 DEF Worker

LEMMA WakeThreads ==
    ASSUME KeysInv, NEW t \in Threads, Begin(t) \/ Goes(t)
    PROVE  WakeInv'
<1>1. UNCHANGED <<unlocked, generation, pending, roundVars, held, report>>
  BY DEF Begin, Goes, Swap, SwapFlag, Subscribe, SubscribeFails, Tell, Reply,
         SaveContact, ForgetContact, WriteBook, SetTokenSort, WriteSettings,
         Quarantine, Repair, RepairFails, Say, managerVars, feedVars,
         vaultVars, historyVars
<1>2. UNCHANGED <<Cause, Expected>> /\ Cause \in Feeds
  BY <1>1 DEF Cause, Expected, Feeds
<1>3. \A v \in Vaults : (WillAsk(v) => WillAsk(v)') /\ (Settled(v) => Settled(v)')
  BY <1>1, <1>2 DEF WillAsk, Settled, InHand, roundVars
<1>4. t \in DOMAIN at /\ t \in DOMAIN armed
  BY DEF KeysInv, TypeOK, ThreadTypeOK
<1>5. CASE Tell(t)
  BY <1>5 DEF Tell, WakeInv, Excused, AskComing
<1>6. CASE Subscribe(t)
  <2>1. Telling(t)'
    BY <1>4, <1>6
    DEF Subscribe, NextFeed, AfterFeeds, Telling, KeysInv, TypeOK, ThreadTypeOK
  <2>. QED
    BY <2>1 DEF WakeInv, Excused, AskComing
<1>7. CASE ~ Tell(t) /\ ~ Subscribe(t)
  <2>1. UNCHANGED <<listener, work, armed>>
    BY <1>7
    DEF Begin, Goes, Swap, SwapFlag, SubscribeFails, Reply, SaveContact,
        ForgetContact, WriteBook, SetTokenSort, WriteSettings, Quarantine,
        Repair, RepairFails, Say, feedVars
  <2>2. /\ \A u \in Threads : u # t => at'[u] = at[u]
        /\ Telling(t) => at'[t] \in {"swap", "subscribe", "tell"}
    BY <1>4, <1>7
    DEF Begin, Goes, Swap, SwapFlag, SubscribeFails, NextFeed, AfterFeeds,
        Telling, Reply, SaveContact, ForgetContact, WriteBook, SetTokenSort,
        WriteSettings, Quarantine, Repair, RepairFails, Say, Return, KeysInv,
        TypeOK, ThreadTypeOK
  <2>3. \A u \in Threads : Telling(u) => Telling(u)'
    BY <2>1, <2>2 DEF Telling
  <2>4. Excused => Excused'
    BY <1>1, <1>2, <2>1, <2>3 DEF Excused, Deaf, AskComing
  <2>. QED
    BY <1>3, <2>4 DEF WakeInv, KeysInv
<1>. QED
  BY <1>5, <1>6, <1>7

LEMMA KeysInvInductive ==
    /\ Init => KeysInv
    /\ KeysInv /\ [Next]_vars => KeysInv'
<1>1. Init => RoundShape /\ WakeInv
  BY DEF Init, RoundShape, WakeInv, Excused, AskComing
<1>2. Init => RepairHoldsKey
  BY DEF Init, RepairHoldsKey
<1>3. ASSUME KeysInv, [Next]_vars PROVE TypeOK'
  BY <1>3, TypeStep DEF KeysInv
<1>4. ASSUME KeysInv, [Next]_vars PROVE WakeInv'
  <2>1. CASE UNCHANGED vars
    <3>1. /\ UNCHANGED <<Expected, Excused>>
          /\ \A v \in Vaults : UNCHANGED <<WillAsk(v), Settled(v)>>
      BY <2>1
      DEF vars, managerVars, feedVars, roundVars, vaultVars, threadVars,
          historyVars, Expected, Excused, Deaf, AskComing, Telling, Cause,
          WillAsk, Settled, InHand
    <3>. QED
      BY <1>4, <3>1 DEF KeysInv, WakeInv
  <2>2. CASE Restart
    BY <2>2 DEF Restart, WakeInv, Excused, AskComing
  <2>. QED
    BY <1>4, <2>1, <2>2, WakeManager, WakeFeeds, WakeWorker, WakeThreads DEF Next
<1>. QED
  BY <1>1, <1>2, <1>3, <1>4, TypeInit, RepairStep, ShapeStep DEF KeysInv

(* No vault misses a move of the manager for good: when it does not hold the key  *)
(* it should, its last ask was refused, the feed is down, or an ask that will set *)
(* it right is on its way.                                                         *)
THEOREM WakeUpsKept == Spec => []NoLostWakeUp
<1>1. KeysInv => NoLostWakeUp
  BY DEF KeysInv, WakeInv, Excused, Settled, NoLostWakeUp
<1>. QED
  BY <1>1, KeysInvInductive, PTL DEF Spec

(* The gate alone: what settings' repair relies on between its two steps.         *)
THEOREM RepairKeeps == Spec => []RepairHoldsKey
BY TypeCorrect, PTL

--------------------------------------------------------------------------------
(* What a step of the worker's, or of a thread's, leaves alone.                   *)

LEMMA ThreadsLeaveTheRound ==
    ASSUME NEW t \in Threads, Begin(t) \/ Goes(t)
    PROVE  UNCHANGED <<managerVars, roundVars, held>>
BY DEF Begin, Goes, Swap, SwapFlag, Subscribe, SubscribeFails, Tell, Reply,
       SaveContact, ForgetContact, WriteBook, SetTokenSort, WriteSettings,
       Quarantine, Repair, RepairFails, Say, vaultVars

(* The end of a refresh clears the key in hand, and is never inside a lock's      *)
(* closing of the vaults.                                                          *)
LEMMA RoundEnds ==
    ASSUME NEW m \in BOOLEAN, RoundGoesOn(m), TypeOK
    PROVE  /\ stage' \in {"recv", "ask", "emit"} /\ current' = NoKey
           /\ (moved \/ m) => moved'
           /\ locking' => locking /\ (stage' = "ask" => scope # Last /\ scope' = Last)
           /\ stage' = "emit" => scope' = Last
BY DEF RoundGoesOn, Rest, TypeOK, RoundTypeOK

--------------------------------------------------------------------------------
(* A lock closes the first vault and then the second; from there on each is       *)
(* closed until its own ask.                                                       *)

FirstIsClosed == locking /\ stage = "close" /\ scope # First => ~ IsOpen(First)

LockInv == LockDropsBoth /\ FirstIsClosed

LEMMA LockWorker ==
    ASSUME TypeOK, RoundShape, LockInv, Worker
    PROVE  LockInv'
<1>1. held \in [Vaults -> Generations \cup {NoKey}] /\ scope \in Vaults
  BY DEF TypeOK, VaultTypeOK, RoundTypeOK
<1>2. CASE Take
  BY <1>2 DEF Take, RoundShape, LockInv, FirstIsClosed, LockDropsBoth, WillAsk, vaultVars,
              IsOpen, TypeOK, RoundTypeOK
<1>3. CASE Close
  <2>1. CASE scope # Last
    BY <1>1, <1>3, <2>1, VaultFacts
    DEF Close, LockInv, FirstIsClosed, LockDropsBoth, WillAsk, IsOpen
  <2>2. CASE scope = Last
    <3>1. locking' => \A v \in Vaults : ~ IsOpen(v)'
      BY <1>1, <1>3, <2>2, VaultFacts DEF Close, LockInv, FirstIsClosed, IsOpen
    <3>2. stage' = "ask"
      BY <1>3, <2>2 DEF Close
    <3>. QED
      BY <3>1, <3>2 DEF LockInv, FirstIsClosed, LockDropsBoth
  <2>. QED
    BY <2>1, <2>2
<1>4. CASE AnswerCurrent \/ HearKey \/ AnswerBox
  <2>1. /\ UNCHANGED <<scope, locking, held>>
        /\ stage \in {"ask", "hear", "askBox"} /\ stage' \in {"hear", "askBox", "unlock"}
    BY <1>4 DEF AnswerCurrent, HearKey, AnswerBox, vaultVars
  <2>. QED
    BY <2>1 DEF LockInv, FirstIsClosed, LockDropsBoth, WillAsk, IsOpen
<1>5. ASSUME NEW m \in BOOLEAN, RoundGoesOn(m), stage \in {"ask", "hear", "askBox", "unlock"},
             NEW k, held' = held \/ held' = [held EXCEPT ![scope] = k]
      PROVE  LockInv'
  <2>1. /\ stage' # "close"
        /\ locking' => locking /\ (stage' = "ask" => scope # Last /\ scope' = Last)
        /\ stage' \in {"recv", "ask", "emit"} /\ (stage' = "emit" => scope' = Last)
    BY <1>5, RoundEnds
  <2>2. ASSUME locking', NEW v \in Vaults, stage' # "recv", WillAsk(v)'
        PROVE  ~ IsOpen(v)'
    <3>1. v = Last /\ scope # Last /\ locking
      BY <2>1, <2>2 DEF WillAsk
    <3>2. ~ IsOpen(v)
      BY <3>1, <1>5 DEF LockInv, LockDropsBoth, WillAsk
    <3>. QED
      BY <1>1, <1>5, <3>1, <3>2 DEF IsOpen
  <2>. QED
    BY <2>1, <2>2 DEF LockInv, FirstIsClosed, LockDropsBoth
<1>6. CASE NoAnswer \/ AnswerBoxLocked
  BY <1>5, <1>6 DEF NoAnswer, AnswerBoxLocked, vaultVars
<1>7. CASE HearLocked
  <2>1. IsOpen(scope) \in BOOLEAN
    BY DEF IsOpen
  <2>. QED
    BY <1>5, <1>7, <2>1 DEF HearLocked
<1>8. CASE UnlockAsIs \/ UnlockSealingAgain \/ UnlockUnsealed
  <2>1. TakeKey /\ (held[scope] # current) \in BOOLEAN
    BY <1>8 DEF UnlockAsIs, UnlockSealingAgain, UnlockUnsealed
  <2>. QED
    BY <1>5, <2>1 DEF TakeKey
<1>9. CASE Emit
  BY <1>9 DEF Emit, Rest, LockInv, FirstIsClosed, LockDropsBoth
<1>. QED
  BY <1>2, <1>3, <1>4, <1>6, <1>7, <1>8, <1>9 DEF Worker

LEMMA LockStep ==
    ASSUME TypeOK, RoundShape, LockInv, [Next]_vars
    PROVE  LockInv'
<1>1. CASE UNCHANGED <<roundVars, held>>
  BY <1>1 DEF roundVars, LockInv, FirstIsClosed, LockDropsBoth, WillAsk, IsOpen
<1>2. CASE Restart
  BY <1>2 DEF Restart, Rest, LockInv, FirstIsClosed, LockDropsBoth
<1>3. Next => Worker \/ Restart \/ UNCHANGED <<roundVars, held>>
  BY ThreadsLeaveTheRound DEF Next, Manager, Deliver, FeedEnds, ReleaseFlag, vaultVars
<1>. QED
  BY <1>1, <1>2, <1>3, LockWorker DEF vars, vaultVars

(* A lock drops both keys before anything is asked, whatever the manager then     *)
(* answers or does not.                                                            *)
THEOREM BothAreDropped == Spec => []LockDropsBoth
<1>1. Init => LockInv
  BY DEF Init, LockInv, FirstIsClosed, LockDropsBoth
<1>2. LockInv => LockDropsBoth
  BY DEF LockInv
<1>3. KeysInv => TypeOK /\ RoundShape
  BY DEF KeysInv
<1>. QED
  BY <1>1, <1>2, <1>3, LockStep, KeysInvInductive, PTL DEF Spec

--------------------------------------------------------------------------------
(* What moved is announced: `moved` is carried to the end of the round, and a     *)
(* writer's own announcement is its last step.                                     *)

LEMMA MovesStep ==
    ASSUME TypeOK, MovesAnnounced, [Next]_vars
    PROVE  MovesAnnounced'
<1>1. at \in [Threads -> {"idle", "swap", "subscribe", "tell", "op", "repair", "say"}]
  BY DEF TypeOK, ThreadTypeOK
<1>2. CASE UNCHANGED <<unsaid, moved, at>>
  BY <1>2 DEF MovesAnnounced
<1>3. CASE Worker
  <2>1. UNCHANGED at
    BY <1>3, <1>1
    DEF threadVars, Worker, Take, Close, AnswerCurrent, NoAnswer, HearLocked, HearKey,
        AnswerBox, AnswerBoxLocked, UnlockAsIs, UnlockSealingAgain, UnlockUnsealed,
        TakeKey, Emit
  <2>2. ASSUME NEW m \in BOOLEAN, RoundGoesOn(m), unsaid' => unsaid \/ m
        PROVE  MovesAnnounced'
    BY <2>1, <2>2, RoundEnds DEF MovesAnnounced
  <2>3. CASE NoAnswer \/ AnswerBoxLocked
    <3>1. RoundGoesOn(FALSE) /\ UNCHANGED unsaid
      BY <2>3 DEF NoAnswer, AnswerBoxLocked
    <3>2. unsaid' => unsaid \/ FALSE
      BY <3>1
    <3>. QED
      BY <2>2, <3>1, <3>2
  <2>4. CASE HearLocked
    <3>1. IsOpen(scope) \in BOOLEAN
      BY DEF IsOpen
    <3>. QED
      BY <2>2, <2>4, <3>1 DEF HearLocked
  <2>5. CASE TakeKey
    <3>1. (held[scope] # current) \in BOOLEAN
      OBVIOUS
    <3>. QED
      BY <2>2, <2>5, <3>1 DEF TakeKey
  <2>6. CASE Take \/ AnswerCurrent \/ HearKey \/ AnswerBox
    BY <1>2, <2>1, <2>6 DEF Take, AnswerCurrent, HearKey, AnswerBox, historyVars
  <2>7. CASE Close
    BY <2>1, <2>7 DEF Close, MovesAnnounced
  <2>8. CASE Emit
    BY <2>8 DEF Emit, MovesAnnounced
  <2>. QED
    BY <1>3, <2>3, <2>4, <2>5, <2>6, <2>7, <2>8
    DEF Worker, UnlockAsIs, UnlockSealingAgain, UnlockUnsealed
<1>4. ASSUME NEW t \in Threads, Begin(t) \/ Goes(t)
      PROVE  MovesAnnounced'
  <2>1. UNCHANGED moved
    BY <1>4, ThreadsLeaveTheRound DEF roundVars
  <2>2. CASE Say(t)
    BY <2>2 DEF Say, MovesAnnounced
  <2>3. CASE SetTokenSort(t) \/ Repair(t)
    BY <1>1, <2>1, <2>3
    DEF SetTokenSort, Repair, Return, MovesAnnounced
  <2>4. CASE ~ Say(t) /\ ~ SetTokenSort(t) /\ ~ Repair(t)
    <3>1. at[t] # "say" /\ UNCHANGED unsaid
      BY <1>4, <2>4
      DEF Begin, Goes, Swap, SwapFlag, Subscribe, SubscribeFails, Tell, Reply, SaveContact,
          ForgetContact, WriteBook, Quarantine, RepairFails, historyVars
    <3>2. \A u \in Threads : u # t => at'[u] = at[u]
      BY <1>1, <1>4, <2>4
      DEF Begin, Goes, Swap, SwapFlag, Subscribe, SubscribeFails, Tell, NextFeed,
          AfterFeeds, Reply, SaveContact, ForgetContact, WriteBook, Quarantine,
          RepairFails, Return
    <3>. QED
      BY <2>1, <3>1, <3>2 DEF MovesAnnounced
  <2>. QED
    BY <2>2, <2>3, <2>4
<1>5. CASE Restart
  BY <1>5 DEF Restart, MovesAnnounced
<1>6. Next => \/ Worker \/ Restart \/ UNCHANGED <<unsaid, moved, at>>
              \/ \E t \in Threads : Begin(t) \/ Goes(t)
  BY DEF Next, Manager, Deliver, FeedEnds, ReleaseFlag, roundVars, threadVars, historyVars
<1>. QED
  BY <1>2, <1>3, <1>4, <1>5, <1>6 DEF vars, roundVars, threadVars, historyVars

(* No key comes or goes and no order is written without an announcement, for any   *)
(* number of writers and whatever they interleave with.                            *)
THEOREM MovesAreAnnounced == Spec => []MovesAnnounced
<1>1. Init => MovesAnnounced
  BY DEF Init, MovesAnnounced
<1>2. KeysInv => TypeOK
  BY DEF KeysInv
<1>. QED
  BY <1>1, <1>2, MovesStep, KeysInvInductive, PTL DEF Spec

--------------------------------------------------------------------------------
(* Boxes are sealed forward only. Of the file alone KeysNeverGoBack is not          *)
(* inductive: what is in hand may have been overtaken, and the box may be newer      *)
(* than it unless no one could write since it was given.                            *)

InHandIsLatest(v) ==
    InHand(v) /\ current # NoKey => file[v].gen <= current

ForwardInv ==
    /\ KeysNeverGoBack
    /\ current <= generation
    /\ \A v \in Vaults : held[v] <= generation /\ InHandIsLatest(v)

LEMMA Numbers ==
    ASSUME TypeOK
    PROVE  /\ generation \in Int /\ current \in Int /\ NoKey \in Int /\ NoKey <= generation
           /\ scope \in Vaults /\ DOMAIN file = Vaults
           /\ \A v \in Vaults : held[v] \in Int /\ file[v].gen \in Int
           /\ held \in [Vaults -> Generations \cup {NoKey}]
           /\ stage \in {"askBox", "unlock"} => current # NoKey
<1>1. \A g \in Generations : g \in Int /\ NoKey <= g
  BY BoundsAreNat DEF Generations, NoKey
<1>2. NoKey \in Int
  BY DEF NoKey
<1>3. generation \in Generations /\ current \in Generations \cup {NoKey}
  BY DEF TypeOK, ManagerTypeOK, RoundTypeOK
<1>4. scope \in Vaults /\ (stage \in {"askBox", "unlock"} => current # NoKey)
  BY DEF TypeOK, RoundTypeOK
<1>5. DOMAIN file = Vaults /\ held \in [Vaults -> Generations \cup {NoKey}]
  BY DEF TypeOK, VaultTypeOK
<1>6. ASSUME NEW v \in Vaults PROVE file[v].gen \in Int
  <2>1. v \in StoreNames /\ file[v] \in Files(v)
    BY VaultFacts DEF TypeOK, VaultTypeOK
  <2>2. file[v].gen \in Generations \cup {NoKey}
    BY <2>1, FileFacts
  <2>. QED
    BY <2>2, <1>1, <1>2
<1>7. \A v \in Vaults : held[v] \in Int
  BY <1>1, <1>2, <1>5
<1>. QED
  BY <1>1, <1>2, <1>3, <1>4, <1>5, <1>6, <1>7

(* A vault is closed or takes the key in hand, and its box is left as it is or      *)
(* sealed again under that key.                                                      *)
LEMMA ForwardTaken ==
    ASSUME TypeOK, TypeOK', ForwardInv, NEW k \in {current, NoKey}, InHand(scope),
           UNCHANGED generation, current' = NoKey,
           held' = [held EXCEPT ![scope] = k],
           \/ UNCHANGED file
           \/ /\ k = current
              /\ \E d : file' = [file EXCEPT ![scope] = Box(current, d)]
    PROVE  ForwardInv'
<1>1. current' <= generation' /\ \A v \in Vaults : ~ (InHand(v)' /\ current' # NoKey)
  BY Numbers
<1>2. ASSUME NEW v \in Vaults, v # scope
      PROVE  held'[v] = held[v] /\ file'[v] = file[v]
  BY <1>2, Numbers
<1>3. held'[scope] = k
  BY Numbers
<1>4. \/ file'[scope] = file[scope]
      \/ k = current /\ file'[scope].gen = current
  BY Numbers DEF Box
<1>5. held'[scope] <= generation'
  BY <1>3, Numbers DEF ForwardInv
<1>6. file'[scope].gen <= generation'
  BY <1>4, Numbers DEF ForwardInv, KeysNeverGoBack
<1>7. ASSUME k # NoKey PROVE file'[scope].gen <= k
  <2>1. k = current /\ file[scope].gen <= current
    BY <1>7, Numbers DEF ForwardInv, InHandIsLatest
  <2>. QED
    BY <1>4, <2>1, Numbers
<1>8. ASSUME NEW v \in Vaults
      PROVE  /\ file'[v].gen <= generation' /\ held'[v] <= generation'
             /\ file'[v].kind = "box" /\ IsOpen(v)' => file'[v].gen <= held'[v]
  <2>1. CASE v = scope
    BY <2>1, <1>3, <1>5, <1>6, <1>7 DEF IsOpen
  <2>2. CASE v # scope
    BY <2>2, <1>2 DEF ForwardInv, KeysNeverGoBack, IsOpen
  <2>. QED
    BY <2>1, <2>2
<1>. QED
  BY <1>1, <1>8 DEF ForwardInv, KeysNeverGoBack, InHandIsLatest

LEMMA ForwardWorker ==
    ASSUME TypeOK, TypeOK', ForwardInv, Worker
    PROVE  ForwardInv'
<1>1. UNCHANGED generation
  BY DEF managerVars, Worker, Take, Close, AnswerCurrent, NoAnswer, HearLocked, HearKey,
         AnswerBox, AnswerBoxLocked, UnlockAsIs, UnlockSealingAgain, UnlockUnsealed,
         TakeKey, Emit
<1>2. ASSUME UNCHANGED <<held, file>>, current' = NoKey PROVE ForwardInv'
  BY <1>1, <1>2, Numbers
  DEF ForwardInv, KeysNeverGoBack, InHandIsLatest, IsOpen
<1>3. CASE Take
  BY <1>1, <1>3 DEF Take, vaultVars, ForwardInv, KeysNeverGoBack, InHandIsLatest, IsOpen, InHand
<1>4. CASE Close
  <2>1. /\ held' = [held EXCEPT ![scope] = NoKey]
        /\ UNCHANGED <<current, file>> /\ \A v \in Vaults : ~ InHand(v)'
    BY <1>4 DEF Close, InHand
  <2>2. \A v \in Vaults : held'[v] = held[v] \/ held'[v] = NoKey
    BY <2>1, Numbers
  <2>. QED
    BY <1>1, <2>1, <2>2, Numbers
    DEF ForwardInv, KeysNeverGoBack, InHandIsLatest, IsOpen
<1>5. CASE AnswerCurrent
  <2>1. /\ UNCHANGED <<held, file, scope>>
        /\ current' = generation \/ current' = NoKey
    BY <1>5 DEF AnswerCurrent, vaultVars
  <2>. QED
    BY <1>1, <2>1, Numbers
    DEF ForwardInv, KeysNeverGoBack, InHandIsLatest, IsOpen
<1>6. CASE HearKey \/ AnswerBox
  <2>1. /\ UNCHANGED <<held, file, scope, current>>
        /\ \A v \in Vaults : InHand(v)' => InHand(v)
    BY <1>6 DEF HearKey, AnswerBox, vaultVars, InHand
  <2>. QED
    BY <1>1, <2>1
    DEF ForwardInv, KeysNeverGoBack, InHandIsLatest, IsOpen
<1>7. CASE NoAnswer \/ AnswerBoxLocked
  BY <1>2, <1>7, RoundEnds DEF NoAnswer, AnswerBoxLocked, vaultVars
<1>8. CASE HearLocked
  <2>1. IsOpen(scope) \in BOOLEAN
    BY DEF IsOpen
  <2>2. current' = NoKey
    BY <1>8, <2>1, RoundEnds DEF HearLocked
  <2>. QED
    BY <1>1, <1>8, <2>2, ForwardTaken DEF HearLocked, InHand
<1>9. CASE UnlockAsIs \/ UnlockSealingAgain \/ UnlockUnsealed
  <2>1. TakeKey /\ (held[scope] # current) \in BOOLEAN
    BY <1>9 DEF UnlockAsIs, UnlockSealingAgain, UnlockUnsealed
  <2>2. current' = NoKey /\ InHand(scope) /\ held' = [held EXCEPT ![scope] = current]
    BY <2>1, RoundEnds DEF TakeKey, InHand
  <2>3. \/ UNCHANGED file
        \/ \E d : file' = [file EXCEPT ![scope] = Box(current, d)]
    BY <1>9, Numbers DEF UnlockAsIs, UnlockSealingAgain, UnlockUnsealed
  <2>. QED
    BY <1>1, <2>2, <2>3, ForwardTaken
<1>10. CASE Emit
  BY <1>2, <1>10 DEF Emit, Rest, vaultVars
<1>. QED
  BY <1>3, <1>4, <1>5, <1>6, <1>7, <1>8, <1>9, <1>10 DEF Worker

(* What a thread writes is a box under the key it holds, or no file for a while.     *)
LEMMA ForwardThreads ==
    ASSUME TypeOK, RepairHoldsKey, ForwardInv, NEW t \in Threads, Begin(t) \/ Goes(t)
    PROVE  ForwardInv'
<1>1. UNCHANGED <<generation, stage, scope, current, held>>
  BY ThreadsLeaveTheRound DEF managerVars, roundVars
<1>2. ASSUME NEW w \in StoreNames, NEW f, file' = [file EXCEPT ![w] = f],
             w \in Vaults =>
                 \/ f.gen = NoKey /\ f.kind # "box"
                 \/ IsOpen(w) /\ f.gen = held[w]
      PROVE  ForwardInv'
  <2>1. \A v \in Vaults : file'[v] = IF v = w THEN f ELSE file[v]
    BY <1>2, Numbers
  <2>2. ASSUME NEW v \in Vaults
        PROVE  /\ file'[v].gen <= generation
               /\ file'[v].kind = "box" /\ IsOpen(v) => file'[v].gen <= held[v]
               /\ InHand(v) /\ current # NoKey => file'[v].gen <= current
    <3>1. CASE v # w
      BY <2>1, <3>1 DEF ForwardInv, KeysNeverGoBack, InHandIsLatest
    <3>2. CASE v = w /\ f.gen = NoKey /\ f.kind # "box"
      <4>1. current \in Generations \cup {NoKey} /\ \A g \in Generations : NoKey <= g
        BY BoundsAreNat DEF TypeOK, RoundTypeOK, NoKey, Generations
      <4>. QED
        BY <1>2, <2>1, <3>2, <4>1, Numbers
    <3>3. CASE v = w /\ f.gen = held[w]
      BY <2>1, <3>3, Numbers DEF ForwardInv, KeysNeverGoBack
    <3>. QED
      BY <1>2, <3>1, <3>2, <3>3
  <2>. QED
    BY <1>1, <2>2 DEF ForwardInv, KeysNeverGoBack, InHandIsLatest, InHand, IsOpen
<1>3. "contacts" \in StoreNames /\ "settings" \in StoreNames
  BY DEF StoreNames
<1>4. \A v \in Vaults : IsOpen(v) => held[v] # NoKey
  BY DEF IsOpen
<1>5. CASE SaveContact(t) \/ ForgetContact(t)
  <2>1. IsOpen("contacts") /\ \E b : WriteBook(t, b)
    BY <1>5 DEF SaveContact, ForgetContact, Readable
  <2>2. PICK b : WriteBook(t, b)
    BY <2>1
  <2>3. file' = [file EXCEPT !["contacts"] = Box(held["contacts"], b)]
    BY <2>2 DEF WriteBook
  <2>. DEFINE f == Box(held["contacts"], b)
  <2>4. f.gen = held["contacts"]
    BY DEF Box
  <2>5. file' = [file EXCEPT !["contacts"] = f]
    BY <2>3
  <2>. HIDE DEF f
  <2>. QED
    BY <1>2, <1>3, <1>4, <2>1, <2>4, <2>5
<1>6. CASE SetTokenSort(t) \/ Repair(t)
  <2>1. IsOpen("settings")
    BY <1>6 DEF SetTokenSort, Repair, Readable, RepairHoldsKey
  <2>2. PICK o : WriteSettings(o)
    BY <1>6 DEF SetTokenSort, Repair
  <2>. DEFINE f == Box(held["settings"], o)
  <2>3. f.gen = held["settings"] /\ file' = [file EXCEPT !["settings"] = f]
    BY <2>2 DEF Box, WriteSettings
  <2>. HIDE DEF f
  <2>. QED
    BY <1>2, <1>3, <1>4, <2>1, <2>3
<1>7. CASE Quarantine(t)
  <2>. DEFINE f == NoFile("settings")
  <2>1. f.gen = NoKey /\ f.kind # "box" /\ file' = [file EXCEPT !["settings"] = f]
    BY <1>7 DEF NoFile, Quarantine
  <2>. HIDE DEF f
  <2>. QED
    BY <1>2, <1>3, <2>1
<1>8. CASE UNCHANGED file
  BY <1>1, <1>8 DEF ForwardInv, KeysNeverGoBack, InHandIsLatest, InHand, IsOpen
<1>. QED
  BY <1>5, <1>6, <1>7, <1>8
  DEF Begin, Goes, Swap, SwapFlag, Subscribe, SubscribeFails, Tell, Reply, RepairFails,
      Say, vaultVars

LEMMA ForwardStep ==
    ASSUME TypeOK, TypeOK', RepairHoldsKey, ForwardInv, [Next]_vars
    PROVE  ForwardInv'
<1>1. CASE UNCHANGED <<generation, stage, scope, current, held, file>>
  BY <1>1 DEF ForwardInv, KeysNeverGoBack, InHandIsLatest, InHand, IsOpen
<1>2. CASE Manager
  <2>1. UNCHANGED <<stage, scope, current, held, file>>
    BY <1>2 DEF Manager, roundVars, vaultVars
  <2>2. generation' = generation \/ generation' = generation + 1
    BY <1>2 DEF Manager, Unlock, Rotate, LockAll, LockSome, managerVars
  <2>3. generation <= generation'
    BY <2>2, Numbers
  <2>. QED
    BY <2>1, <2>2, <2>3, Numbers DEF ForwardInv, KeysNeverGoBack, InHandIsLatest, InHand, IsOpen
<1>3. CASE Restart
  <2>1. /\ UNCHANGED <<generation, file>> /\ current' = NoKey
        /\ \A v \in Vaults : held'[v] = NoKey
    BY <1>3 DEF Restart, Rest, managerVars
  <2>. QED
    BY <2>1, Numbers DEF ForwardInv, KeysNeverGoBack, InHandIsLatest, IsOpen
<1>4. Next => \/ Manager \/ Worker \/ Restart
              \/ \E t \in Threads : Begin(t) \/ Goes(t)
              \/ UNCHANGED <<generation, stage, scope, current, held, file>>
  BY DEF Next, Deliver, FeedEnds, ReleaseFlag, managerVars, roundVars, vaultVars
<1>. QED
  BY <1>1, <1>2, <1>3, <1>4, ForwardWorker, ForwardThreads
  DEF vars, managerVars, roundVars, vaultVars

(* No box is ever sealed backwards, for any number of generations, writers and       *)
(* restarts, and however late the manager's answers are heard.                       *)
THEOREM SealedForward == Spec => []KeysNeverGoBack
<1>1. Init => ForwardInv
  <2>1. SUFFICES ASSUME Init PROVE ForwardInv
    OBVIOUS
  <2>2. TypeOK
    BY <2>1, TypeInit
  <2>3. /\ current = NoKey /\ stage = "recv"
        /\ \A v \in Vaults : held[v] = NoKey /\ file[v].gen <= generation
    BY <2>1, VaultsAreStores DEF Init, OnDisk, StoreNames
  <2>. QED
    BY <2>2, <2>3, Numbers DEF ForwardInv, KeysNeverGoBack, InHandIsLatest, InHand, IsOpen
<1>2. KeysInv => TypeOK /\ RepairHoldsKey
  BY DEF KeysInv
<1>3. KeysInv /\ KeysInv' /\ ForwardInv /\ [Next]_vars => ForwardInv'
  BY <1>2, ForwardStep DEF KeysInv
<1>4. ForwardInv => KeysNeverGoBack
  BY DEF ForwardInv
<1>. QED
  BY <1>1, <1>3, <1>4, KeysInvInductive, PTL DEF Spec

--------------------------------------------------------------------------------
(* A refresh and the first write of a file. RefreshedBoxOpens is not true of every  *)
(* behaviour: a box that appears under the old key once the worker has seen that    *)
(* there is none is taken for one under the new key. That is the only way.          *)

\* The worker has read which key v's file wants, and v is still to take it.
Wanting(v) == scope = v /\ stage \in {"askBox", "unlock"}

\* A box is written where there was none: no file yet, or one that was moved aside.
FirstWrite(v) == file[v].kind # "box" /\ file'[v].kind = "box"

FirstWriteIsApart == \A v \in Vaults : FirstWrite(v) => ~ Wanting(v)

\* A refresh that takes the new key though a box of ours stays sealed under the old one.
LeavesUnsealed == UnlockUnsealed /\ file[scope].kind = "box"

\* A vault that is open and reported no error opens its box at any time, and until it has
\* taken its key the box wants the one it was asked for. Where sealing never fails, it
\* opens its box whatever it reported.
OpensInv(sealing) ==
    \A v \in Vaults : file[v].kind = "box" =>
        /\ (sealing \/ report[v] = "ok") /\ IsOpen(v) => file[v].gen = held[v]
        /\ Wanting(v) => file[v].gen = boxKey

\* Who has moved the settings aside is alone with them until they are written anew.
RepairIsAlone ==
    \A t, u \in Threads :
        at[t] = "repair" => file["settings"].kind = "none" /\ (at[u] = "repair" => u = t)

LEMMA AloneStep ==
    ASSUME TypeOK, RepairHoldsKey, RepairIsAlone, [Next]_vars
    PROVE  RepairIsAlone'
<1>1. ASSUME file'["settings"] = file["settings"] \/ \A t \in Threads : at[t] # "repair",
             \A t \in Threads : at'[t] = "repair" => at[t] = "repair"
      PROVE  RepairIsAlone'
  BY <1>1 DEF RepairIsAlone
<1>2. CASE UNCHANGED <<file, at>>
  BY <1>1, <1>2
<1>3. CASE Restart
  BY <1>1, <1>3 DEF Restart
<1>4. ASSUME Worker PROVE RepairIsAlone'
  <2>1. UNCHANGED at
    BY <1>4 DEF Worker, Take, Close, AnswerCurrent, NoAnswer, HearLocked, HearKey,
         AnswerBox, AnswerBoxLocked, UnlockAsIs, UnlockSealingAgain, UnlockUnsealed,
         TakeKey, Emit, threadVars
  <2>2. UNCHANGED file \/ UnlockSealingAgain
    BY <1>4 DEF Worker, Take, Close, AnswerCurrent, NoAnswer, HearLocked, HearKey,
         AnswerBox, AnswerBoxLocked, UnlockAsIs, UnlockUnsealed, Emit, vaultVars
  <2>3. CASE UnlockSealingAgain
    <3>1. GateFree(scope) /\ file' = [file EXCEPT ![scope] = Box(current, @.data)]
      BY <2>3 DEF UnlockSealingAgain, TakeKey
    <3>2. CASE scope = "contacts"
      <4>1. file'["settings"] = file["settings"]
        BY <3>1, <3>2
      <4>. QED
        BY <1>1, <2>1, <4>1
    <3>3. CASE scope # "contacts"
      BY <1>1, <2>1, <3>1, <3>3 DEF GateFree
    <3>. QED
      BY <3>2, <3>3
  <2>. QED
    BY <1>2, <2>1, <2>2, <2>3
<1>5. ASSUME NEW t \in Threads, SaveContact(t) \/ ForgetContact(t) PROVE RepairIsAlone'
  <2>1. PICK b : WriteBook(t, b)
    BY <1>5 DEF SaveContact, ForgetContact
  <2>2. file'["settings"] = file["settings"]
    BY <2>1 DEF WriteBook
  <2>3. \A u \in Threads : at'[u] = "repair" => at[u] = "repair"
    BY <2>1 DEF WriteBook, Return, TypeOK, ThreadTypeOK
  <2>. QED
    BY <1>1, <2>2, <2>3
<1>6. ASSUME NEW t \in Threads, SetTokenSort(t) PROVE RepairIsAlone'
  <2>1. \A u \in Threads : at[u] # "repair"
    BY <1>6 DEF SetTokenSort, GateFree
  <2>2. \A u \in Threads : at'[u] # "repair"
    BY <1>6, <2>1 DEF SetTokenSort, Return, TypeOK, ThreadTypeOK
  <2>. QED
    BY <2>2 DEF RepairIsAlone
<1>7. ASSUME NEW t \in Threads, Quarantine(t) PROVE RepairIsAlone'
  <2>1. \A u \in Threads : at[u] # "repair"
    BY <1>7 DEF Quarantine, GateFree
  <2>2. \A u \in Threads : at'[u] = "repair" => u = t
    BY <1>7, <2>1 DEF Quarantine, TypeOK, ThreadTypeOK
  <2>3. "settings" \in DOMAIN file
    BY <1>7, RequestsAreServed DEF Quarantine, TypeOK, VaultTypeOK
  <2>4. file'["settings"].kind = "none"
    BY <1>7, <2>3 DEF Quarantine, NoFile
  <2>. QED
    BY <2>2, <2>4 DEF RepairIsAlone
<1>8. ASSUME NEW t \in Threads, Repair(t) PROVE RepairIsAlone'
  <2>1. \A u \in Threads : at'[u] # "repair"
    BY <1>8 DEF Repair, RepairIsAlone, TypeOK, ThreadTypeOK
  <2>. QED
    BY <2>1 DEF RepairIsAlone
<1>9. ASSUME NEW t \in Threads,
             \/ Begin(t) \/ Swap(t) \/ Subscribe(t) \/ SubscribeFails(t) \/ Tell(t)
             \/ Reply(t) \/ RepairFails(t) \/ Say(t)
      PROVE  RepairIsAlone'
  <2>1. UNCHANGED file
    BY <1>9 DEF Begin, Swap, SwapFlag, Subscribe, SubscribeFails, Tell, Reply, RepairFails,
         Say, vaultVars
  <2>2. \A u \in Threads : at'[u] = "repair" => at[u] = "repair"
    BY <1>9 DEF Begin, Swap, SwapFlag, NextFeed, AfterFeeds, Subscribe, SubscribeFails, Tell,
         Reply, RepairFails, Say, Return, TypeOK, ThreadTypeOK
  <2>. QED
    BY <1>1, <2>1, <2>2
<1>10. Next => \/ UNCHANGED <<file, at>> \/ Worker \/ Restart
               \/ \E t \in Threads : Begin(t) \/ Goes(t)
  BY DEF Next, Manager, Deliver, FeedEnds, ReleaseFlag, vaultVars, threadVars
<1>. QED
  BY <1>2, <1>3, <1>4, <1>5, <1>6, <1>7, <1>8, <1>9, <1>10 DEF Goes, vars, vaultVars, threadVars

LEMMA OpensWorker ==
    ASSUME NEW sealing \in BOOLEAN, TypeOK, OpensInv(sealing), Worker,
           sealing => ~ LeavesUnsealed
    PROVE  OpensInv(sealing)'
<1>1. CASE Take \/ AnswerCurrent \/ Emit
  <2>1. UNCHANGED <<file, held, report>> /\ stage' \notin {"askBox", "unlock"}
    BY <1>1 DEF Take, AnswerCurrent, Emit, Rest, vaultVars, historyVars
  <2>. QED
    BY <2>1 DEF OpensInv, IsOpen, Wanting
<1>2. CASE NoAnswer \/ AnswerBoxLocked
  <2>1. UNCHANGED <<file, held>> /\ report' = [report EXCEPT ![scope] = "refused"]
    BY <1>2 DEF NoAnswer, AnswerBoxLocked, Report, vaultVars
  <2>2. stage' \notin {"askBox", "unlock"}
    BY <1>2 DEF NoAnswer, AnswerBoxLocked, RoundGoesOn, Rest
  <2>3. \A v \in Vaults : report'[v] = "ok" => report[v] = "ok"
    BY <2>1 DEF TypeOK, HistoryTypeOK
  <2>. QED
    BY <2>1, <2>2, <2>3 DEF OpensInv, IsOpen, Wanting
<1>3. CASE Close \/ HearLocked
  <2>1. UNCHANGED file /\ held' = [held EXCEPT ![scope] = NoKey]
    BY <1>3 DEF Close, HearLocked
  <2>2. stage' \notin {"askBox", "unlock"}
    BY <1>3 DEF Close, HearLocked, RoundGoesOn, Rest
  <2>3. \A v \in Vaults : v # scope /\ report'[v] = "ok" => report[v] = "ok"
    BY <1>3 DEF Close, HearLocked, Report, TypeOK, HistoryTypeOK
  <2>4. \A v \in Vaults : held'[v] = NoKey \/ (held'[v] = held[v] /\ v # scope)
    BY <2>1 DEF TypeOK, VaultTypeOK
  <2>. QED
    BY <2>1, <2>2, <2>3, <2>4 DEF OpensInv, IsOpen, Wanting
<1>4. CASE HearKey
  <2>1. UNCHANGED <<file, held, report, scope>>
    BY <1>4 DEF HearKey, vaultVars, historyVars
  <2>2. ASSUME file[scope].kind = "box" PROVE file[scope].gen = boxKey'
    <3>1. file[scope].gen \in Generations
      <4>1. scope \in StoreNames /\ file[scope] \in Files(scope)
        BY VaultFacts DEF TypeOK, RoundTypeOK, VaultTypeOK
      <4>. QED
        BY <2>2, <4>1, FileFacts
    <3>2. file[scope].gen # NoKey
      BY <3>1, BoundsAreNat DEF Generations, NoKey
    <3>. QED
      BY <1>4, <3>2 DEF HearKey, Wanted
  <2>. QED
    BY <2>1, <2>2 DEF OpensInv, IsOpen, Wanting
<1>5. CASE AnswerBox
  BY <1>5 DEF AnswerBox, vaultVars, historyVars, OpensInv, IsOpen, Wanting
<1>6. CASE UnlockAsIs \/ UnlockSealingAgain \/ UnlockUnsealed
  <2>1. TakeKey
    BY <1>6 DEF UnlockAsIs, UnlockSealingAgain, UnlockUnsealed
  <2>2. /\ stage = "unlock" /\ held' = [held EXCEPT ![scope] = current]
        /\ stage' \notin {"askBox", "unlock"}
    BY <2>1 DEF TakeKey, RoundGoesOn, Rest
  <2>3. scope \in Vaults /\ held'[scope] = current
    BY <2>2 DEF TypeOK, RoundTypeOK, VaultTypeOK
  <2>4. \A v \in Vaults \ {scope} : file'[v] = file[v] /\ held'[v] = held[v] /\ report'[v] = report[v]
    BY <1>6, <2>2 DEF UnlockAsIs, UnlockSealingAgain, UnlockUnsealed, Report,
         TypeOK, VaultTypeOK, HistoryTypeOK
  <2>5. (sealing \/ report'[scope] = "ok") /\ file'[scope].kind = "box" => file'[scope].gen = current
    <3>1. CASE UnlockAsIs
      BY <2>2, <2>3, <3>1 DEF UnlockAsIs, OpensInv, Wanting
    <3>2. CASE UnlockSealingAgain
      BY <2>3, <3>2 DEF UnlockSealingAgain, Box, TypeOK, VaultTypeOK
    <3>3. CASE UnlockUnsealed
      BY <2>2, <2>3, <3>3 DEF LeavesUnsealed, UnlockUnsealed, Report, TypeOK, HistoryTypeOK
    <3>. QED
      BY <1>6, <3>1, <3>2, <3>3
  <2>6. ASSUME NEW v \in Vaults, file'[v].kind = "box", sealing \/ report'[v] = "ok", IsOpen(v)'
        PROVE  file'[v].gen = held'[v]
    <3>1. CASE v = scope
      BY <2>3, <2>5, <2>6, <3>1
    <3>2. CASE v # scope
      BY <2>4, <2>6, <3>2 DEF OpensInv, IsOpen
    <3>. QED
      BY <3>1, <3>2
  <2>. QED
    BY <2>2, <2>6 DEF OpensInv, Wanting
<1>. QED
  BY <1>1, <1>2, <1>3, <1>4, <1>5, <1>6 DEF Worker

LEMMA OpensThreads ==
    ASSUME NEW sealing \in BOOLEAN, TypeOK, RepairHoldsKey, RepairIsAlone, OpensInv(sealing),
           NEW t \in Threads, Begin(t) \/ Goes(t), FirstWriteIsApart
    PROVE  OpensInv(sealing)'
<1>1. UNCHANGED <<stage, scope, boxKey, held, report>>
  BY ThreadsLeaveTheRound DEF managerVars, roundVars,
     Begin, Goes, Swap, SwapFlag, Subscribe, SubscribeFails, Tell, Reply, SaveContact,
     ForgetContact, WriteBook, SetTokenSort, WriteSettings, Quarantine, Repair, RepairFails,
     Say, historyVars
<1>2. ASSUME NEW w \in Vaults, NEW f, file' = [file EXCEPT ![w] = f],
             \/ f.kind # "box"
             \/ /\ f.gen = held[w]
                /\ file[w].kind = "box" => file[w].gen = held[w]
      PROVE  OpensInv(sealing)'
  <2>1. \A v \in Vaults : file'[v] = IF v = w THEN f ELSE file[v]
    BY <1>2 DEF TypeOK, VaultTypeOK
  <2>2. ASSUME NEW v \in Vaults, file'[v].kind = "box"
        PROVE  /\ (sealing \/ report[v] = "ok") /\ IsOpen(v) => file'[v].gen = held[v]
               /\ Wanting(v) => file'[v].gen = boxKey
    <3>1. CASE v # w
      BY <2>1, <2>2, <3>1 DEF OpensInv
    <3>2. CASE v = w /\ file[w].kind = "box"
      BY <1>2, <2>1, <2>2, <3>2 DEF OpensInv
    <3>3. CASE v = w /\ file[w].kind # "box"
      <4>1. ~ Wanting(v)
        BY <2>2, <3>3 DEF FirstWriteIsApart, FirstWrite
      <4>. QED
        BY <1>2, <2>1, <2>2, <3>3, <4>1
    <3>. QED
      BY <3>1, <3>2, <3>3
  <2>. QED
    BY <1>1, <2>2 DEF OpensInv, IsOpen, Wanting
<1>3. CASE SaveContact(t) \/ ForgetContact(t)
  <2>1. Readable("contacts") /\ (\E b : WriteBook(t, b)) /\ "contacts" \in Vaults
    BY <1>3, RequestsAreServed DEF SaveContact, ForgetContact
  <2>2. PICK b : WriteBook(t, b)
    BY <2>1
  <2>. DEFINE f == Box(held["contacts"], b)
  <2>3. f.gen = held["contacts"] /\ file' = [file EXCEPT !["contacts"] = f]
    BY <2>2 DEF Box, WriteBook
  <2>4. file["contacts"].kind = "box" => file["contacts"].gen = held["contacts"]
    BY <2>1 DEF Readable, Opens
  <2>. HIDE DEF f
  <2>. QED
    BY <1>2, <2>1, <2>3, <2>4
<1>4. CASE SetTokenSort(t) \/ Repair(t)
  <2>1. "settings" \in Vaults
    BY <1>4, RequestsAreServed DEF SetTokenSort, Repair, RepairHoldsKey
  <2>2. PICK o : WriteSettings(o)
    BY <1>4 DEF SetTokenSort, Repair
  <2>. DEFINE f == Box(held["settings"], o)
  <2>3. f.gen = held["settings"] /\ file' = [file EXCEPT !["settings"] = f]
    BY <2>2 DEF Box, WriteSettings
  <2>4. file["settings"].kind = "box" => file["settings"].gen = held["settings"]
    BY <1>4 DEF SetTokenSort, Repair, Readable, Opens, RepairIsAlone
  <2>. HIDE DEF f
  <2>. QED
    BY <1>2, <2>1, <2>3, <2>4
<1>5. CASE Quarantine(t)
  <2>. DEFINE f == NoFile("settings")
  <2>1. f.kind # "box" /\ file' = [file EXCEPT !["settings"] = f] /\ "settings" \in Vaults
    BY <1>5, RequestsAreServed DEF NoFile, Quarantine
  <2>. HIDE DEF f
  <2>. QED
    BY <1>2, <2>1
<1>6. CASE UNCHANGED file
  BY <1>1, <1>6 DEF OpensInv, IsOpen, Wanting
<1>. QED
  BY <1>3, <1>4, <1>5, <1>6
  DEF Begin, Goes, Swap, SwapFlag, Subscribe, SubscribeFails, Tell, Reply, RepairFails,
      Say, vaultVars

LEMMA OpensStep ==
    ASSUME NEW sealing \in BOOLEAN,
           TypeOK, RepairHoldsKey, RepairIsAlone, OpensInv(sealing), [Next]_vars,
           [FirstWriteIsApart]_vars, sealing => ~ LeavesUnsealed
    PROVE  OpensInv(sealing)'
<1>1. CASE UNCHANGED <<stage, scope, boxKey, held, file, report>>
  BY <1>1 DEF OpensInv, IsOpen, Wanting
<1>2. CASE Restart
  <2>1. UNCHANGED file /\ stage' = "recv" /\ \A v \in Vaults : held'[v] = NoKey
    BY <1>2 DEF Restart, Rest
  <2>. QED
    BY <2>1 DEF OpensInv, IsOpen, Wanting
<1>3. Next => \/ Worker \/ Restart
              \/ \E t \in Threads : Begin(t) \/ Goes(t)
              \/ UNCHANGED <<stage, scope, boxKey, held, file, report>>
  BY DEF Next, Manager, Deliver, FeedEnds, ReleaseFlag, roundVars, vaultVars, historyVars
<1>4. UNCHANGED vars => UNCHANGED <<stage, scope, boxKey, held, file, report>>
  BY DEF vars, roundVars, vaultVars, historyVars
<1>. QED
  BY <1>1, <1>2, <1>3, <1>4, OpensWorker, OpensThreads

LEMMA OpensInit == Init => (\A sealing \in BOOLEAN : OpensInv(sealing)) /\ RepairIsAlone
  BY DEF Init, OpensInv, IsOpen, Wanting, RepairIsAlone

(* A refresh that reported no error leaves a box that its vault can open, through       *)
(* any rotations, locks, restarts and later writes, unless a file's first box was       *)
(* written between profile::refresh's look at the file (`wanted`) and Vault::unlock.     *)
THEOREM OnlyFirstWritesAreMissed ==
    Spec /\ [][FirstWriteIsApart]_vars => []RefreshedBoxOpens
<1>1. OpensInv(FALSE) => RefreshedBoxOpens
  BY DEF OpensInv, RefreshedBoxOpens, Readable, Opens
<1>2. KeysInv => TypeOK /\ RepairHoldsKey
  BY DEF KeysInv
<1>3. KeysInv /\ OpensInv(FALSE) /\ RepairIsAlone /\ [Next]_vars /\ [FirstWriteIsApart]_vars
          => (OpensInv(FALSE) /\ RepairIsAlone)'
  BY <1>2, OpensStep, AloneStep
<1>4. Init => OpensInv(FALSE) /\ RepairIsAlone
  BY OpensInit
<1>. QED
  BY <1>1, <1>3, <1>4, KeysInvInductive, PTL DEF Spec

\* What the user has stored is there until the user stores something else.
OrderIsKept ==
    file["settings"].kind = "box" =>
        /\ file'["settings"].kind = "box"
        /\ \/ file'["settings"].data = file["settings"].data
           \/ \E t \in Threads : SetTokenSort(t)

LEMMA OrderStep ==
    ASSUME "settings" \in Vaults, TypeOK, RepairIsAlone, OpensInv(TRUE), [Next]_vars
    PROVE  OrderIsKept
<1>1. CASE UNCHANGED file
  BY <1>1 DEF OrderIsKept
<1>2. "settings" \in DOMAIN file
  BY DEF TypeOK, VaultTypeOK
<1>3. CASE UnlockSealingAgain
  <2>1. \/ UNCHANGED file["settings"]
        \/ file'["settings"] = Box(current, file["settings"].data)
    BY <1>2, <1>3 DEF UnlockSealingAgain
  <2>. QED
    BY <2>1 DEF OrderIsKept, Box
<1>4. ASSUME NEW t \in Threads, SaveContact(t) \/ ForgetContact(t) PROVE OrderIsKept
  <2>1. PICK b : WriteBook(t, b)
    BY <1>4 DEF SaveContact, ForgetContact
  <2>2. file'["settings"] = file["settings"]
    BY <2>1 DEF WriteBook
  <2>. QED
    BY <2>2 DEF OrderIsKept
<1>5. ASSUME NEW t \in Threads, SetTokenSort(t) PROVE OrderIsKept
  <2>1. PICK o : file' = [file EXCEPT !["settings"] = Box(held["settings"], o)]
    BY <1>5 DEF SetTokenSort, WriteSettings
  <2>2. file'["settings"].kind = "box"
    BY <1>2, <2>1 DEF Box
  <2>. QED
    BY <1>5, <2>2 DEF OrderIsKept
<1>6. ASSUME NEW t \in Threads, Quarantine(t) \/ Repair(t) PROVE OrderIsKept
  <2>1. file["settings"].kind # "box"
    BY <1>6 DEF Quarantine, Repair, RepairIsAlone, Readable, Opens, OpensInv
  <2>. QED
    BY <2>1 DEF OrderIsKept
<1>7. CASE UNCHANGED vars \/ Manager \/ Restart
  BY <1>1, <1>7 DEF vars, vaultVars, Manager, Restart
<1>8. CASE \E f \in Feeds : Deliver(f) \/ FeedEnds(f) \/ ReleaseFlag(f)
  BY <1>1, <1>8 DEF vaultVars, Deliver, FeedEnds, ReleaseFlag
<1>9. CASE Worker
  BY <1>1, <1>3, <1>9
  DEF Worker, Take, Close, AnswerCurrent, NoAnswer, HearLocked, HearKey,
      AnswerBox, AnswerBoxLocked, UnlockAsIs, UnlockUnsealed, Emit, vaultVars
<1>10. CASE \E t \in Threads : Begin(t) \/ Goes(t)
  BY <1>1, <1>4, <1>5, <1>6, <1>10
  DEF vaultVars, Begin, Goes, Swap, SwapFlag, Subscribe, SubscribeFails, Tell,
      Reply, RepairFails, Say
<1>. QED
  BY <1>7, <1>8, <1>9, <1>10 DEF Next

(* Settings are moved aside as unreadable (settings.rs, quarantine) when their key is not *)
(* the one that is held. Unless a first write overtakes a refresh or a box cannot be      *)
(* sealed again, that never happens to settings the vault wrote: whatever else fails, is  *)
(* refused or restarts, the stored order changes by set_token_sort alone.                *)
THEOREM StoredOrderIsKept ==
    ASSUME "settings" \in Vaults
    PROVE  Spec /\ [][FirstWriteIsApart /\ ~ LeavesUnsealed]_vars => [][OrderIsKept]_vars
<1>1. KeysInv => TypeOK /\ RepairHoldsKey
  BY DEF KeysInv
<1>2. KeysInv /\ OpensInv(TRUE) /\ RepairIsAlone /\ [Next]_vars
          /\ [FirstWriteIsApart /\ ~ LeavesUnsealed]_vars
      => (OpensInv(TRUE) /\ RepairIsAlone)'
  <2>1. UNCHANGED vars => ~ LeavesUnsealed
    BY DEF vars, roundVars, LeavesUnsealed, UnlockUnsealed, TakeKey, RoundGoesOn, Rest
  <2>. QED
    BY <1>1, <2>1, OpensStep, AloneStep
<1>3. KeysInv /\ OpensInv(TRUE) /\ RepairIsAlone /\ [Next]_vars => [OrderIsKept]_vars
  BY <1>1, OrderStep
<1>4. Init => OpensInv(TRUE) /\ RepairIsAlone
  BY OpensInit
<1>. QED
  BY <1>2, <1>3, <1>4, KeysInvInductive, PTL DEF Spec


\* Nobody has a first box to write: no settings are written, and the address book, if it is,
\* has been there from the start.
NothingIsNew ==
    /\ \A t \in Threads : at[t] # "repair"
    /\ Requests # {} /\ "contacts" \in Vaults => file["contacts"].kind # "none"

LEMMA NothingNewStep ==
    ASSUME Requests \subseteq {"save", "forget"}, TypeOK, NothingIsNew, [Next]_vars
    PROVE  NothingIsNew' /\ FirstWriteIsApart
<1>1. ASSUME UNCHANGED file PROVE FirstWriteIsApart
  BY <1>1 DEF FirstWriteIsApart, FirstWrite
<1>2. CASE UNCHANGED <<file, at>>
  BY <1>1, <1>2 DEF NothingIsNew
<1>3. CASE Restart
  BY <1>1, <1>3 DEF Restart, NothingIsNew
<1>4. ASSUME Worker PROVE NothingIsNew' /\ FirstWriteIsApart
  <2>1. UNCHANGED at
    BY <1>4 DEF Worker, Take, Close, AnswerCurrent, NoAnswer, HearLocked, HearKey,
         AnswerBox, AnswerBoxLocked, UnlockAsIs, UnlockSealingAgain, UnlockUnsealed,
         TakeKey, Emit, threadVars
  <2>2. UNCHANGED file \/ UnlockSealingAgain
    BY <1>4 DEF Worker, Take, Close, AnswerCurrent, NoAnswer, HearLocked, HearKey,
         AnswerBox, AnswerBoxLocked, UnlockAsIs, UnlockUnsealed, Emit, vaultVars
  <2>3. CASE UnlockSealingAgain
    <3>1. \A v \in Vaults : file'[v] = file[v] \/ (file[v].kind = "box" /\ file'[v].kind = "box")
      BY <2>3 DEF UnlockSealingAgain, Box, TypeOK, VaultTypeOK
    <3>. QED
      BY <2>1, <3>1 DEF NothingIsNew, FirstWriteIsApart, FirstWrite
  <2>. QED
    BY <1>2, <2>1, <2>2, <2>3
<1>5. ASSUME NEW t \in Threads, SaveContact(t) \/ ForgetContact(t)
      PROVE  NothingIsNew' /\ FirstWriteIsApart
  <2>1. /\ Readable("contacts") /\ (\E b : WriteBook(t, b))
        /\ "contacts" \in Vaults /\ Requests # {}
    BY <1>5, RequestsAreServed DEF SaveContact, ForgetContact
  <2>2. PICK b : WriteBook(t, b)
    BY <2>1
  <2>3. file["contacts"].kind = "box"
    BY <2>1 DEF NothingIsNew, Readable, Opens
  <2>4. /\ file'["contacts"].kind = "box"
        /\ \A v \in Vaults \ {"contacts"} : file'[v] = file[v]
    BY <2>1, <2>2 DEF WriteBook, Box, TypeOK, VaultTypeOK
  <2>5. \A u \in Threads : at'[u] # "repair"
    BY <2>2 DEF WriteBook, Return, NothingIsNew, TypeOK, ThreadTypeOK
  <2>. QED
    BY <2>3, <2>4, <2>5 DEF NothingIsNew, FirstWriteIsApart, FirstWrite
<1>6. ASSUME NEW t \in Threads, SetTokenSort(t) \/ Quarantine(t) \/ Repair(t) PROVE FALSE
  BY <1>6 DEF SetTokenSort, Quarantine, Repair, NothingIsNew
<1>7. ASSUME NEW t \in Threads,
             \/ Begin(t) \/ Swap(t) \/ Subscribe(t) \/ SubscribeFails(t) \/ Tell(t)
             \/ Reply(t) \/ RepairFails(t) \/ Say(t)
      PROVE  NothingIsNew' /\ FirstWriteIsApart
  <2>1. UNCHANGED file
    BY <1>7 DEF Begin, Swap, SwapFlag, Subscribe, SubscribeFails, Tell, Reply, RepairFails,
         Say, vaultVars
  <2>2. \A u \in Threads : at'[u] # "repair"
    BY <1>7 DEF Begin, Swap, SwapFlag, NextFeed, AfterFeeds, Subscribe, SubscribeFails, Tell,
         Reply, RepairFails, Say, Return, NothingIsNew, TypeOK, ThreadTypeOK
  <2>. QED
    BY <1>1, <2>1, <2>2 DEF NothingIsNew
<1>8. Next => \/ UNCHANGED <<file, at>> \/ Worker \/ Restart
              \/ \E t \in Threads : Begin(t) \/ Goes(t)
  BY DEF Next, Manager, Deliver, FeedEnds, ReleaseFlag, vaultVars, threadVars
<1>. QED
  BY <1>2, <1>3, <1>4, <1>5, <1>6, <1>7, <1>8 DEF Goes, vars, vaultVars, threadVars

(* So an address book that is on disk from the start, and any store that nothing        *)
(* writes, can be opened after every refresh that reported no error.                     *)
THEOREM StoredBooksStayOpen ==
    ASSUME Requests \subseteq {"save", "forget"}, Requests = {} \/ "none" \notin BookAtStart
    PROVE  Spec => []RefreshedBoxOpens
<1>1. Init => NothingIsNew
  <2>1. SUFFICES ASSUME Init PROVE NothingIsNew
    OBVIOUS
  <2>2. \A t \in Threads : at[t] # "repair"
    BY <2>1 DEF Init
  <2>3. PICK c \in OnDisk("contacts", BookAtStart), s \in OnDisk("settings", SettingsAtStart) :
            file = [v \in Vaults |-> IF v = "contacts" THEN c ELSE s]
    BY <2>1 DEF Init
  <2>4. c.kind \in BookAtStart
    BY DEF OnDisk
  <2>. QED
    BY <2>2, <2>3, <2>4 DEF NothingIsNew
<1>2. TypeOK /\ NothingIsNew /\ [Next]_vars => NothingIsNew' /\ FirstWriteIsApart
  BY NothingNewStep
<1>3. KeysInv => TypeOK
  BY DEF KeysInv
<1>4. Spec => [][FirstWriteIsApart]_vars
  BY <1>1, <1>2, <1>3, KeysInvInductive, PTL DEF Spec
<1>. QED
  BY <1>4, OnlyFirstWritesAreMissed, PTL

--------------------------------------------------------------------------------
(* The address book: every step of ProfileKeys is a save, a forget or a stutter   *)
(* of the book stored on disk.                                                     *)

LEMMA SameBooks ==
    /\ Promised!Books = Books
    /\ \A b, a : Promised!Fits(b, a) = Fits(b, a)
<1>1. \A S : Promised!Cardinality(S) = Cardinality(S)
  BY DEF Promised!Cardinality, Cardinality, Promised!IsFiniteSet, IsFiniteSet
<1>2. \A b : Promised!Entries(b) = Entries(b)
  BY DEF Promised!Entries, Entries
<1>. QED
  BY <1>1, <1>2 DEF Promised!Books, Books, Promised!Fits, Fits

LEMMA StoredBookType ==
    ASSUME "contacts" \in Vaults, TypeOK
    PROVE  /\ file["contacts"].data \in Books
           /\ StoredBook \in Books \cup {Unreadable}
<1>1. file["contacts"] \in Files("contacts") /\ "contacts" \in StoreNames
  BY DEF TypeOK, VaultTypeOK, StoreNames
<1>. QED
  BY <1>1, FileFacts DEF Contents, StoredBook

LEMMA BookStep ==
    ASSUME "contacts" \in Vaults, TypeOK, [Next]_vars
    PROVE  [Promised!Next]_StoredBook
<1>1. CASE UNCHANGED file
  BY <1>1 DEF StoredBook
<1>2. "contacts" \in DOMAIN file
  BY DEF TypeOK, VaultTypeOK
<1>3. CASE UnlockSealingAgain
  <2>1. \/ UNCHANGED file["contacts"]
        \/ /\ file["contacts"].kind = "box"
           /\ file'["contacts"] = Box(current, file["contacts"].data)
    BY <1>2, <1>3 DEF UnlockSealingAgain
  <2>. QED
    BY <2>1 DEF StoredBook, Box
<1>4. ASSUME NEW t \in Threads, SaveContact(t)
      PROVE  Promised!Next
  <2>1. PICK a \in Addresses, n \in Names :
            /\ Fits(file["contacts"].data, a)
            /\ WriteBook(t, Saved(file["contacts"].data, a, n))
    BY <1>4 DEF SaveContact
  <2>2. /\ StoredBook = file["contacts"].data
        /\ StoredBook # Unreadable
    BY <1>4, StoredBookType, UnreadableIsNoBook
    DEF SaveContact, Readable, Opens, StoredBook
  <2>3. StoredBook' = Saved(StoredBook, a, n)
    BY <1>2, <2>1, <2>2 DEF WriteBook, StoredBook, Box
  <2>4. Promised!Save(a, n)
    BY <2>1, <2>2, <2>3, SameBooks DEF Promised!Save, Promised!Saved, Saved
  <2>. QED
    BY <2>4 DEF Promised!Next
<1>5. ASSUME NEW t \in Threads, ForgetContact(t)
      PROVE  Promised!Next
  <2>1. PICK a \in Addresses :
            WriteBook(t, Forgotten(file["contacts"].data, a))
    BY <1>5 DEF ForgetContact
  <2>2. /\ StoredBook = file["contacts"].data
        /\ StoredBook # Unreadable
    BY <1>5, StoredBookType, UnreadableIsNoBook
    DEF ForgetContact, Readable, Opens, StoredBook
  <2>3. StoredBook' = Forgotten(StoredBook, a)
    BY <1>2, <2>1, <2>2 DEF WriteBook, StoredBook, Box
  <2>4. Promised!Forget(a)
    BY <2>2, <2>3 DEF Promised!Forget, Promised!Forgotten, Forgotten
  <2>. QED
    BY <2>4 DEF Promised!Next
<1>6. CASE \E t \in Threads : SetTokenSort(t) \/ Quarantine(t) \/ Repair(t)
  <2>1. UNCHANGED file["contacts"]
    BY <1>2, <1>6 DEF SetTokenSort, Quarantine, Repair, WriteSettings
  <2>. QED
    BY <2>1 DEF StoredBook
<1>7. CASE UNCHANGED vars \/ Manager \/ Restart
  BY <1>1, <1>7 DEF vars, vaultVars, Manager, Restart
<1>8. CASE \E f \in Feeds : Deliver(f) \/ FeedEnds(f) \/ ReleaseFlag(f)
  BY <1>1, <1>8 DEF vaultVars, Deliver, FeedEnds, ReleaseFlag
<1>9. CASE Worker
  BY <1>1, <1>3, <1>9
  DEF Worker, Take, Close, AnswerCurrent, NoAnswer, HearLocked, HearKey,
      AnswerBox, AnswerBoxLocked, UnlockAsIs, UnlockUnsealed, Emit, vaultVars
<1>10. CASE \E t \in Threads : Begin(t) \/ Goes(t)
  BY <1>1, <1>4, <1>5, <1>6, <1>10
  DEF vaultVars, Begin, Goes, Swap, SwapFlag, Subscribe, SubscribeFails, Tell,
      Reply, RepairFails, Say
<1>. QED
  BY <1>7, <1>8, <1>9, <1>10 DEF Next

(* ProfileKeys implements AddressBook: whatever keys come and go, however often   *)
(* the box is sealed again, and across restarts, the stored book changes one      *)
(* entry at a time, never overfills, and one that is not ours is never replaced.  *)
THEOREM BookRefined ==
    ASSUME "contacts" \in Vaults
    PROVE  Spec => BookKept
<1>1. Init => Promised!Init
  BY TypeInit, StoredBookType, SameBooks DEF Promised!Init
<1>2. TypeOK /\ [Next]_vars => [Promised!Next]_StoredBook
  BY BookStep
<1>3. Spec => []TypeOK
  BY TypeCorrect, PTL
<1>. QED
  BY <1>1, <1>2, <1>3, PTL DEF Spec, BookKept, Promised!Spec

================================================================================
