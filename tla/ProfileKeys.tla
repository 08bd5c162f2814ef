------------------------------ MODULE ProfileKeys ------------------------------
(* The sealed stores and the keys they open under: the signer manager's two    *)
(* wallet feeds, the threads that arm them (`watch_wallets`), the key worker    *)
(* (`serve_keys` and `profile::refresh`) and the dispatch threads that read     *)
(* and write the address book and the settings (`contacts.rs`, `settings.rs`). *)
(*                                                                              *)
(* One context, from the moment `on_context_ready` has installed the State. A   *)
(* key is its generation: the manager answers one key per scope and generation. *)
EXTENDS Contacts, Integers

CONSTANTS
    Host,           \* the thread that runs on_context_ready
    Callers,        \* the dispatch threads that call the sealed methods
    Requests,       \* the writes they make, of {"save", "forget", "sort"}
    Vaults,         \* the stores a run keeps: the code has both of StoreNames
    Unreadable,     \* what AddressBook calls a file that is no book of ours
    Faults,         \* bound: of {"feedEnds", "subscribeFails"}, what may happen
    BookAtStart, SettingsAtStart,   \* bound: of FileKinds, what may be on disk
    MaxGeneration,  \* bound: the generations the manager moves through
    MaxPending,     \* bound: events of one feed told apart while they wait
    MaxCrashes      \* bound: restarts of the process

NoKey == -1
StoreNames == {"contacts", "settings"}
Feeds == {"changed", "locked"}

\* serve_keys goes over the contacts and then the settings.
First == IF "contacts" \in Vaults THEN "contacts" ELSE "settings"
Last == IF "settings" \in Vaults THEN "settings" ELSE "contacts"

Threads == Callers \cup {Host}
Orders == {"alpha", "balance"}
FileKinds == {"none", "junk", "foreign", "box"}
Generations == 0 .. MaxGeneration

ASSUME VaultsAreStores == Vaults # {} /\ Vaults \subseteq StoreNames
ASSUME RequestsAreServed ==
    /\ Requests \subseteq {"save", "forget", "sort"}
    /\ Requests \cap {"save", "forget"} # {} => "contacts" \in Vaults
    /\ "sort" \in Requests => "settings" \in Vaults
ASSUME HostIsNoCaller == Host \notin Callers
ASSUME BoundsAreNat ==
    /\ MaxGeneration \in Nat
    /\ MaxPending \in Nat \ {0}
    /\ MaxCrashes \in Nat
ASSUME UnreadableIsNoBook == Unreadable \notin Books

VARIABLES
    unlocked,       \* manager: some wallet is unlocked
    generation,     \* manager: the current generation of the profile keys
    flag,           \* State.wallets_changed / wallets_locked
    listener,       \* the relay thread of a feed: "none", "on" or "ended"
    pending,        \* events of a feed its thread has not taken yet
    work,           \* the key worker's queue; what queues together is one ask
    stage,          \* where the worker is in a round
    scope,          \* the vault it is at
    moved,          \* serve_keys' `moved`
    locking,        \* serve_keys' `lock`
    current,        \* refresh's current key, NoKey for a locked answer
    boxKey,         \* refresh's key for the box's own generation
    held,           \* Vault.key, NoKey while locked
    file,           \* what is on disk under each vault's path
    at,             \* where a thread is
    feed,           \* the feed its watch_wallets is at
    armed,          \* watch_wallets' `armed`
    report,         \* history: how a vault's last refresh ended
    unsaid,         \* history: moved since the last token_sort_changed
    crashes

managerVars == <<unlocked, generation>>
feedVars == <<flag, listener, pending>>
roundVars == <<stage, scope, moved, locking, current, boxKey>>
vaultVars == <<held, file>>
threadVars == <<at, feed, armed>>
historyVars == <<report, unsaid>>
vars == <<managerVars, feedVars, work, roundVars, vaultVars, threadVars,
          historyVars, crashes>>

--------------------------------------------------------------------------------
(* Files. A box opens only with the key of its own generation; a "foreign" one  *)
(* was sealed under other keys or moved from another file, and "junk" does not  *)
(* parse. A plain file from before sealing is as good as none.                  *)

Contents(v) == IF v = "contacts" THEN Books ELSE Orders
Default(v) == IF v = "contacts" THEN EmptyBook ELSE "alpha"

Box(g, d) == [kind |-> "box", gen |-> g, data |-> d]
NoFile(v) == [kind |-> "none", gen |-> NoKey, data |-> Default(v)]
Junk(v) == [kind |-> "junk", gen |-> NoKey, data |-> Default(v)]
Foreign(v, g) == [kind |-> "foreign", gen |-> g, data |-> Default(v)]

Files(v) ==
    {NoFile(v), Junk(v)}
        \cup {Foreign(v, g) : g \in Generations}
        \cup {Box(g, d) : g \in Generations, d \in Contents(v)}

\* SealedFile::wanted, NoKey for None.
Wanted(v) == file[v].gen

\* SealedFile::open with key k succeeds, and finds a box or no file.
Opens(v, k) ==
    \/ file[v].kind = "none"
    \/ file[v].kind = "box" /\ file[v].gen = k

IsOpen(v) == held[v] # NoKey
\* Mutant: a box sealed under another key is read as if it were empty.
ReadsAnything(v) == IsOpen(v)

Readable(v) == IsOpen(v) /\ Opens(v, held[v])

\* Mutant: quarantine and write each take the gate for themselves.
GatePerStep(v) == TRUE

\* Mutant: the worker asks the manager under the gate.
GateHeldToAsk(v) ==
    /\ stage \notin {"ask", "askBox"}
    /\ v = "contacts" \/ \A t \in Threads : at[t] # "repair"

\* A vault's gate is held across two steps in one place: settings' repair.
GateFree(v) == v = "contacts" \/ \A t \in Threads : at[t] # "repair"

--------------------------------------------------------------------------------
\* What an earlier process may have left: no box of a generation yet to come.
OnDisk(v, kinds) == {f \in Files(v) : f.kind \in kinds /\ f.gen <= generation}

Init ==
    /\ unlocked \in BOOLEAN
    /\ generation \in Generations
    /\ flag = [f \in Feeds |-> FALSE]
    /\ listener = [f \in Feeds |-> "none"]
    /\ pending = [f \in Feeds |-> 0]
    /\ work = {"ask"}
    /\ stage = "recv" /\ scope = First
    /\ moved = FALSE /\ locking = FALSE
    /\ current = NoKey /\ boxKey = NoKey
    /\ held = [v \in Vaults |-> NoKey]
    /\ \E c \in OnDisk("contacts", BookAtStart),
          s \in OnDisk("settings", SettingsAtStart) :
            file = [v \in Vaults |-> IF v = "contacts" THEN c ELSE s]
    /\ at = [t \in Threads |-> IF t = Host THEN "swap" ELSE "idle"]
    /\ feed = [t \in Threads |-> "changed"]
    /\ armed = [t \in Threads |-> FALSE]
    /\ report = [v \in Vaults |-> "ok"]
    /\ unsaid = FALSE
    /\ crashes = 0

--------------------------------------------------------------------------------
(* The signer manager (external): its wallets lock, unlock and change, and it   *)
(* announces each move on the feed that is armed. Nothing buffers before that.  *)

Announce(f) ==
    pending' = IF listener[f] = "on" /\ pending[f] < MaxPending
               THEN [pending EXCEPT ![f] = @ + 1] ELSE pending

Unlock ==
    /\ unlocked' = TRUE
    /\ Announce("changed")
    /\ UNCHANGED generation

Rotate ==
    /\ unlocked
    /\ generation < MaxGeneration
    /\ generation' = generation + 1
    /\ Announce("changed")
    /\ UNCHANGED unlocked

LockAll ==
    /\ unlocked
    /\ unlocked' = FALSE
    /\ Announce("locked")
    /\ UNCHANGED generation

LockSome ==
    /\ unlocked
    /\ Announce("locked")
    /\ UNCHANGED managerVars

Manager ==
    /\ Unlock \/ Rotate \/ LockAll \/ LockSome
    /\ UNCHANGED <<flag, listener, work, roundVars, vaultVars, threadVars,
                   historyVars, crashes>>

--------------------------------------------------------------------------------
(* The feeds: `listen` and `relay_to_keys`. A thread relays what its feed       *)
(* brings as work for the key worker; when the feed ends it releases the flag.  *)

WorkOf(f) == IF f = "locked" THEN "lock" ELSE "ask"

\* Mutant: what arrives while the worker is busy is dropped.
DeliverToIdle(f) ==
    /\ pending[f] > 0
    /\ pending' = [pending EXCEPT ![f] = @ - 1]
    /\ work' = IF stage = "recv" THEN work \cup {WorkOf(f)} ELSE work
    /\ UNCHANGED <<managerVars, flag, listener, roundVars, vaultVars,
                   threadVars, historyVars, crashes>>

Deliver(f) ==
    /\ pending[f] > 0
    /\ pending' = [pending EXCEPT ![f] = @ - 1]
    /\ work' = work \cup {WorkOf(f)}
    /\ UNCHANGED <<managerVars, flag, listener, roundVars, vaultVars,
                   threadVars, historyVars, crashes>>

\* The manager went away. What its thread had yet to take is lost: taking it
\* first is the same as a feed that ends later.
FeedEnds(f) ==
    /\ "feedEnds" \in Faults
    /\ listener[f] = "on"
    /\ listener' = [listener EXCEPT ![f] = "ended"]
    /\ pending' = [pending EXCEPT ![f] = 0]
    /\ UNCHANGED <<managerVars, flag, work, roundVars, vaultVars, threadVars,
                   historyVars, crashes>>

ReleaseFlag(f) ==
    /\ listener[f] = "ended"
    /\ listener' = [listener EXCEPT ![f] = "none"]
    /\ flag' = [flag EXCEPT ![f] = FALSE]
    /\ UNCHANGED <<managerVars, pending, work, roundVars, vaultVars,
                   threadVars, historyVars, crashes>>

--------------------------------------------------------------------------------
(* The key worker: `serve_keys`, and `profile::refresh` inside it.              *)

Rest ==
    /\ stage' = "recv" /\ scope' = First
    /\ moved' = FALSE /\ locking' = FALSE
    /\ current' = NoKey /\ boxKey' = NoKey

\* Mutant: `moved = done.moved`, the last vault's alone.
RoundForgets(m) ==
    \/ /\ scope # Last
       /\ stage' = "ask" /\ scope' = Last
       /\ moved' = m
       /\ current' = NoKey /\ boxKey' = NoKey
       /\ UNCHANGED locking
    \/ /\ scope = Last
       /\ m
       /\ stage' = "emit"
       /\ moved' = TRUE
       /\ current' = NoKey /\ boxKey' = NoKey
       /\ UNCHANGED <<scope, locking>>
    \/ /\ scope = Last
       /\ ~ m
       /\ Rest

\* `moved |= done.moved`, and on to the next vault or to the end of the round.
RoundGoesOn(m) ==
    \/ /\ scope # Last
       /\ stage' = "ask" /\ scope' = Last
       /\ moved' = (moved \/ m)
       /\ current' = NoKey /\ boxKey' = NoKey
       /\ UNCHANGED locking
    \/ /\ scope = Last
       /\ moved \/ m
       /\ stage' = "emit"
       /\ moved' = TRUE
       /\ current' = NoKey /\ boxKey' = NoKey
       /\ UNCHANGED <<scope, locking>>
    \/ /\ scope = Last
       /\ ~ (moved \/ m)
       /\ Rest

Report(r) == report' = [report EXCEPT ![scope] = r]

Take ==
    /\ stage = "recv"
    /\ work # {}
    /\ work' = {}
    /\ locking' = ("lock" \in work)
    /\ stage' = IF "lock" \in work THEN "close" ELSE "ask"
    /\ UNCHANGED <<managerVars, feedVars, scope, moved, current, boxKey,
                   vaultVars, threadVars, historyVars, crashes>>

\* Mutant: `||`, which leaves the second vault open once the first one closed.
CloseEither ==
    /\ stage = "close"
    /\ GateFree(scope)
    /\ held' = [held EXCEPT ![scope] = NoKey]
    /\ moved' = (moved \/ IsOpen(scope))
    /\ unsaid' = (unsaid \/ IsOpen(scope))
    /\ IF scope # Last /\ ~ IsOpen(scope)
       THEN scope' = Last /\ UNCHANGED stage
       ELSE scope' = First /\ stage' = "ask"
    /\ UNCHANGED <<managerVars, feedVars, work, locking, current, boxKey, file,
                   threadVars, report, crashes>>

\* Mutant: a lock closes and does not ask again.
CloseForGood ==
    /\ stage = "close"
    /\ held' = [v \in Vaults |-> NoKey]
    /\ unsaid' = FALSE
    /\ Rest
    /\ UNCHANGED <<managerVars, feedVars, work, file, threadVars, report,
                   crashes>>

\* `contacts.vault().close() | settings.vault().close()`: both, in this order.
Close ==
    /\ stage = "close"
    /\ GateFree(scope)
    /\ held' = [held EXCEPT ![scope] = NoKey]
    /\ moved' = (moved \/ IsOpen(scope))
    /\ unsaid' = (unsaid \/ IsOpen(scope))
    /\ IF scope # Last
       THEN scope' = Last /\ UNCHANGED stage
       ELSE scope' = First /\ stage' = "ask"
    /\ UNCHANGED <<managerVars, feedVars, work, locking, current, boxKey, file,
                   threadVars, report, crashes>>

\* The manager answers as it stands, and may move again before it is heard.
AnswerCurrent ==
    /\ stage = "ask"
    /\ current' = IF unlocked THEN generation ELSE NoKey
    /\ stage' = "hear"
    /\ UNCHANGED <<managerVars, feedVars, work, scope, moved, locking, boxKey,
                   vaultVars, threadVars, historyVars, crashes>>

\* No answer in KEY_BUDGET, or another refusal, to either ask: the vault stays
\* as it was. An answer that comes later finds its channel gone.
NoAnswer ==
    /\ stage \in {"ask", "askBox"}
    /\ Report("refused")
    /\ RoundGoesOn(FALSE)
    /\ UNCHANGED <<managerVars, feedVars, work, vaultVars, threadVars, unsaid,
                   crashes>>

HearLocked ==
    /\ stage = "hear"
    /\ current = NoKey
    /\ GateFree(scope)
    /\ held' = [held EXCEPT ![scope] = NoKey]
    /\ unsaid' = (unsaid \/ IsOpen(scope))
    /\ Report("ok")
    /\ RoundGoesOn(IsOpen(scope))
    /\ UNCHANGED <<managerVars, feedVars, work, file, threadVars, crashes>>

\* Mutant: the box's own generation is never asked for.
HearCurrentOnly ==
    /\ stage = "hear"
    /\ current # NoKey
    /\ stage' = "unlock" /\ boxKey' = current
    /\ UNCHANGED <<managerVars, feedVars, work, scope, moved, locking, current,
                   vaultVars, threadVars, historyVars, crashes>>

\* `vault.wanted()` reads the file outside the gate.
HearKey ==
    /\ stage = "hear"
    /\ current # NoKey
    /\ IF Wanted(scope) \notin {NoKey, current}
       THEN stage' = "askBox" /\ boxKey' = Wanted(scope)
       ELSE stage' = "unlock" /\ boxKey' = current
    /\ UNCHANGED <<managerVars, feedVars, work, scope, moved, locking, current,
                   vaultVars, threadVars, historyVars, crashes>>

AnswerBox ==
    /\ stage = "askBox"
    /\ unlocked
    /\ stage' = "unlock"
    /\ UNCHANGED <<managerVars, feedVars, work, scope, moved, locking, current,
                   boxKey, vaultVars, threadVars, historyVars, crashes>>

\* `locked` is one more error here: the vault is left as it was.
AnswerBoxLocked ==
    /\ stage = "askBox"
    /\ ~ unlocked
    /\ Report("refused")
    /\ RoundGoesOn(FALSE)
    /\ UNCHANGED <<managerVars, feedVars, work, vaultVars, threadVars, unsaid,
                   crashes>>

\* Mutant: the arguments of `unlock` swapped where the key is taken.
TakeBoxKey ==
    /\ stage = "unlock"
    /\ GateFree(scope)
    /\ held' = [held EXCEPT ![scope] = boxKey]
    /\ unsaid' = (unsaid \/ held[scope] # boxKey)
    /\ RoundGoesOn(held[scope] # boxKey)
    /\ UNCHANGED <<managerVars, feedVars, work, threadVars, crashes>>

\* Vault::unlock takes the current key whether or not the box could be sealed
\* again under it.
TakeKey ==
    /\ stage = "unlock"
    /\ GateFree(scope)
    /\ held' = [held EXCEPT ![scope] = current]
    /\ unsaid' = (unsaid \/ held[scope] # current)
    /\ RoundGoesOn(held[scope] # current)
    /\ UNCHANGED <<managerVars, feedVars, work, threadVars, crashes>>

UnlockAsIs ==
    /\ boxKey = current \/ file[scope].kind = "none"
    /\ Report("ok")
    /\ UNCHANGED file
    /\ TakeKey

UnlockSealingAgain ==
    /\ boxKey # current
    /\ file[scope].kind = "box"
    /\ file[scope].gen = boxKey
    /\ file' = [file EXCEPT ![scope] = Box(current, @.data)]
    /\ Report("ok")
    /\ TakeKey

\* The box did not open, or the new one could not be written.
UnlockUnsealed ==
    /\ boxKey # current
    /\ file[scope].kind # "none"
    /\ Report("unsealed")
    /\ UNCHANGED file
    /\ TakeKey

\* Reads `settings.shown()` for the event's payload.
Emit ==
    /\ stage = "emit"
    /\ GateFree("settings")
    /\ unsaid' = FALSE
    /\ Rest
    /\ UNCHANGED <<managerVars, feedVars, work, vaultVars, threadVars, report,
                   crashes>>

Worker ==
    \/ Take \/ Close \/ AnswerCurrent \/ NoAnswer \/ HearLocked \/ HearKey
    \/ AnswerBox \/ AnswerBoxLocked
    \/ UnlockAsIs \/ UnlockSealingAgain \/ UnlockUnsealed \/ Emit

--------------------------------------------------------------------------------
(* The threads: on_context_ready's own, whose last act is watch_wallets, and     *)
(* the dispatch threads, each of whose sealed methods starts with it.            *)

Return(t) == at' = [at EXCEPT ![t] = "idle"]

\* Arming is not retroactive: a thread that armed a feed asks once more.
AfterFeeds(t, tells) ==
    /\ at' = [at EXCEPT ![t] = IF tells THEN "tell"
                               ELSE IF t = Host THEN "idle" ELSE "op"]
    /\ feed' = [feed EXCEPT ![t] = "changed"]

NextFeed(t, tells) ==
    \/ /\ feed[t] = "changed"
       /\ feed' = [feed EXCEPT ![t] = "locked"]
       /\ at' = [at EXCEPT ![t] = "swap"]
    \/ /\ feed[t] = "locked"
       /\ AfterFeeds(t, tells)

\* `swap(true)`: only the thread that finds the flag clear subscribes.
SwapFlag(t) ==
    /\ flag' = [flag EXCEPT ![feed[t]] = TRUE]
    /\ IF flag[feed[t]] THEN NextFeed(t, armed[t])
       ELSE at' = [at EXCEPT ![t] = "subscribe"] /\ UNCHANGED feed
    /\ UNCHANGED <<managerVars, listener, pending, work, roundVars, vaultVars,
                   armed, historyVars, crashes>>

\* A sealed method is called.
Begin(t) ==
    /\ t \in Callers
    /\ at[t] = "idle"
    /\ SwapFlag(t)

Swap(t) ==
    /\ at[t] = "swap"
    /\ SwapFlag(t)

Subscribe(t) ==
    /\ at[t] = "subscribe"
    /\ listener' = [listener EXCEPT ![feed[t]] = "on"]
    /\ armed' = [armed EXCEPT ![t] = TRUE]
    /\ NextFeed(t, TRUE)
    /\ UNCHANGED <<managerVars, flag, pending, work, roundVars, vaultVars,
                   historyVars, crashes>>

SubscribeFails(t) ==
    /\ "subscribeFails" \in Faults
    /\ at[t] = "subscribe"
    /\ flag' = [flag EXCEPT ![feed[t]] = FALSE]
    /\ NextFeed(t, armed[t])
    /\ UNCHANGED <<managerVars, listener, pending, work, roundVars, vaultVars,
                   armed, historyVars, crashes>>

Tell(t) ==
    /\ at[t] = "tell"
    /\ work' = work \cup {"ask"}
    /\ AfterFeeds(t, FALSE)
    /\ armed' = [armed EXCEPT ![t] = FALSE]
    /\ UNCHANGED <<managerVars, feedVars, roundVars, vaultVars, historyVars,
                   crashes>>

\* list_contacts, and every refusal of a write: locked, unreadable, full, or a
\* box that could not be written. No file changes, but the gate was taken.
Reply(t) ==
    /\ at[t] = "op"
    /\ \E v \in Vaults : GateFree(v)
    /\ Return(t)
    /\ UNCHANGED <<managerVars, feedVars, work, roundVars, vaultVars, feed,
                   armed, historyVars, crashes>>

WriteBook(t, b) ==
    /\ file' = [file EXCEPT !["contacts"] = Box(held["contacts"], b)]
    /\ Return(t)
    /\ UNCHANGED <<managerVars, feedVars, work, roundVars, held, feed, armed,
                   historyVars, crashes>>

SaveContact(t) ==
    /\ at[t] = "op"
    /\ "save" \in Requests
    /\ GateFree("contacts")
    /\ Readable("contacts")
    /\ \E a \in Addresses, n \in Names :
         /\ Fits(file["contacts"].data, a)
         /\ WriteBook(t, Saved(file["contacts"].data, a, n))

ForgetContact(t) ==
    /\ at[t] = "op"
    /\ "forget" \in Requests
    /\ GateFree("contacts")
    /\ Readable("contacts")
    /\ \E a \in Addresses :
         WriteBook(t, Forgotten(file["contacts"].data, a))

WriteSettings(o) ==
    /\ file' = [file EXCEPT !["settings"] = Box(held["settings"], o)]
    /\ UNCHANGED <<managerVars, feedVars, work, roundVars, held, feed, armed,
                   report, crashes>>

\* What changed is announced once the gate is released.
SetTokenSort(t) ==
    /\ at[t] = "op"
    /\ "sort" \in Requests
    /\ GateFree("settings")
    /\ Readable("settings")
    /\ \E o \in Orders :
         /\ WriteSettings(o)
         /\ IF o # file["settings"].data
            THEN at' = [at EXCEPT ![t] = "say"] /\ unsaid' = TRUE
            ELSE Return(t) /\ UNCHANGED unsaid

\* Settings that do not open are moved aside first, under the gate ...
Quarantine(t) ==
    /\ at[t] = "op"
    /\ "sort" \in Requests
    /\ GateFree("settings")
    /\ IsOpen("settings")
    /\ ~ Readable("settings")
    /\ file' = [file EXCEPT !["settings"] = NoFile("settings")]
    /\ at' = [at EXCEPT ![t] = "repair"]
    /\ UNCHANGED <<managerVars, feedVars, work, roundVars, held, feed, armed,
                   historyVars, crashes>>

\* ... and written anew from the defaults.
Repair(t) ==
    /\ at[t] = "repair"
    /\ \E o \in Orders : WriteSettings(o)
    /\ at' = [at EXCEPT ![t] = "say"]
    /\ unsaid' = TRUE

RepairFails(t) ==
    /\ at[t] = "repair"
    /\ Return(t)
    /\ UNCHANGED <<managerVars, feedVars, work, roundVars, vaultVars, feed,
                   armed, historyVars, crashes>>

Say(t) ==
    /\ at[t] = "say"
    /\ unsaid' = FALSE
    /\ Return(t)
    /\ UNCHANGED <<managerVars, feedVars, work, roundVars, vaultVars, feed,
                   armed, report, crashes>>

Goes(t) ==
    \/ Swap(t) \/ Subscribe(t) \/ SubscribeFails(t) \/ Tell(t)
    \/ Reply(t) \/ SaveContact(t) \/ ForgetContact(t)
    \/ SetTokenSort(t) \/ Quarantine(t) \/ Repair(t) \/ RepairFails(t) \/ Say(t)

\* The process dies between any two steps and its next context starts: the
\* files are what is left.
Restart ==
    /\ crashes < MaxCrashes
    /\ crashes' = crashes + 1
    /\ flag' = [f \in Feeds |-> FALSE]
    /\ listener' = [f \in Feeds |-> "none"]
    /\ pending' = [f \in Feeds |-> 0]
    /\ work' = {"ask"}
    /\ Rest
    /\ held' = [v \in Vaults |-> NoKey]
    /\ at' = [t \in Threads |-> IF t = Host THEN "swap" ELSE "idle"]
    /\ feed' = [t \in Threads |-> "changed"]
    /\ armed' = [t \in Threads |-> FALSE]
    /\ report' = [v \in Vaults |-> "ok"]
    /\ unsaid' = FALSE
    /\ UNCHANGED <<managerVars, file>>

--------------------------------------------------------------------------------
Next ==
    \/ Manager
    \/ \E f \in Feeds : Deliver(f) \/ FeedEnds(f) \/ ReleaseFlag(f)
    \/ Worker
    \/ \E t \in Threads : Begin(t) \/ Goes(t)
    \/ Restart

Spec == Init /\ [][Next]_vars

(* A thread inside a method goes on. Nothing else is sure to: not the worker, and *)
(* nothing makes the manager answer, a feed last, or a subscription succeed.     *)
DispatchFairness == \A t \in Threads : WF_vars(Goes(t))

DispatchSpec == Spec /\ DispatchFairness

(* The listener and worker threads run, and an ask is answered or times out.     *)
WorkerFairness ==
    /\ WF_vars(Worker)
    /\ \A f \in Feeds : WF_vars(Deliver(f)) /\ WF_vars(ReleaseFlag(f))

--------------------------------------------------------------------------------
(* Properties. *)

ManagerTypeOK ==
    /\ unlocked \in BOOLEAN
    /\ generation \in Generations

FeedTypeOK ==
    /\ flag \in [Feeds -> BOOLEAN]
    /\ listener \in [Feeds -> {"none", "on", "ended"}]
    /\ pending \in [Feeds -> 0 .. MaxPending]

RoundTypeOK ==
    /\ work \in SUBSET {"ask", "lock"}
    /\ stage \in {"recv", "close", "ask", "hear", "askBox", "unlock", "emit"}
    /\ scope \in Vaults
    /\ moved \in BOOLEAN
    /\ locking \in BOOLEAN
    /\ current \in Generations \cup {NoKey}
    /\ boxKey \in Generations \cup {NoKey}
    /\ stage \in {"askBox", "unlock"} => current # NoKey

VaultTypeOK ==
    /\ held \in [Vaults -> Generations \cup {NoKey}]
    /\ DOMAIN file = Vaults
    /\ \A v \in Vaults : file[v] \in Files(v)

ThreadTypeOK ==
    /\ at \in [Threads ->
              {"idle", "swap", "subscribe", "tell", "op", "repair", "say"}]
    /\ feed \in [Threads -> Feeds]
    /\ armed \in [Threads -> BOOLEAN]

HistoryTypeOK ==
    /\ report \in [Vaults -> {"ok", "refused", "unsealed"}]
    /\ unsaid \in BOOLEAN
    /\ crashes \in 0 .. MaxCrashes

(* Every variable keeps its type: in particular each file is one a vault writes, *)
(* so no book on disk ever holds more than MAX_CONTACTS entries, and the worker  *)
(* is never past the first ask without a key.                                     *)
TypeOK ==
    /\ ManagerTypeOK
    /\ FeedTypeOK
    /\ RoundTypeOK
    /\ VaultTypeOK
    /\ ThreadTypeOK
    /\ HistoryTypeOK

(* The gate keeps the settings' key in place from the moment an unreadable file  *)
(* is moved aside until its replacement is written: no lock comes in between.    *)
RepairHoldsKey ==
    \A t \in Threads : at[t] = "repair" => "settings" \in Vaults /\ IsOpen("settings")

\* The key a vault should hold: the current generation's while any wallet is
\* unlocked, none while all are locked.
Expected == IF unlocked THEN generation ELSE NoKey

\* The feed that announced the manager's last move of the expected key.
Cause == IF unlocked THEN "changed" ELSE "locked"

Deaf == listener[Cause] # "on"

\* A thread has armed a feed and has yet to ask.
Telling(t) == armed[t] /\ at[t] \in {"swap", "subscribe", "tell"}

\* An ask is queued, or sure to be.
AskComing ==
    \/ work # {}
    \/ pending[Cause] > 0
    \/ \E t \in Threads : Telling(t)

\* This round has yet to ask the manager for v's key.
WillAsk(v) ==
    \/ stage = "close"
    \/ stage = "ask" /\ scope = v
    \/ v = Last /\ scope # Last /\ stage # "recv"

\* The manager has answered for v's key and the vault has yet to take it.
InHand(v) == scope = v /\ stage \in {"hear", "askBox", "unlock"}

(* No lost wake-up. A vault that does not hold the key the manager stands by    *)
(* has a reason: its last ask was refused, the feed of the manager's last move  *)
(* is down, or an ask that will set it right is on its way. Neither the window  *)
(* between subscribing and the first ask, nor an answer overtaken by a move,     *)
(* nor work that queues while the worker waits leaves it wrong for good.         *)
NoLostWakeUp ==
    \A v \in Vaults :
        \/ held[v] = Expected
        \/ report[v] = "refused"
        \/ Deaf \/ AskComing \/ WillAsk(v)
        \/ InHand(v) /\ current = Expected

(* Once a lock is taken both vaults stay closed until each one's own ask: no     *)
(* vault stays open because the other one was closed first, or because the       *)
(* manager does not answer.                                                       *)
LockDropsBoth ==
    locking => \A v \in Vaults :
        (stage \notin {"recv", "close"} /\ WillAsk(v)) => ~ IsOpen(v)

(* Whatever moved since the last token_sort_changed - a key that came or went,   *)
(* an order written - is about to be announced by the worker or by the thread    *)
(* that wrote it.                                                                 *)
MovesAnnounced ==
    unsaid => moved \/ \E t \in Threads : at[t] = "say"

(* No box is of a later generation than the key its open vault holds, or than    *)
(* the manager's: an answer that was overtaken never seals a box backwards.      *)
KeysNeverGoBack ==
    \A v \in Vaults :
        /\ file[v].gen <= generation
        /\ file[v].kind = "box" /\ IsOpen(v) => file[v].gen <= held[v]
        /\ InHand(v) /\ current # NoKey => current >= held[v]

\* The worker is done with all it was asked.
AtRest == stage = "recv" /\ work = {}

(* README.md:84: a box sealed under an older generation is sealed again under    *)
(* the current one. A refresh that reported no error leaves a box of ours that   *)
(* its vault can open.                                                            *)
RefreshedBoxOpens ==
    \A v \in Vaults :
        (AtRest /\ IsOpen(v) /\ report[v] = "ok" /\ file[v].kind = "box")
            => Readable(v)

\* What the address book says to whoever could open it.
StoredBook ==
    IF file["contacts"].kind \in {"none", "box"} THEN file["contacts"].data
    ELSE Unreadable

Promised == INSTANCE AddressBook WITH book <- StoredBook

(* Through every lock, rotation, sealing again, restart and interleaved write    *)
(* the stored book changes only as AddressBook allows.                            *)
BookKept == Promised!Spec

(* While the module's own threads run and once the manager announces no more,    *)
(* each vault comes to hold the expected key for good, unless its last ask was    *)
(* refused or the feed is down.                                                    *)
FollowsTheManager ==
    (WorkerFairness /\ <>[][~ Manager]_vars) =>
        \A v \in Vaults :
            <>[](held[v] = Expected \/ report[v] = "refused" \/ Deaf)

(* No dispatch thread waits on the manager: a method that has begun ends whatever *)
(* the key worker, the feeds and the manager do or never do.                      *)
MethodsReturn == \A t \in Threads : at[t] # "idle" ~> at[t] = "idle"

================================================================================
