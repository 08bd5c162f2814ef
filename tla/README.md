# logos-eth-wallet-backend: specifications

TLA+ models of the wallet backend in `src/rust-lib`, checked with TLC, and theorems about
them checked with TLAPS. Line numbers are those of the files under `src/rust-lib/src`
unless another path is given.

## The system

One Rust module, loaded in a host process, between the wallet's views and the modules that
own wallets, chains, tokens and transactions. A view depends on this module alone. Every
method may be called on a dispatch thread of its own (`concurrency: "multi"`), and the module
has threads of its own beside them: one listener per subscription and one key worker per
`State`. Nothing of what the other modules own is kept here: a method asks the owner and
shapes the reply, and an event makes a view ask again. What the module does keep are two
sealed files, their keys while a wallet is unlocked, and the flags of its subscriptions.

### Inventory

| component | state it keeps | operations | interacts with | hard behaviour | what makes it correct |
|---|---|---|---|---|---|
| **Profile keys** (`profile.rs`, `glue.rs` 363-440, 626-643) | `Vault.key` per store, the worker's queue, `wallets_changed`/`wallets_locked` | `watch_wallets`, `relay_to_keys`, `serve_keys`, `refresh`, `unlock`, `close` | signer_manager_module (asks, events), both stores | arming is not retroactive, answers overtaken by events, timeouts, a lock among queued work, rotation with sealing again | no lost wake-up; a lock drops both keys; a box is sealed forward only; every move is announced; no dispatch thread waits for it |
| **Address book** (`contacts.rs`) | `contacts.json` | `list`, `save`, `remove` | the vault's gate | read-modify-write beside rotation and locks, unreadable files, the 512 bound, a crash between steps | changes one entry at a time, never replaced when unreadable |
| **Settings** (`settings.rs`) | `settings.json` | `set_token_sort`, `shown`, quarantine and repair | the vault's gate, `token_sort_changed` | two steps under one gate, announcement after the gate is released | the repair holds its key; no change unannounced |
| **File primitives** (`store.rs`) | temporary files | staged write and rename | both stores | crash between write and rename | old file or new one, never half of one |
| **Relays** (`glue.rs` 322-340, 574-779) | one flag and one thread per feed | `watch_keystore`, `watch_signers`, `watch_sender`, `watch_chain_config`, `watch_scope`, `watch_chain_enabled`, `watch_tokens` | keystore, signer manager, tx sender, eth_rpc, token_list; the views | several threads arm one feed, feeds end, the window between a read and a subscription | one listener per feed; a view is fresh, told, or knows of a failure; every event reaches every view it concerns |
| **Token picker** (`catalogue.rs`, `glue.rs` 1091-1122) | none; the view scrolls | `list_available_tokens` | token_list, evm_assets | page seams, limits at zero, `hasMore` | the pages are the whole list |
| **Context** (`glue.rs` 351-361, 560-572, 974-1010) | `state`, replaced as a whole | `on_context_ready` | everything above | it can run again while methods of the first run | two States never corrupt one file |
| **Dependency defaults** (`depinit.rs`, `glue.rs` 784-806) | two flags | `ensure_eth_rpc`, `ensure_token_list` | eth_rpc, token_list | budget runs out, concurrent first calls, answers not heard | a flag is set only behind the defaults; a dependency that came late still gets them |
| **Networks and tokens** (`glue.rs` 814-850, 923-970, 1012-1139, 1454-1467) | none | `list_networks`, `verified_proxy_state`, `set_chain_enabled`, `set_network_scope`, `list_tokens`, `list_available_tokens`, `set_token_enabled`, `suggest_fees` | eth_rpc, token_list, evm_assets, fee_module | the scope moves between check and use; one budget for a call to each chain | what is asked about was in scope; no method outlasts its budget |
| **Accounts** (`accounts.rs`, `glue.rs` 1158-1221) | none | `list_accounts`, `get_account_labels`, `get_account_wallets`, `account_roster`, `signer_wallets` | keystore, signer manager | two owners read one after the other, that spell an address differently | a list is whole or an error; one name and one set of facts to an account |
| **Sends** (`glue.rs` 854-921, 1377-1442, `send_status.rs`) | none; tx_sender holds them | `prepare_send`, `send`, `send_status`, `cancel_send`, `refresh_tx_status` | tx_sender, evm_assets, eth_rpc | a reply lost after the request was registered, polling until `final` | a poller stops on the end of a send and on nothing else |
| **Portfolio** (`history.rs`, `glue.rs` 1259-1375) | none | `get_balances`, `get_history`, `refresh_pending` | tx_sender, token_list, evm_assets | one chain of several fails, the budget runs out before decoration, the scope moves under the view's timer | a failure costs its own chain only; the timer runs while a shown row can move |
| **Budgets** (`budget.rs`) | `started`, `total` of one call | `take`, `slice`, `callee_deadline`, `round_trip` | every outbound call | one allowance over a chain of calls | grants sum to at most the total, and the last call gets its share |
| **Verdicts** (`verified.rs`, `glue.rs` 814-831) | none | `normalize`, `unknown_verdict`, `weakest_route` | eth_rpc | a probe that times out | no answer is never permission |
| **Replies** (`failure.rs`, `glue.rs` 453-513) | none | `err`, `unreached`, `relay` | the views | none | wording only |

`src/doctests/approver-probe` is a fixture of the end-to-end test, not a part of the wallet.

## What is modelled

### `ProfileKeys`: sealed stores, key worker, wallet feeds

The central module: the manager (external), the two feeds, the threads that arm them, the
key worker and the dispatch threads that read and write the stores, from the moment
`on_context_ready` has installed its `State`. `Contacts` holds what a book is; `AddressBook`
is the abstract specification of the sealed book.

| state | code |
|---|---|
| `unlocked`, `generation` | the manager: whether any wallet is unlocked, the generation of its data keys |
| `flag`, `listener`, `pending` | `State.wallets_changed`, `State.wallets_locked`; the thread `relay_to_keys` spawns; the events it has yet to take |
| `work` | the `mpsc` queue of `KeyWork`; what queues together is drained into one ask, so a set is enough |
| `stage`, `scope`, `moved`, `locking` | where `serve_keys` is, its `moved` and `lock` |
| `current`, `boxKey` | `refresh`'s two keys, by their generation |
| `held`, `file` | `Vault.key` and what is on disk under each path |
| `at`, `feed`, `armed` | where a thread is; in `watch_wallets`, which feed it is at and its `armed` |
| `report`, `unsaid` | history: how a vault's last refresh ended; something moved and has not been announced |

A dispatch thread that calls a sealed method runs `Begin` (the swap of the first flag),
`Subscribe` or `SubscribeFails` for each flag it found clear, `Tell` if it armed any, and
then its operation: `Reply` (every reply that writes nothing), `SaveContact`,
`ForgetContact`, `SetTokenSort` (then `Say`), or `Quarantine` followed by `Repair` or
`RepairFails` under one hold of the gate. The worker runs `Take`, `Close` once per vault if a
lock was taken, then per vault `AnswerCurrent` or `NoAnswer`, `HearLocked` or `HearKey`,
perhaps `AnswerBox` or `AnswerBoxLocked`, and one of the three `Unlock...` actions, and last
`Emit`. The manager moves between any two of these steps, and so does `Restart`.

Steps that hold a gate throughout and touch nothing else that is shared are one action; the
repair of the settings is two, because the file is gone in between. The manager answers at
the moment of `AnswerCurrent`, and the answer is heard later, so it can be overtaken.

### `Feeds`: the relays

Seven feeds, `on_context_ready` as one thread (`Host`), and views that each call one method
whenever they like, and in any case when told. A feed's owner is one number, its version;
`Read` copies it. `Arms`, `Asks`, `Announces` and `SpeakFirst` are the wiring of `glue.rs`:
which feeds a method arms, which owners it asks in which order, which events a listener
emits, and which listeners announce once before they listen.

| state | code |
|---|---|
| `version`, `pending` | the owners (external), and the events of a subscription |
| `flag`, `phase`, `listeners` | `watching_keystore`, `watching_sender` and `Feeds`; the listener threads |
| `at`, `toArm`, `toRead` | a thread inside `on_context_ready` or a method, with what it has still to do |
| `seen`, `failed`, `due` | a view: what it shows, whether its last call was refused, whether it has been told |
| `unarmed` | history: flags clear when the method began and not swapped since |

### `Catalogue`: the token picker

`ProviderOffset`, `WithNative`, `Truncated` and `HasMore` are `provider_offset` and
`merge_native_page` on rows that are numbers; `NextPage` is a view that scrolls with the
replies of `list_available_tokens`, `Query` one that starts over.

### `Budget` and `Sends`: prepare, send, poll, cancel

`Budget` is the arithmetic of `budget.rs`: `Slice`, `CalleeDeadline`, `RoundTrip`,
`SenderBudget` and the allowances, in milliseconds. `Sends` is a view that makes one call of
`prepare_send` or `send` at a time and polls and cancels what it was told of, against a sender
(external) that holds the request.

| state | code |
|---|---|
| `inScope`, `seeded` | eth_rpc's network scope (external), `deps.eth_rpc` |
| `step`, `sending`, `elapsed`, `rt` | how far `prepare_send` or `send` is, its `Budget`, the chain's `round_trip` |
| `allowance`, `answer`, `answeredAt` | the delegated call: its grant, the sender's answer and when it gave it |
| `sender`, `registered`, `status` | tx_sender_module: whether it has `final`, the requests it registered |
| `known`, `stopped`, `poll`, `reply` | the view: ids it was told, sends it polls no more, calls of `send_status` in flight |
| `scoped`, `lost` | history: the chain was in scope during the call; the link dropped the reply |

A call goes `Seed` (`ensure_eth_rpc`, whose failure stops nothing), `ReadRegistry` (the scope is
looked at here), `OfferedTokens`, `BuildTransfer`, `Hand`; `Refused` is every early return. The
sender answers in its deadline (`SenderRegisters`, `SenderAnswers`), and `AnswerHeard` or
`AnswerMissed` ends the call. `HearStatus` and `MissStatus` are `send_status::relay` on an answer and
on none; `IsFinal` is `is_final`.

### `Registry`: what every read begins with

eth_rpc's chains, which of them are in the network scope, and whether eth_rpc has its defaults and
has said so. `AfterEnsuring` is `ensure_eth_rpc` and `ensure_token_list`: the outcomes of one
`init_defaults`, applied and heard, applied and not heard, or not applied. `AfterDiscovery` is
`chain_configs`, both calls out of one `READ_BUDGET`. `Networks`, `Balances` and `History` extend it.

| state | code |
|---|---|
| `inScope`, `moves` | eth_rpc (external): the chains enabled in the scope, how often that has moved |
| `applied`, `seeded` | eth_rpc's defaults (external), `deps.eth_rpc` |

### `Networks`: chains, tokens, verdicts and fees, call by call

Threads that each run one method with one Budget, beside `on_context_ready`, which seeds the same
dependencies. `After` is the order of each method's calls and `PerCall` what each may take.
`Normalized` is `verified::normalize`.

| state | code |
|---|---|
| `listApplied`, `listSeeded` | token_list's defaults (external), `deps.token_list` |
| `method`, `at`, `chain`, `elapsed` | a dispatch thread: its method, the call it makes next, its argument, its Budget's `started` |
| `probes`, `verdict` | the loop of `list_networks` and `verified_proxy_state`, and what it has put in the reply |
| `opened`, `scoped` | history: chains eth_rpc said do not block; the call's chain was in scope at some time of it |

`EnsureEthRpc`, `EnsureTokenList`, `ReadRegistry` (with `in_scope_chain`), `Verdict` or `NoVerdict` for each
chain, and `Asks` are the calls; `Refused` is every early return; `SetScope` is `set_chain_enabled` and
`set_network_scope`, whose reply may be late though the scope has moved.

### `Balances`: a thread to a chain, and the join

| state | code |
|---|---|
| `fanned`, `discovery`, `asked` | `get_balances` behind `chain_configs`, the time that took, `ids` |
| `thread`, `spent`, `result` | the scoped threads, their Budgets and what they come back with |
| `joined` | the entries of `chains` so far |

`FanOut`, then per chain `ChainTokensRead` or `ChainTokensFail`, `AssetsRead`, `Panics`, and `Join` in
registry order, whichever thread ends first.

### `History`: rows in scope, decorated, and a timer

| state | code |
|---|---|
| `status`, `mined` | tx_sender's rows of one address and the chain's receipts (external) |
| `step`, `used`, `ids` | where `get_history` or `refresh_pending` is, its Budget, the chains in scope |
| `answered`, `history` | the sender's rows as they came, and `history::scope` of them |
| `left`, `named`, `unread` | the loop over `history::chains`: still to read, read, and `unread` |
| `reply`, `due`, `told` | the view: the last reply, its timer (`stillDue`), whether it is to read again |

`ReadScope`, `SenderAnswers`, then `OfferedRead` and perhaps `CatalogueRead` per chain, and `Decorated`
or `DecorationFails`; the timer's `Ticks` and `Sweeps` beside them, while rows appear, stall and are
mined and the scope moves.

### `Accounts`: the joins by address

`list_accounts`, `get_account_labels`, `get_account_wallets` and `account_roster` on what two owners
answer one after the other: `kept` (the keystore's entries, by the spelling of the address), `inventory`
(the manager's rows), `shown` (the reply). `MergeLabels` and `MergeWallets` are `merge_labels` and
`merge_wallets`; `EveryRowReads` is the error of `evm_rows`.

### `Pages`: the reads beside each other

The dispatch threads run the calls of different pages at the same time. The backend keeps nothing between
them but whether a dependency has its defaults (`seeded`, and eth_rpc's `applied` behind it); what they read of
each other's doing is the scope, which the methods of `Networks` write. `Pages` composes `Catalogue`, `Networks`,
`History`, `Balances` and `Accounts` over these shared variables: a step is one of any page that is in use
(`OnNetworks`, `OnHistory`, `OnBalances`, `OnAccounts`, `OnPicker`), in the middle of the others' calls, and changes
the registry and its own state only. A move of the scope, whichever page makes it, is noted by the calls about one
chain that run (`NotesScope`, history) and told to the view of the history (`HearsOfScope`).

| state | code |
|---|---|
| `inUse` | which views and which methods of `Networks` a behaviour has; `Together` bounds the choice |

A page may be opened before the startup's seeding or behind it, so `seeded` may be true at first, but only with
`applied`. `PagesTypeOK` joins the type invariants. `MCPages` gives the values and narrows the first states.

## What is checked

Definitions marked `Mutant:` are plausible bugs: put in the place of the definition that
follows them, each breaks a property of the run that `PROJECT.json` names, which shows that
the property depends on the code it is about. No specification uses them.

| run | question | states |
|---|---|---|
| `KeysRounds` | both vaults, one round at a time: does a lock drop both keys before anything is asked (`LockDropsBoth`), is no move of the manager lost (`NoLostWakeUp`), does a box open after a refresh that reported no error (`RefreshedBoxOpens`)? | 0.6 M |
| `KeysFair` | a caller and the host arm feeds that end and fail: do methods end on their own (`MethodsReturn`), and does the vault follow the manager (`FollowsTheManager`)? | 0.2 M |
| `KeysBook` | writes, rotation, locks and a crash, from every kind of file: `TypeOK`, boxes never go back (`KeysNeverGoBack`), the book is the abstract one (`BookKept`) | 1.5 M |
| `KeysOrder` | two writers of the settings: is every move announced (`MovesAnnounced`), does a repair keep its key (`RepairHoldsKey`)? | 1 M |
| `FeedsAccounts` | an account page and a repeated startup: `TypeOK`, `OneListener`, `AccountsFresh`, `ReadsRearm`, `ViewsCatchUp` | 85 k |
| `FeedsHeard` | three views of the chain record and the token list: `HeardByAll` | 1.6 M |
| `Sends` | a send and its retries, on a chain timeout of 15 s and of 60 s: `TypeOK`, back in time (`InTime`), time left for the sender (`SenderHasItsTime`), nothing registered behind a caller that gave up (`AnswerComesHome`) or for a chain never in scope (`ScopeWasSeen`); does a poller stop at the end of the send, and only there (`PollingEnds`, `StopsAtTheEnd`)? | 73 k |
| `Pages` | every page by itself, and in pairs: a history under `set_chain_enabled`, balances under `set_network_scope` and beside the startup's seeding. The picker: does a scroll lose or repeat a row (`SeamlessPages`), is `hasMore` right (`MoreIsMore`)? On every page `PagesTypeOK`. The networks: back within one budget (`MethodsInTime`), no verdict opens a chain but eth_rpc's word (`GateFailsClosed`), only what was in scope is asked about (`ChainWasInScope`), defaults that arrive (`FairDefaults`). The history: rows kept whatever fails (`ActivityIsKept`), gaps named once (`GapsAreNamedOnce`), a timer condition that is that of the rows shown (`TimerIsRight`), a timer that stops when it should and not before (`FairTimer`). The balances: every chain its own entry (`ChainsKeepTheirOwn`), time for evm_assets and for the view (`AssetsHaveTheirTime`, `BalancesComeInTime`). The accounts: whole or an error (`InventoryOrError`), one name, one set of facts (`UsersNameWins`, `FactsAreTheManagers`) | 0.3 M |

Four runs show a disagreement between the code and what its own text says, and TLC finds
each in a few steps:

| run | text | what the code does |
|---|---|---|
| `KeysFirstSave` | `src/README.md:84`: a box of an older generation is sealed again under the current one | `refresh` looks at the file outside the gate; a first save that comes between leaves a box under the old generation, with no error, that the vault cannot open until something makes the worker ask again |
| `FeedsTokens` | `glue.rs:323`: a feed that ends re-arms on the next read | no read arms `token_list`'s feed, only `set_token_enabled` and `on_context_ready`: the startup arms it, the feed ends, and `list_tokens` reads on with the flag clear (`EndedFeedsRearm`) |
| `FeedsWindow` | `glue.rs:701`: this feed is how a view learns that the other app moved an endpoint | a read between another thread's swap and its subscription, and a move before the subscription: nobody is told. `watch_keystore` and `watch_signers` announce once for this reason; the eth_rpc feeds do not |
| `CatalogueZero` | `glue.rs:87`: a limit of zero or less is no limit | with a limit of zero the native row is counted and not shown, and the last row comes twice |

More were met and have no run of their own:

- `profile.rs:149` says that a `locked` answer closes the vault, but the answer to the second ask of a
  refresh is not looked at; the lock event that follows puts it right, which `NoLostWakeUp` covers.
- `budget.rs:93` says that the calls of a send exactly fit `SEND_BUDGET`: for the default timeouts they
  fit with room to spare, and from about 19 s on the sender is handed less than its five round trips
  (`InTime` holds, `SenderHasItsTime` is stated for the default timeouts).
- `FEES_BUDGET` is likewise enough for the default timeouts and short by 2.4 s for one of 60 s
  (`FeesHaveTheirTime` has the same condition).
- `budget.rs:118` describes `VERDICT_BUDGET` as that of one `verified_proxy_state`; the method runs under
  `READ_BUDGET`, in which it asks about every chain in scope. `list_networks` asks about the others as
  well, in registry order, so that with many chains the later ones go without a probe and block.
- `contacts.rs:93` says that the gate serializes read-modify-write. A repeated `on_context_ready` makes a
  second `State` with gates of its own over the same files, and a writer that took the first one
  is not serialized with those of the second. No module has two `State`s.
- `get_balances` writes `chainId` into whatever JSON evm_assets answers; an answer that is valid JSON and
  no object would panic the join itself, not the thread whose panic it handles (`glue.rs:1299`). The
  model's evm_assets answers with objects, as evm_assets does.

### Bounds, and why they are enough

- Two generations: an answer, a box and a held key can each be one behind. A third adds no
  new order of two.
- One event of a feed told apart while it waits (`MaxPending` 1): the relays treat all events
  of a feed alike and re-read, so a second waiting event is the first again.
- One caller beside the host, two in `KeysOrder`, where two writers meet: arming is decided by
  an atomic swap per feed, and two threads are enough for every order of two swaps.
- One vault where the vaults do not meet (`KeysBook`, `KeysOrder`, `KeysFair`), both where they
  do (`KeysRounds`). The worker treats them alike and in a row.
- A book of at most one entry over two addresses: room, full, and a rename when full.
- One crash (`KeysBook`): every step has a crash after it, and the run starts from every file
  a crash can leave.
- `KeysFair` keeps the generation still: the liveness check over rotations as well exceeds what
  TLC does in minutes. Rotation is in `KeysRounds` and `KeysBook`, and `NoLostWakeUp`, the safety
  part of the argument, is proved for any number of generations.
- `MaxMoves` 1 in the feeds' runs: a view is behind or it is not, and a run may start reading
  before or after the move. `MaxContexts` 2 in `FeedsAccounts` is the startup that runs again.
- The symmetry in `KeysOrder` permutes the two callers, which no property tells apart; that run
  checks invariants only.
- In `Pages` two chains: one that fails beside one that does not, one in scope beside one that is
  not, and a join that can be out of order. One move of the scope, before, in or behind any call. A call takes no
  time or all it was granted (`Durations` is `{0}`), the extremes of what is left for the next; the theorems
  have any durations.
- Two rows of history, one on each chain, one of which moved a token its chain does not offer:
  a scope filter, an error and a timer can each concern one row and not the other.
- One caller beside the startup on the networks' page, enough for two threads at one flag; `applied` is
  open there. Either row of the history may appear late.
- What is in use together in `Pages` (`SomeTogether`) is a page by itself or one of three pairs, those in which one
  page moves the registry under another's call or seeds it beside one; the history's with the method that writes one
  chain, the balances' with the one that writes them all. The other pairs share the same two things, and the accounts
  and the picker share neither. The history is opened behind the seeding, the balances of a pair before it; a pair's
  history begins with one row pending and one resolved, and a pair's scope with all chains, or with the first beside
  the startup. The theorems of `Pages_proofs` have any set of uses together, all of them at once included, from any of
  the first states.
- Two addresses, two names and two sets of facts: one address can borrow and another keep, and old
  and new can differ.
- Catalogues of up to five rows and pages of one to four or without a limit, so that a seam falls at each place.
- In `Sends` every call takes all that it may (`Durations` is empty), the worst case for a budget; one
  request, which a retry after a lost or late reply would double; two calls of `send_status` in
  flight, so that an older answer can be heard after a newer one; one way of ending before the
  broadcast, one after it, and the cancel, since only moving and ended are told apart.

What the theorems below state is free of these bounds.

### Fairness

`MethodsReturn` assumes that a thread inside a method goes on, and nothing of anybody else.
`FollowsTheManager` assumes besides that the worker and the listener threads run, which the
operating system's scheduler gives, and that an ask ends: `profile_key` waits at most
`KEY_BUDGET` and a second (line 411), so `NoAnswer` is always possible while it waits. In
`FeedsAccounts` a call is answered or times out (`RPC_BUDGET`), and a view that is told to read
again does. In `Sends` a view polls on, and a sender that is asked again and again at some time says
how the send stands and is heard: that is what `send_status` asks of it, and without it nobody
learns anything. In `Pages` threads go on, a view that is told reads again and its timer ticks while
it is due; and what is asked again and again is at some time answered (strong fairness of the registry's, the sender's and the sweep's answers, and of a dependency
that is asked to take its defaults). The conditions of the networks (`NetworksFairness`) and of the history
(`HistoryFairness`) are the assumptions of `FairDefaults` and `FairTimer`, one each; nothing is assumed of the
other pages beside them. That a view goes on reading the tokens of each chain (`ReadsOn`) is an assumption of `DefaultsArrive` besides,
for without a read nobody asks the dependency again. No fairness makes the manager answer, a feed last, a subscription succeed or an
owner announce anything. That the manager falls silent is an assumption of the liveness
properties, not a constraint of the model: under moves without end nobody ever catches up.

No run turns deadlock checking off: the manager, or a view that asks again, can always move.

## What is proved

`ProfileKeys_proofs`, for any constants that meet the modules' assumptions (finite addresses,
bounds that are numbers, writes only to stores that exist):

- `TypeCorrect` and `RepairKeeps`: `TypeOK` and `RepairHoldsKey`. The two are inductive together: the book
  written in a repair is one a vault writes only if the key is still held. The step for the
  512 bound rests on `SavedIsBook` and `ForgottenIsBook`, lemmas about `Fits`, `Saved` and
  `Forgotten`.
- `BothAreDropped`: `LockDropsBoth`, from `LockInv == LockDropsBoth /\ FirstIsClosed`. The property speaks of
  the end of the closing; between the two vaults only the first is closed, and that has to be said.
- `MovesAreAnnounced`: `MovesAnnounced`, on top of `TypeOK`.
- `SealedForward`: `KeysNeverGoBack`, from `ForwardInv`: neither the key held nor the one in the worker's hand is
  ahead of the manager's generation, and no box is newer than the key in hand unless somebody could write
  since it was given, whatever rotates while the answer is on its way.
- `WakeUpsKept`: `NoLostWakeUp`, from `KeysInv == TypeOK /\ RepairHoldsKey /\ RoundShape /\
  WakeInv`. `NoLostWakeUp` alone is not inductive: it says nothing of which vault a stage of
  the round is about (`RoundShape`), or of a thread that has armed one feed and is still to
  arm the other (`WakeInv`), and both decide whether the ask that a state relies on really
  comes.
- `BookRefined`: `Spec => BookKept`, that is, `ProfileKeys` implements `AddressBook` under the
  refinement mapping `StoredBook`. Sealing again, quarantine and every key move are stutters of
  the book; saves and forgets are its steps.
- `OnlyFirstWritesAreMissed` and `StoredBooksStayOpen`: `RefreshedBoxOpens`, which is false in general
  (`KeysFirstSave`), under what makes it true. The first is a theorem about behaviours: as long as no
  first write of a store falls between the worker's look at the file (`wanted`) and its unlock
  (`FirstWriteIsApart`), every vault that was refreshed opens its box, whatever rotates, crashes, locks
  and queues. So the race that the run shows is the only one there is. The second needs no assumption
  about the schedule: with a book on disk there is no first write, whatever is saved and forgotten.
  `OpensInv` says besides that the box a vault is about to be given the key for is of the generation the
  worker took it to be.
- `StoredOrderIsKept`, the settings' counterpart of `BookRefined`, and an action property: settings the vault wrote are
  never moved aside as unreadable (`quarantine`), and the stored order changes by `set_token_sort` alone, whatever is
  refused, locked, rotated or restarted, with two exceptions that its condition names: the race above, and a box
  that could not be written when it was to be sealed again (`LeavesUnsealed`). In both the key moves on and the next
  `set_token_sort` starts from the defaults. It is proved from the same `OpensInv`, and no run checks it.

`Feeds_proofs`:

- `AloneOnItsFeed`: `OneListener`, from `FeedsInv == TypeOK /\ Held`, where `Held` says who stands
  for a flag that is set: the one thread that is about to subscribe, or the one listener.
- `AccountsNeverStale`: `AccountsFresh`, for every set of views, feeds and faults. It rests on
  `SpeakFirst`: a listener that starts tells the views of everything that was missed.
- `EveryViewHears` and `FeedsTyped`: `HeardByAll` and `TypeOK`.
- `OnlyTheWindowIsMissed`, an action property: the only step of the system that turns a view which is fresh
  or told into one that is neither is the one that takes a feed up without announcing once
  (`ComesUpSilently`): no failing feed, no refused method, no second startup and no thread that overtakes
  another does it. `NetworksNeverStaleBut` is its consequence for `NetworksFresh` (and for every other view and
  feed): it holds in every behaviour where no owner moves between a read and the feed's coming up
  (`NothingWasMissed`), which is what happens in `FeedsWindow`.
- `PagesRearm` and `ReadsRearmTheirFeeds`: `ReadsRearm`, for views of any method but the two that leave a
  feed to the startup (`LeavesToStartup`, `list_tokens` and `get_history`; `FeedsTokens` shows the first). `PagesRearm`
  has no assumption and speaks of the other views beside those. `Rearms` says that what a call has still to
  ask is of feeds whose flag it found set, that somebody has swapped since, or that it is still to arm.

`Catalogue_proofs`:

- `PageIsSlice`: each page is the slice of the whole list that starts at its offset, for every
  size, offset and limit but zero.
- `SeamlessScroll` and `ScrollEnds`: `SeamlessPages` and `MoreIsMore`, for any sets of sizes and
  page sizes, zero excepted (`CatalogueZero` shows why). The invariant `ScrollInv` adds that
  `offset` counts the rows loaded.
- `ScrolledIsWhole`: when a scroll is promised no more, it has the whole list, and no row twice. Without it
  `SeamlessPages` would be true of a scroll that stops at its first page.

`Sends_proofs`, for any records, durations up to a grant, trips up to the margin, and any number of
requests and pollers:

- `SendsTyped`, `BackInTime`, `NoStrayRequest`, `StopsOnlyAtTheEnd`: `TypeOK`, `InTime`, `AnswerComesHome` and
  `StopsAtTheEnd`, from `SendsInv == TypeOK /\ Clocks /\ AnswerComesHome /\ Polled /\ StopsAtTheEnd`. `Clocks` bounds what
  the calls in front may have used; it follows that the sender always gets at least
  `SENDER_BUDGET`, so that it always has a deadline, without which an answer could come too late
  (`callee_deadline` is `None` below 350 ms). `Polled` says that a final answer on its way is one of a
  send that is over, which is what stopping rests on.

- `ScopeSeen` and `SenderIsGivenTime`: `ScopeWasSeen` and `SenderHasItsTime`, each from `SendsInv` and an invariant of
  what the call has seen and used at each step (`ScopeNoted`, `Handed`).

`Registry_proofs` has lemmas only: what a slice is at most and at least, and how long seeding and
discovery take.

`Networks_proofs`, for any threads, chains, records and durations, from `NetworksInv == OwnersOK /\ CallsOK /\
VerdictsOK`: `NetworksTypeCorrect`, `WithinOneBudget` (`MethodsInTime`), `FeesAreGranted` (`FeesHaveTheirTime`),
`ClosedUnlessToldSo` (`GateFailsClosed`), `DefaultsBeforeFlags` (`SeededMeansApplied`) and `OnlyInScope`
(`ChainWasInScope`). `FeesHaveTheirTime` and `SeededMeansApplied` are proved only: they follow from the arithmetic of
`Budget` and from `AfterEnsuring`, and no run spends a state on them. `CallOK` says of a thread at each of its calls what it may have used by then, and that a chain
in scope now has been noted as such, without which a move of the scope between two calls breaks the
last.

`Portfolio_proofs`, for any chains, rows and durations:

- `BalancesTypeCorrect`, `ReplyIsTheChains` (`ChainsKeepTheirOwn`), `AssetsAreNotStarved` (`AssetsHaveTheirTime`) and
  `BalancesInTime` (`BalancesComeInTime`), from `BalancesInv`: what a thread may have spent at each of its stages
  (`ThreadClocks`), and that the entries so far are of the lowest chains, all ended (`JoinedShape`).
- `HistoryTypeCorrect`, `GapsNamed` (`GapsAreNamedOnce`) and `ActivityKept` (`ActivityIsKept`), from `HistoryInv`. Its `CallShape`
  says that the rows in hand are the answer's in scope, and that a chain is still to be read, has its
  names, or is among the unread, and only one of these.

- `TimerRight`: `TimerIsRight` from the time the view is opened, by `TimerInv`: a view that waits for
  nothing has its timer on exactly if a row in scope is pending. It is the safety part of `FairTimer`.
- For any addresses, names and facts, from `AccountsInv`: `AccountsTypeCorrect`, `NoPartialInventory`
  (`InventoryOrError`), `UsersNamesShown` (`UsersNameWins`) and `ManagersFactsShown` (`FactsAreTheManagers`).

`Pages_proofs` composes them. What a component proves, it proves against its own steps; in `Pages` the
registry's variables are shared, and a call of one page seeds the defaults or moves the scope in the middle of a
call of another. `PagesInv` is the conjunction of the components' invariants and nothing else. The lemmas
`...Elsewhere` show that each of them survives a step of another page at any point of its own calls: that step keeps
the registry consistent, leaves the component's own variables, and has a move of the scope noted and told. For any
constants that meet the components' assumptions, and any uses together:

- `PagesTypeCorrect`: `PagesTypeOK`, the five type invariants at once.
- `PagesSafe`: `NetworksSafe` and `PortfolioSafe`, that is, `MethodsInTime`, `FeesHaveTheirTime`, `GateFailsClosed`, `ChainWasInScope`,
  `SeededMeansApplied`, `GapsAreNamedOnce`, `TimerIsRight`, `ChainsKeepTheirOwn`, `AssetsHaveTheirTime`, `BalancesComeInTime`,
  `InventoryOrError`, `UsersNameWins` and `FactsAreTheManagers` of the specification that the run checks, whatever calls
  of whatever pages run beside each other.
- `PagesKeepActivity` and `PagesScroll`: the action properties `ActivityIsKept` and `MoreIsMore`, and
  `SeamlessPages`, likewise (the scroll without limits of zero).

### Conditions on the theorems

The properties that a violation run refutes are proved under a condition that names the cause: `0 \notin Limits`
(`CatalogueZero`), `FirstWriteIsApart` (`KeysFirstSave`), `LeavesToStartup` (`FeedsTokens`) and `NothingWasMissed`
(`FeedsWindow`). The violation run lies on one side of the condition; `Pages`, `KeysRounds` and `FeedsAccounts` lie on the other,
so that both occur. The theorem says that there is no second cause.

### Only model-checked

The liveness properties `MethodsReturn`, `FollowsTheManager`, `ViewsCatchUp`, `PollingEnds`, `FairDefaults` and
`FairTimer` are out of the prover's reach (fairness and ENABLED). The invariants they rest on are proved:
`NoLostWakeUp`, `OneListener` and `HeardByAll`, `StopsAtTheEnd`, `SeededMeansApplied`, `TimerIsRight`. Every other
property of a passing run is stated by a theorem. Induction over data and recursive operators are out of reach
too; there are none of either here.

## What is left out, and abstractions

- Contents: addresses, names and orders are values; normalising, sorting and JSON are not
  modelled. A file that parses as a box and does not open counts as `"foreign"`, whatever the
  reason; one whose plain text does not parse is the same to both stores.
- I/O errors of reads, other than a file that is not there, are not modelled. A write may fail
  (`Reply`, `RepairFails`, `UnlockUnsealed`); its temporary file is not modelled.
- The `accounts_changed` that `relay_to_keys` emits besides waking the worker: the account views
  of `Feeds` hear the keystore's and the manager's accounts feeds only.
- A second `State` while methods of the first still run. `Feeds` has the repeated startup, `Networks` the
  startup beside running methods, `Restart` the new process; the two gates over one file, and the worker
  of a replaced `State`, which ends at its next event, are not modelled.
- In `Feeds` the three subscriptions of `watch_sender` are one feed, and a method refused before
  its first `watch_*`, or for want of a `State`, has no effect and is no action. The owners' events are taken to be
  such as the listeners can decode: those they cannot are passed over (`glue.rs:678`-`774`), and what `HeardByAll`
  and the freshness properties say is said of the others.
- In `History` and `Pages` a view is told of a row or a scope that moves in the same step. In the code the news comes
  through a feed that may be down or not yet subscribed to; that is what `Feeds` is about, and `TimerIsRight` and
  `FairTimer` are stated on the condition that it is up.
- In `Sends` a request that does not parse is refused before anything and is no action; amounts,
  tokens and fees are the other modules'; `blocked` sends are awaiting approval. The scope is checked
  once, and may move before the sender registers: `ScopeWasSeen` says no more than the code does.
  A retry after a lost reply registers a second request; nothing in the code could tell.
- In `History` the `unresolved` and `blockedChains` of a reply, which are filtered as the rows are. A
  `get_history` that ends in an error changes neither the view's list nor its timer, and the view asks
  again: what a view does with an error is its own. `undecorated` and the whole decoration failing are one
  action, `DecorationFails`, whatever the reason.
- In `Networks` what a network's row says besides its verdict, and what a page of tokens holds (that is
  `Catalogue`). Of `verified.rs`, `weakest_route` (the smaller of the two routes of a quote) is not modelled, nor are
  `unwrap_answer`, `unwrap_rpc`, `is_blocking`, `held_by_the_gate` and `blocked_chain_json`, which nothing in `glue.rs` calls.
- In `Accounts` the roster is passed on as it is, with the rows that cannot be read; the keystore has an address
  under one spelling at a time, one that the method recognises (`merge_labels` passes over `0x` and case,
  `merge_wallets` over case only). `signer_wallets`, `refresh_tx_status`
  and `get_tx_details` are relays of one call that keep nothing.
- A view (external) reads again on the event whose documentation names what it shows; one view
  shows one method. `token_list`'s own paging, and what the manager does on unlock and rotation,
  are modelled from how the code uses them.

## Plan

What is left, in the order of what it would add:

1. **Context**: two `State`s over one pair of files, the weak handle that ends a replaced worker, and
   writers that took the first `State`; to be composed with `ProfileKeys`' vault actions. The promise
   it would check (a save never overwrites what it has not read) holds within one `State` only.
2. Rotation in `KeysFair`, if the liveness check over it can be made small enough.
3. I/O errors of reads in the two stores, where an unreadable file is moved aside.
4. Three pages together in `Pages`, or two callers on the networks' page; the theorems have any number of both.
