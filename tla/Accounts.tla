-------------------------------- MODULE Accounts --------------------------------
(* The account methods: the signer manager's inventory as an account list, and joined *)
(* by address with what the keystore has of labels and wallets (`accounts.rs`). The  *)
(* two owners are asked one after the other and need not agree.                     *)

CONSTANTS
    Addresses,      \* EVM addresses
    Names,          \* labels that are not blank
    Facts,          \* what is said of an account's signer, origin and availability
    NoEntry,        \* the keystore has nothing under a key
    NotListed,      \* the manager does not have an address
    Malformed       \* the manager has it in a row that cannot be read

Blank == "blank"
NoFacts == "no facts"

ASSUME NamesAreNames == Blank \notin Names /\ NoFacts \notin Facts

\* An address is spelled as this module would write it, or in another way that the method
\* recognises: merge_labels one with 0x or in another case, merge_wallets one in another case.
\* What a method does not recognise is no key here.
Forms == {"own", "other"}
Keys == Addresses \X Forms

Labels == Names \cup {Blank}
Entry(facts) == [label : Labels, facts : facts]

ASSUME OddRowsAreNoRows ==
    {NoEntry, NotListed, Malformed} \cap Entry(Facts \cup {NoFacts}) = {}

IsEntry(entry) == entry # NoEntry

AccountMethods ==
    {"list_accounts", "get_account_labels", "get_account_wallets", "account_roster"}

\* A labels reply has names and nothing else.
EntriesOf(m) ==
    Entry(IF m = "get_account_labels" THEN {NoFacts} ELSE Facts \cup {NoFacts})

VARIABLES
    query,          \* the method that runs, or ran last
    stage,          \* "keystore", "manager" or "replied"
    kept,           \* what the keystore answered, by key
    inventory,      \* what the manager answered, by address
    shown           \* the reply

accountsVars == <<query, stage, kept, inventory, shown>>

NoEntries == [k \in Keys |-> NoEntry]

\* External: the keystore has an address under one key.
KeystoreReplies(entries) ==
    {s \in [Keys -> entries \cup {NoEntry}] :
        \A a \in Addresses : \E f \in Forms : ~IsEntry(s[<<a, f>>])}

\* External: the manager lists an account once, and may list one that has no address.
Row == Entry(Facts)
Inventories == [Addresses -> Row \cup {NotListed, Malformed}]

Listed(rows) == {a \in Addresses : rows[a] \in Row}

Present(rows) == {a \in Addresses : rows[a] # NotListed}

--------------------------------------------------------------------------------
\* Mutant: a row without an address is passed over.
ReadsTheRest(rows) == TRUE

\* evm_rows: one row without an address is an error of the whole.
EveryRowReads(rows) == \A a \in Addresses : rows[a] # Malformed

\* Mutant: the keystore's label is looked for under one spelling.
NamedAsWritten(labels, a) ==
    IsEntry(labels[<<a, "own">>]) /\ labels[<<a, "own">>].label # Blank

Named(labels, a) ==
    \E f \in Forms : IsEntry(labels[<<a, f>>]) /\ labels[<<a, f>>].label # Blank

\* merge_labels: a name of the manager's goes to an address that has none.
Borrows(labels, rows, k) ==
    /\ k[2] = "own" /\ k[1] \in Listed(rows)
    /\ rows[k[1]].label # Blank /\ ~Named(labels, k[1])

MergeLabels(labels, rows) ==
    [k \in Keys |-> IF Borrows(labels, rows, k)
                    THEN [label |-> rows[k[1]].label, facts |-> NoFacts]
                    ELSE labels[k]]

\* Mutant: the facts go under the manager's spelling.
OwnKey(wallets, a) == "own"

\* The spelling the keystore has, or else the manager's.
KeyOf(wallets, a) == IF IsEntry(wallets[<<a, "other">>]) THEN "other" ELSE "own"

\* merge_wallets: what the keystore has beside the facts stays as it is.
MergeWallets(wallets, rows) ==
    [k \in Keys |->
        IF k[1] \in Listed(rows) /\ k[2] = KeyOf(wallets, k[1])
        THEN [label |-> IF IsEntry(wallets[k]) THEN wallets[k].label ELSE Blank,
              facts |-> rows[k[1]].facts]
        ELSE wallets[k]]

--------------------------------------------------------------------------------
Failure == [ok |-> FALSE, accounts |-> {}, entries |-> NoEntries]
Success(accounts, entries) == [ok |-> TRUE, accounts |-> accounts, entries |-> entries]

AccountsInit ==
    /\ query \in AccountMethods /\ stage = "replied"
    /\ kept = NoEntries /\ inventory = [a \in Addresses |-> NotListed]
    /\ shown = Failure

AsksKeystore(m) == m \in {"get_account_labels", "get_account_wallets"}

AskAccounts(m) ==
    /\ stage = "replied" /\ query' = m
    /\ stage' = IF AsksKeystore(m) THEN "keystore" ELSE "manager"
    /\ kept' = NoEntries /\ inventory' = [a \in Addresses |-> NotListed]
    /\ shown' = Failure

KeystoreAnswers ==
    /\ stage = "keystore" /\ stage' = "manager"
    /\ kept' \in KeystoreReplies(EntriesOf(query))
    /\ UNCHANGED <<query, inventory, shown>>

\* It refuses, is late or unreadable: no labels, but the wallets' origins all the same.
KeystoreFails ==
    /\ stage = "keystore"
    /\ stage' = IF query = "get_account_labels" THEN "replied" ELSE "manager"
    /\ UNCHANGED <<query, kept, inventory, shown>>

\* The manager answers, and the method replies. The roster is passed on as it is, with the
\* rows that cannot be read.
ManagerAnswers ==
    /\ stage = "manager" /\ stage' = "replied"
    /\ inventory' \in Inventories
    /\ LET rows == inventory' IN
         shown' = IF query = "account_roster" THEN Success(Present(rows), NoEntries)
                  ELSE IF ~EveryRowReads(rows) THEN Failure
                  ELSE Success(Listed(rows),
                               CASE query = "get_account_labels" -> MergeLabels(kept, rows)
                                 [] query = "get_account_wallets" -> MergeWallets(kept, rows)
                                 [] OTHER -> NoEntries)
    /\ UNCHANGED <<query, kept>>

ManagerFails ==
    /\ stage = "manager" /\ stage' = "replied"
    /\ UNCHANGED <<query, kept, inventory, shown>>

AccountsNext ==
    \/ KeystoreAnswers \/ KeystoreFails \/ ManagerAnswers \/ ManagerFails
    \/ \E m \in AccountMethods : AskAccounts(m)

AccountsSpec == AccountsInit /\ [][AccountsNext]_accountsVars

--------------------------------------------------------------------------------
(* Properties.                                                                   *)

\* Every variable has a value of its kind: in particular no row that cannot be read, and
\* nothing but names in a labels reply.
AccountsTypeOK ==
    /\ query \in AccountMethods /\ stage \in {"keystore", "manager", "replied"}
    /\ kept \in KeystoreReplies(EntriesOf(query))
    /\ inventory \in Inventories
    /\ shown \in [ok : BOOLEAN, accounts : SUBSET Addresses,
                  entries : [Keys -> EntriesOf(query) \cup {NoEntry}]]

\* A list of accounts is the manager's, whole, or an error: none is missing from a success
\* because the manager failed or because some row of it cannot be read (accounts.rs, tests:
\* failed or malformed inventories do not become empty successes).
InventoryOrError ==
    shown.ok => shown.accounts = {a \in Addresses : inventory[a] # NotListed}

NamesIn(labels, a) ==
    {labels[<<a, f>>].label : f \in {g \in Forms : IsEntry(labels[<<a, g>>])}} \ {Blank}

\* An account has one name at most: the user's, in whichever spelling of its address the
\* keystore has it, and the manager's only where there is no other (accounts.rs,
\* merge_labels).
UsersNameWins ==
    shown.ok /\ query = "get_account_labels" =>
        \A a \in Addresses :
            NamesIn(shown.entries, a) =
                IF NamesIn(kept, a) # {} \/ inventory[a] = NotListed
                THEN NamesIn(kept, a) ELSE {inventory[a].label} \ {Blank}

FactsIn(wallets, a) ==
    {wallets[<<a, f>>].facts : f \in {g \in Forms : IsEntry(wallets[<<a, g>>])}}

\* What a wallets reply says of a listed account's signer is what the manager said in this
\* call, once, whatever the keystore kept or failed to say (accounts.rs, merge_wallets:
\* names must neither discard origins nor retain old metadata).
FactsAreTheManagers ==
    shown.ok /\ query = "get_account_wallets" =>
        \A a \in Addresses : inventory[a] # NotListed =>
            FactsIn(shown.entries, a) = {inventory[a].facts}

================================================================================
