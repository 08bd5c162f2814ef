-------------------------------- MODULE Contacts --------------------------------
(* What an address book is: which addresses are in it, under which names, and   *)
(* when one more fits. The values AddressBook promises about and ProfileKeys    *)
(* seals.                                                                        *)
EXTENDS Naturals, FiniteSets

CONSTANTS
    Addresses,      \* normalised addresses: one value for every casing of one
    Names,          \* the names a contact may have, the empty one included
    Absent,         \* what an address that is not in the book maps to
    MaxContacts     \* contacts.rs MAX_CONTACTS

ASSUME AddressesAreFinite == IsFiniteSet(Addresses)
ASSUME AbsentIsNoName == Absent \notin Names
ASSUME MaxContactsIsNat == MaxContacts \in Nat

Entries(b) == {a \in Addresses : b[a] # Absent}

Books == {b \in [Addresses -> Names \cup {Absent}] :
            Cardinality(Entries(b)) <= MaxContacts}

EmptyBook == [a \in Addresses |-> Absent]

\* Mutant: one entry too many.
FitsOneMore(b, a) == a \in Entries(b) \/ Cardinality(Entries(b)) <= MaxContacts

\* A full book refuses one more address, and still renames what it holds.
Fits(b, a) == a \in Entries(b) \/ Cardinality(Entries(b)) < MaxContacts

Saved(b, a, n) == [b EXCEPT ![a] = n]

Forgotten(b, a) == [b EXCEPT ![a] = Absent]

================================================================================
