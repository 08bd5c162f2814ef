------------------------------ MODULE AddressBook ------------------------------
(* What contacts.rs promises of the address book whatever keys come and go: it  *)
(* changes by one entry at a time, at a save or a forget, it never holds more   *)
(* than MaxContacts entries, and a file that is no book, or that was sealed     *)
(* under other keys, is never replaced by a book.                               *)
EXTENDS Contacts

CONSTANT Unreadable     \* what is on disk is no book of ours

VARIABLE book

Init == book \in Books \cup {Unreadable}

Save(a, n) ==
    /\ book # Unreadable
    /\ Fits(book, a)
    /\ book' = Saved(book, a, n)

Forget(a) ==
    /\ book # Unreadable
    /\ book' = Forgotten(book, a)

Next == \E a \in Addresses : Forget(a) \/ \E n \in Names : Save(a, n)

Spec == Init /\ [][Next]_book

================================================================================
