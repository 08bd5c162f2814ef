-------------------------------- MODULE MCSends ---------------------------------
(* Sends' values for TLC.                                                        *)
EXTENDS Sends

\* The longest of the default timeouts, that of a chain behind the verified proxy whose
\* record names none, and one the user has set beyond what a send may take.
ShortAndLong ==
    {[verified |-> TRUE, timeoutSecs |-> 8, verifiedTimeoutSecs |-> 0],
     [verified |-> FALSE, timeoutSecs |-> 90, verifiedTimeoutSecs |-> 15]}

================================================================================
