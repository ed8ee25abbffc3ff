---------------------------- MODULE RecordLedger ----------------------------
(***************************************************************************)
(* What a store of the program promises, without saying how it is kept:    *)
(* once a record (an incident, a workload session) has reached the disk it *)
(* is never forgotten, and it enters the completed history at most once,   *)
(* however often the program is killed and restarted in between.           *)
(***************************************************************************)
EXTENDS Sequences

CONSTANT Ids            \* record identifiers

VARIABLES recorded,     \* ids the disk knows of, completed or not
          completed     \* ids of the completed history, oldest first

ledgerVars == <<recorded, completed>>

Init ==
    /\ recorded = {}
    /\ completed = <<>>

\* Records reach the disk for the first time; one write can hold several.
Record ==
    /\ recorded' \in SUBSET Ids
    /\ recorded \subseteq recorded'
    /\ UNCHANGED completed

\* A record is completed, once; it may not have been on disk before.
Complete(id) ==
    /\ \A i \in DOMAIN completed : completed[i] # id
    /\ recorded' = recorded \cup {id}
    /\ completed' = Append(completed, id)

Next == Record \/ \E id \in Ids : Complete(id)

Spec == Init /\ [][Next]_ledgerVars
=============================================================================
