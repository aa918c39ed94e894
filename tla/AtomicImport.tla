---------------------------- MODULE AtomicImport ----------------------------
(***************************************************************************)
(* What an import promises, without its savepoint and its lock: what it    *)
(* takes of a file it takes at once, or it takes nothing, and at most one  *)
(* customer per number.  It does not promise to take every line.           *)
(***************************************************************************)
EXTENDS Naturals, FiniteSets

CONSTANTS Phones, NoPhone, Imports, MaxLines

VARIABLES
    directory,  \* customers per phone number
    records,    \* jobs, quotes, requests or expenses of the imports
    outcome,    \* what the user reads of an import: OPEN, COMPLETED or FAILED
    kept        \* lines of its file whose customer or record is in the database

vars == <<directory, records, outcome, kept>>

Init ==
    /\ directory = [p \in Phones \cup {NoPhone} |-> 0]
    /\ records = 0
    /\ outcome = [i \in Imports |-> "OPEN"]
    /\ kept = [i \in Imports |-> 0]

\* Somebody else adds a customer.
Arrive(p) ==
    /\ directory' = [directory EXCEPT ![p] = @ + 1]
    /\ UNCHANGED <<records, outcome, kept>>

\* n lines of a file are taken in: customers of numbers that have none, customers
\* without a number, and records, each from a line of its own.
Complete(i, n) ==
    /\ outcome[i] = "OPEN"
    /\ outcome' = [outcome EXCEPT ![i] = "COMPLETED"]
    /\ kept' = [kept EXCEPT ![i] = n]
    /\ \E newcomers \in SUBSET Phones, nameless, more \in 0..n :
         /\ \A p \in newcomers : directory[p] = 0
         /\ IsFiniteSet(newcomers) /\ Cardinality(newcomers) + nameless <= n
         /\ directory' = [p \in Phones \cup {NoPhone} |->
                            IF p \in newcomers THEN 1
                            ELSE IF p = NoPhone THEN directory[p] + nameless ELSE directory[p]]
         /\ records' = records + more

\* A file that is refused changes nothing else.
Refuse(i) ==
    /\ outcome[i] = "OPEN"
    /\ outcome' = [outcome EXCEPT ![i] = "FAILED"]
    /\ UNCHANGED <<directory, records, kept>>

Next ==
    \/ \E p \in Phones \cup {NoPhone} : Arrive(p)
    \/ \E i \in Imports : Refuse(i) \/ \E n \in 0..MaxLines : Complete(i, n)

Spec == Init /\ [][Next]_vars
=============================================================================
