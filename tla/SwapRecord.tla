----------------------------- MODULE SwapRecord -----------------------------
(***************************************************************************)
(* What the boltz extension promises of a swap's row in its database,      *)
(* whatever the kind of the swap: the row is born "pending", and its       *)
(* status only ever becomes an outcome for which the program has been      *)
(* given evidence (the invoice was paid, the refund transaction went out,  *)
(* Boltz does not know the swap...).  Both detailed specifications,        *)
(* SubmarineSwap and ReverseSwap, implement this one.                      *)
(***************************************************************************)
CONSTANT Swaps

VARIABLES
    status,     \* the status column of each row, "none" before the INSERT
    evidence    \* the outcomes each swap's world has given evidence of

vars == <<status, evidence>>

Outcomes == {"complete", "refunded", "failed"}

TypeOK ==
    /\ status \in [Swaps -> Outcomes \cup {"none", "pending"}]
    /\ evidence \in [Swaps -> SUBSET Outcomes]

Init ==
    /\ status = [s \in Swaps |-> "none"]
    /\ evidence = [s \in Swaps |-> {}]

\* A row is inserted, always as pending.
Open(s) ==
    /\ status[s] = "none"
    /\ status' = [status EXCEPT ![s] = "pending"]
    /\ UNCHANGED evidence

\* Something happens that justifies an outcome; it cannot be undone.
Learn(s, o) ==
    /\ evidence' = [evidence EXCEPT ![s] = @ \cup {o}]
    /\ UNCHANGED status

\* The row is given an outcome there is evidence of.
Record(s, o) ==
    /\ status[s] # "none"
    /\ o \in evidence[s]
    /\ status' = [status EXCEPT ![s] = o]
    /\ UNCHANGED evidence

Next ==
    \E s \in Swaps :
        \/ Open(s)
        \/ \E o \in Outcomes : Learn(s, o) \/ Record(s, o)

Spec == Init /\ [][Next]_vars

-----------------------------------------------------------------------------
\* A row never claims an outcome nothing justifies.
Justified ==
    \A s \in Swaps : status[s] \in Outcomes => status[s] \in evidence[s]

=============================================================================
