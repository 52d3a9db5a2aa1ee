----------------------------- MODULE MatchBook -----------------------------
(***************************************************************************)
(* What the match records of the lobby server promise, whoever reports,    *)
(* retries, disconnects or restarts: a match opens once, and then it ends  *)
(* once, either reported, and every account seated in it is credited at    *)
(* that very moment, or abandoned, and nobody ever is.                     *)
(***************************************************************************)
EXTENDS Naturals

CONSTANTS Accounts, MatchIds

VARIABLES
    status,  \* match -> "none", "open", "ended" or "abandoned"
    ledger   \* account -> match -> how often the match was credited

bookVars == <<status, ledger>>

Init ==
    /\ status = [m \in MatchIds |-> "none"]
    /\ ledger = [a \in Accounts |-> [m \in MatchIds |-> 0]]

Open(m) ==
    /\ status[m] = "none"
    /\ status' = [status EXCEPT ![m] = "open"]
    /\ UNCHANGED ledger

\* The report of m credits the accounts in seats, all in one step.
End(m, seats) ==
    /\ status[m] = "open"
    /\ status' = [status EXCEPT ![m] = "ended"]
    /\ ledger' = [a \in Accounts |->
                     IF a \in seats THEN [ledger[a] EXCEPT ![m] = @ + 1] ELSE ledger[a]]

Abandon(S) ==
    /\ status' = [m \in MatchIds |-> IF m \in S /\ status[m] = "open" THEN "abandoned" ELSE status[m]]
    /\ UNCHANGED ledger

Next ==
    \/ \E m \in MatchIds : Open(m)
    \/ \E m \in MatchIds, seats \in SUBSET Accounts : End(m, seats)
    \/ \E S \in SUBSET MatchIds : Abandon(S)

Spec == Init /\ [][Next]_bookVars

\* A match credits an account at most once, and only a reported match credits.
CreditedOnce ==
    \A a \in Accounts, m \in MatchIds :
        ledger[a][m] \in {0, 1} /\ (ledger[a][m] = 1 => status[m] = "ended")

=============================================================================
