--------------------------- MODULE BountyPromise ---------------------------
(***************************************************************************)
(* What a bounty promises, without handlers, statements and failures: a    *)
(* delivery is booked at most once, and its row and the balance of its     *)
(* user move together; it is counted on the leaderboard only after that,   *)
(* and announced only after it was counted.  Any of the three may never    *)
(* happen; none is ever taken back.                                        *)
(***************************************************************************)
EXTENDS Integers

CONSTANTS Request, Account, Amounts

VARIABLES
    balance,    \* what each account owns
    ledger,     \* the bookings: delivery, account and amount
    counted,    \* the deliveries that count on the leaderboard
    announced   \* the deliveries that consumers were told of

promise == <<balance, ledger, counted, announced>>

Booked(r) == \E row \in ledger : row.req = r

Init ==
    /\ balance = [u \in Account |-> 0]
    /\ ledger = {} /\ counted = {} /\ announced = {}

Book(r, u, amount) ==
    /\ ~Booked(r)
    /\ ledger' = ledger \cup {[req |-> r, user |-> u, amount |-> amount]}
    /\ balance' = [balance EXCEPT ![u] = @ + amount]
    /\ UNCHANGED <<counted, announced>>

Count(r) ==
    /\ Booked(r)
    /\ counted' = counted \cup {r}
    /\ UNCHANGED <<balance, ledger, announced>>

Announce(r) ==
    /\ r \in counted
    /\ announced' = announced \cup {r}
    /\ UNCHANGED <<balance, ledger, counted>>

Next == \E r \in Request :
    \/ \E u \in Account, amount \in Amounts : Book(r, u, amount)
    \/ Count(r)
    \/ Announce(r)

Spec == Init /\ [][Next]_promise
=============================================================================
