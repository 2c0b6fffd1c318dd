------------------------------- MODULE Ledger -------------------------------
(***************************************************************************)
(* What a payment channel is to the two parties that use it: one account   *)
(* of what each of them owns and of the HTLCs under way, changed by one    *)
(* party at a time and for both at once.  There are no views, commitments, *)
(* revocations or packets here, and no fee: a balance is what a party      *)
(* owns before the fee of whatever transaction pays it out.               *)
(*                                                                         *)
(* The actions are written to be read of a pair of states: they take their *)
(* parameters from the state after the step, so that a detailed            *)
(* specification can be checked to implement this one.                     *)
(***************************************************************************)
EXTENDS Accounts

CONSTANT
    NULL        \* no account

VARIABLE
    ledger      \* NULL until the channel is funded, then [balance, htlcs, closed]

Counterparty(p) == CHOOSE q \in Parties : q # p

Open == ledger # NULL /\ ~ledger.closed

-----------------------------------------------------------------------------
(* Actions *)

Init == ledger = NULL

Fund ==
    /\ ledger = NULL
    /\ ledger' # NULL
    /\ \E p \in Parties : ledger' = Funded(p, ledger'.balance[p])

\* A party offers an HTLC it can pay for, under an id it has not in use.
Offer ==
    /\ Open /\ ledger' # NULL
    /\ \E htlc \in ledger'.htlcs :
          /\ Live(ledger, htlc.offerer, htlc.id) = {}
          /\ htlc.msatoshis > 0
          /\ ledger.balance[htlc.offerer] >= htlc.msatoshis
          /\ ledger' = Offered(ledger, htlc)

\* The party an HTLC was offered to takes its amount.
Fulfil ==
    /\ Open
    /\ \E htlc \in ledger.htlcs : ledger' = Settled(ledger, htlc, Counterparty(htlc.offerer))

\* The party an HTLC was offered to gives it back.
Fail ==
    /\ Open
    /\ \E htlc \in ledger.htlcs : ledger' = Settled(ledger, htlc, htlc.offerer)

\* The channel is closed by both; no HTLC is left behind.
Close ==
    /\ Open
    /\ ledger.htlcs = {}
    /\ ledger' = [ledger EXCEPT !.closed = TRUE]

Next == Fund \/ Offer \/ Fulfil \/ Fail \/ Close

Spec == Init /\ [][Next]_ledger

=============================================================================
