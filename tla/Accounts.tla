------------------------------ MODULE Accounts ------------------------------
(***************************************************************************)
(* The account of a payment channel: what each of its two parties owns,    *)
(* and the HTLCs under way, each with the party that offered it.  The      *)
(* operators are the changes an account goes through.                      *)
(***************************************************************************)
EXTENDS Integers

CONSTANT
    Parties     \* the two ends of the channel


\* The account of a channel that p funded with msat.
Funded(p, msat) ==
    [balance |-> [x \in Parties |-> IF x = p THEN msat ELSE 0],
     htlcs   |-> {},
     closed  |-> FALSE]

\* htlc is set aside from what its offerer owns.
Offered(account, htlc) ==
    [account EXCEPT !.balance[htlc.offerer] = @ - htlc.msatoshis,
                    !.htlcs = @ \cup {htlc}]

\* htlc comes to an end and its amount goes to receiver.
Settled(account, htlc, receiver) ==
    [account EXCEPT !.balance[receiver] = @ + htlc.msatoshis,
                    !.htlcs = @ \ {htlc}]

\* The HTLCs under way that offerer offered under id: one at most.
Live(account, offerer, id) ==
    {htlc \in account.htlcs : htlc.offerer = offerer /\ htlc.id = id}

=============================================================================
