------------------------------ MODULE Funding ------------------------------
(***************************************************************************)
(* ChannelState ("cstate"): the balances and the HTLCs of both sides at    *)
(* one commitment point, as one side of the channel sees them.  Every      *)
(* operator is a function from a cstate to a cstate (or to NULL, where the *)
(* C function returns NULL): packets.c keeps four of these per peer, the   *)
(* staging cstate and the committed cstate of its local and of its remote  *)
(* view, and calls these operators on them.                                *)
(*                                                                         *)
(* funding.c is not part of the sources at hand: the operators follow the  *)
(* calls packets.c makes and sections 3 and 4.1 of the specification.      *)
(* The fee is BaseFee + HtlcFee for each HTLC in the snapshot and is borne *)
(* by the side that funded the anchor; balances are kept net of it.        *)
(***************************************************************************)
EXTENDS Integers, FiniteSets, FiniteSetsExt

CONSTANTS
    BaseFee,    \* fee of a commitment transaction without HTLCs, in msat
    HtlcFee,    \* fee added by each HTLC output, in msat
    MaxHtlcs,   \* HTLCs one side may offer in a snapshot: 300
    NULL        \* the C NULL pointer, and -1 of funding_htlc_by_id

ASSUME BaseFee \in Nat /\ HtlcFee \in Nat /\ MaxHtlcs \in Nat \ {0}

OURS   == "OURS"
THEIRS == "THEIRS"
Sides  == {OURS, THEIRS}

\* !side in the C code.
Flip(side) == IF side = OURS THEN THEIRS ELSE OURS

NumHtlcs(cstate) == Cardinality(cstate.htlcs[OURS]) + Cardinality(cstate.htlcs[THEIRS])

ExpectedFee(cstate) == BaseFee + HtlcFee * NumHtlcs(cstate)

HtlcsMsat(cstate) ==
    MapThenSumSet(LAMBDA h : h.msatoshis, cstate.htlcs[OURS] \cup cstate.htlcs[THEIRS])

(***************************************************************************)
(* The first cstate of a channel: the funder holds the anchor less the     *)
(* fee, the other side nothing.  NULL when the anchor cannot pay the fee.  *)
(***************************************************************************)
initial_funding(satoshis, funder) ==
    LET msat == 1000 * satoshis
    IN  IF msat < BaseFee THEN NULL
        ELSE [funder  |-> funder,
              pay     |-> [s \in Sides |-> IF s = funder THEN msat - BaseFee ELSE 0],
              htlcs   |-> [s \in Sides |-> {}],
              changes |-> 0]

\* The HTLC with this id offered by side, or NULL (the C function's -1).
funding_htlc_by_id(cstate, id, side) ==
    IF \E h \in cstate.htlcs[side] : h.id = id
    THEN CHOOSE h \in cstate.htlcs[side] : h.id = id
    ELSE NULL

\* What adding an HTLC of msatoshis offered by side costs each side: the
\* offerer the amount, the funder the fee of one more output.
AddCost(cstate, msatoshis, side) ==
    [s \in Sides |-> (IF s = side THEN msatoshis ELSE 0)
                   + (IF s = cstate.funder THEN HtlcFee ELSE 0)]

(***************************************************************************)
(* funding_add_htlc: NULL when a side cannot pay its share, when side     *)
(* offers MaxHtlcs already or when it offers one of this id; else the      *)
(* cstate with the HTLC added, both balances charged and one more change.  *)
(***************************************************************************)
funding_add_htlc(cstate, htlc, side) ==
    LET cost == AddCost(cstate, htlc.msatoshis, side)
    IN  IF \/ \E s \in Sides : cstate.pay[s] < cost[s]
           \/ Cardinality(cstate.htlcs[side]) = MaxHtlcs
           \/ funding_htlc_by_id(cstate, htlc.id, side) # NULL
        THEN NULL
        ELSE [cstate EXCEPT !.pay     = [s \in Sides |-> @[s] - cost[s]],
                            !.htlcs[side] = @ \cup {htlc},
                            !.changes = @ + 1]

\* RemoveHtlc that leaves the funder charged for the output removed.
RemoveHtlc_KeepsFee(cstate, htlc, side, receiver) ==
    [cstate EXCEPT !.pay[receiver] = @ + htlc.msatoshis,
                   !.htlcs[side]   = @ \ {htlc},
                   !.changes       = @ + 1]

\* Take htlc, offered by side, out of the snapshot and pay its amount to
\* receiver; the funder gets the fee of the output back.
RemoveHtlc(cstate, htlc, side, receiver) ==
    [cstate EXCEPT !.pay     = [s \in Sides |-> @[s]
                                  + (IF s = receiver THEN htlc.msatoshis ELSE 0)
                                  + (IF s = cstate.funder THEN HtlcFee ELSE 0)],
                   !.htlcs[side] = @ \ {htlc},
                   !.changes = @ + 1]

\* funding_fulfill_htlc: the amount goes to the side that did not offer it.
funding_fulfill_htlc(cstate, htlc, side) == RemoveHtlc(cstate, htlc, side, Flip(side))

\* funding_fail_htlc: the amount goes back to the side that offered it.
funding_fail_htlc(cstate, htlc, side) == RemoveHtlc(cstate, htlc, side, side)

=============================================================================
