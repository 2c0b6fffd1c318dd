----------------------------- MODULE MCChannel -----------------------------
(***************************************************************************)
(* Channel for TLC: the configuration of the daemons and the packets a     *)
(* faulty daemon may send.                                                 *)
(***************************************************************************)
EXTENDS Channel

\* Both daemons run the same configuration; what they offer is within what
\* they accept.
MCConfig ==
    [rel_locktime            |-> 1, rel_locktime_max        |-> 2,
     anchor_confirms         |-> 1, anchor_confirms_max     |-> 2,
     commitment_fee_rate     |-> 2, commitment_fee_rate_min |-> 1]

MCNoForgedPkts(p) == {}

\* Every daemon derives its secrets from one seed.
MCOneSeed(key, commit_num) == key

\* The faulty daemon takes the secrets of its commitments after the first
\* from another seed: each still matches the hash announced for it.
MCForkedSeed(key, commit_num) ==
    IF key \in Faulty /\ commit_num > 0 THEN [forked |-> key] ELSE key

\* The open packet p sends when it follows the protocol and will not fund.
GoodOpen(p) ==
    [type                 |-> "PKT_OPEN",
     revocation_hash      |-> RevocationHash(p, 0),
     next_revocation_hash |-> RevocationHash(p, 1),
     commit_key           |-> p,
     final_key            |-> p,
     delay                |-> [locktime_case |-> "seconds", seconds |-> MCConfig.rel_locktime],
     initial_fee_rate     |-> MCConfig.commitment_fee_rate,
     anch                 |-> "WONT_CREATE_ANCHOR",
     min_depth            |-> MCConfig.anchor_confirms]

\* One open packet for each check of accept_pkt_open; those for the checks
\* after the anchor offers are compared come with either offer.
ForgedOpens(p) ==
    {[GoodOpen(p) EXCEPT !.delay.locktime_case = "none"],
     [GoodOpen(p) EXCEPT !.delay.locktime_case = "blocks"],
     [GoodOpen(p) EXCEPT !.delay.seconds = MCConfig.rel_locktime_max + 1],
     [GoodOpen(p) EXCEPT !.min_depth = MCConfig.anchor_confirms_max + 1],
     [GoodOpen(p) EXCEPT !.initial_fee_rate = MCConfig.commitment_fee_rate_min - 1],
     [GoodOpen(p) EXCEPT !.anch = "none"]}
    \cup {[GoodOpen(p) EXCEPT !.anch = offer, !.commit_key = BadKey] : offer \in DOMAIN AnchorOfferOf}
    \cup {[GoodOpen(p) EXCEPT !.anch = offer, !.final_key = BadKey] : offer \in DOMAIN AnchorOfferOf}

\* A signature of p on something that is no commitment transaction.
BadSig(p) == Sign(p, [anchor |-> NULL])

ForgedOpening(p) ==
    {[type |-> "PKT_OPEN_ANCHOR", txid |-> p, amount |-> 0],
     [type |-> "PKT_OPEN_COMPLETE"]}
    \cup {[type |-> "PKT_OPEN_COMMIT_SIG", sig |-> sig] : sig \in {MalformedSig, BadSig(p)}}

ForgedAdd(id, msatoshis, expiry) ==
    [type |-> "PKT_UPDATE_ADD_HTLC", id |-> id, amount_msat |-> msatoshis,
     r_hash |-> sha256(CHOOSE r \in Preimages : TRUE), expiry |-> expiry]

\* Updates of HTLC 0, the first either side offers, and of HTLC 7, which no
\* daemon that follows the protocol gets to within MaxHtlcId.
ForgedUpdates(p) ==
    {ForgedAdd(7, 0, "seconds"), ForgedAdd(7, 1000, "none"), ForgedAdd(7, 1000, "blocks"),
     ForgedAdd(7, 1000, "seconds"), ForgedAdd(0, 1000, "seconds"),
     ForgedAdd(7, 1000000, "seconds")}
    \cup {[type |-> "PKT_UPDATE_FULFILL_HTLC", id |-> 0, r |-> r] : r \in Preimages \cup {NULL}}
    \cup {[type |-> "PKT_UPDATE_FULFILL_HTLC", id |-> 7, r |-> NULL],
          [type |-> "PKT_UPDATE_FAIL_HTLC", id |-> 0],
          [type |-> "PKT_UPDATE_FAIL_HTLC", id |-> 7]}
    \cup {[type |-> "PKT_UPDATE_COMMIT", sig |-> sig] : sig \in {MalformedSig, BadSig(p)}}
    \cup {[type                 |-> "PKT_UPDATE_REVOCATION",
           revocation_preimage  |-> RevocationPreimage(p, MaxShaIndex),
           next_revocation_hash |-> RevocationHash(p, MaxShaIndex)]}

\* The revocation of p's first commitment, true to its hash: sent before
\* its time, or again after it.
EarlyRevocation(p) ==
    [type                 |-> "PKT_UPDATE_REVOCATION",
     revocation_preimage  |-> RevocationPreimage(p, 0),
     next_revocation_hash |-> RevocationHash(p, 2)]

\* A close_clearing at any time, asking to be paid to a script that is
\* none of p's, and close signatures that sign something else.
ForgedClosing(p) ==
    {[type |-> "PKT_CLOSE_CLEARING", scriptpubkey |-> scriptpubkey_p2sh(NULL)]}
    \cup {[type |-> "PKT_CLOSE_SIGNATURE", sig |-> sig, close_fee |-> fee] :
             sig \in {MalformedSig, BadSig(p)}, fee \in CloseFees}

MCForgedPkts(p) ==
    ForgedOpens(p) \cup ForgedOpening(p) \cup ForgedUpdates(p)
        \cup {EarlyRevocation(p)} \cup ForgedClosing(p)

MCSymmetry == Permutations(Peers)

\* Bound of the run cap: only the user of the funder offers HTLCs; the
\* other daemon settles them.
MCOnlyFunderOffers == \A p \in Peers : Funds(peer[p]) \/ peer[p].htlc_id_counter = 0

=============================================================================
