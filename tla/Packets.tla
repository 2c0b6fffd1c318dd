------------------------------ MODULE Packets ------------------------------
(***************************************************************************)
(* daemon/packets.c: the functions that build and queue each packet of the *)
(* channel protocol (the queue_pkt functions) and the functions that check *)
(* and apply each received packet (the accept_pkt functions).              *)
(*                                                                         *)
(* Every C function takes the struct peer and changes it in place.  Here   *)
(* each is an operator from the peer record to the changed peer record: an *)
(* operator yields [peer, err, fatal]: err the error packet the C function *)
(* returns, or NULL, fatal what ended the process in it, or NULL.  The     *)
(* state machine of module Channel decides which of them runs when, and    *)
(* owns the variables.                                                     *)
(*                                                                         *)
(* Data is abstracted to what the protocol compares:                       *)
(*   - a key is the name of the daemon that holds its secret;              *)
(*   - sha256 is an injective constructor, a revocation preimage is        *)
(*     [seed, index], so a preimage matches exactly one hash;              *)
(*   - a commitment transaction is the record of what it pays to whom,     *)
(*     and a signature is the pair of signer and transaction signed;       *)
(*   - an error packet carries the first words of its message.             *)
(***************************************************************************)
EXTENDS Funding, Sequences, SequencesExt

CONSTANTS
    Config,       \* the daemon's configuration (struct config of lightningd)
    MaxShaIndex,  \* the shachain index of commitment 0: 2^64 - 1 in packets.c
    SeedOf(_, _)  \* the seed a daemon derives the secret of a commitment from:
                  \* its key, for every commitment, when it follows the protocol

-----------------------------------------------------------------------------
(* Wire values *)

PktTypes ==
    {"PKT_OPEN", "PKT_OPEN_ANCHOR", "PKT_OPEN_COMMIT_SIG", "PKT_OPEN_COMPLETE",
     "PKT_UPDATE_ADD_HTLC", "PKT_UPDATE_FULFILL_HTLC", "PKT_UPDATE_FAIL_HTLC",
     "PKT_UPDATE_COMMIT", "PKT_UPDATE_REVOCATION",
     "PKT_CLOSE_CLEARING", "PKT_CLOSE_SIGNATURE", "PKT_ERROR"}

AnchorOffers == {"CMD_OPEN_WITH_ANCHOR", "CMD_OPEN_WITHOUT_ANCHOR"}

\* OpenChannel__AnchorOffer, as it is on the wire, and the command it
\* stands for.
AnchorOfferOf ==
    [anch \in {"WILL_CREATE_ANCHOR", "WONT_CREATE_ANCHOR"} |->
        IF anch = "WILL_CREATE_ANCHOR" THEN "CMD_OPEN_WITH_ANCHOR"
                                       ELSE "CMD_OPEN_WITHOUT_ANCHOR"]

sha256(x) == [sha256 |-> x]

\* A signature of the wrong length on the wire: proto_to_signature fails.
MalformedSig == [malformed |-> TRUE]
\* A public key that does not parse: proto_to_pubkey fails.
BadKey == [badkey |-> TRUE]

\* scriptpubkey_p2sh(bitcoin_redeem_single(key)): the script that pays key.
scriptpubkey_p2sh(key) == [p2sh |-> key]

\* peer_sign_theircommit, and what check_tx_sig accepts.
Sign(key, tx) == [signer |-> key, tx |-> tx]
check_tx_sig(tx, key, sig) == sig = Sign(key, tx)

\* peer_get_revocation_preimage and peer_get_revocation_hash (secrets.c):
\* the preimages of one daemon form one shachain, counted down from
\* MaxShaIndex.
RevocationPreimage(key, commit_num) ==
    [seed |-> SeedOf(key, commit_num), index |-> MaxShaIndex - commit_num]
RevocationHash(key, commit_num) == sha256(RevocationPreimage(key, commit_num))

-----------------------------------------------------------------------------
(* struct commit_info, struct peer_visible_state, union htlc_staging *)

new_commit_info ==
    [commit_num |-> 0, revocation_hash |-> NULL, cstate |-> NULL, sig |-> NULL,
     revocation_preimage |-> NULL, unacked_changes |-> <<>>]

\* peer->local.commit and commit->prev: the chain is a sequence, the last
\* element the current commitment.
Tip(which) == Last(which.commit)
Prev(which) == which.commit[Len(which.commit) - 1]
HasPrev(which) == Len(which.commit) >= 2

StageAdd(htlc)     == [type |-> "HTLC_ADD", htlc |-> htlc]
StageFulfill(id, r) == [type |-> "HTLC_FULFILL", id |-> id, r |-> r]
StageFail(id)      == [type |-> "HTLC_FAIL", id |-> id]

\* tal_count of the unacked changes: 0 once they are freed.
NumUnacked(ci) == IF ci.unacked_changes = NULL THEN 0 ELSE Len(ci.unacked_changes)

\* add_unacked (peer.c): the change joins those of the current commitment.
add_unacked(which, stage) ==
    [which EXCEPT !.commit[Len(which.commit)].unacked_changes = Append(@, stage)]

\* remote_changes_pending (peer.c): arm the commit timer, once.
remote_changes_pending(peer) == [peer EXCEPT !.commit_timer = TRUE]

KeyOf(peer, side) == IF side = OURS THEN peer.local.commitkey ELSE peer.remote.commitkey

(***************************************************************************)
(* create_commit_tx: the transaction that side holds, spending the anchor  *)
(* to the balances and HTLCs of cstate, revocable by the preimage of       *)
(* revocation_hash.  Both daemons build the same transaction from mirrored *)
(* cstates, so what each side gets is named by key, not by OURS/THEIRS.    *)
(***************************************************************************)
create_commit_tx(peer, revocation_hash, cstate, side) ==
    [anchor          |-> peer.anchor,
     holder          |-> KeyOf(peer, side),
     revocation_hash |-> revocation_hash,
     pay             |-> {<<KeyOf(peer, s), cstate.pay[s]>> : s \in Sides},
     htlcs           |-> {<<KeyOf(peer, s), cstate.htlcs[s]>> : s \in Sides}]

\* ci->tx: built when the commit_info gets its cstate, never changed after.
TxOf(peer, ci, side) ==
    IF ci.cstate = NULL THEN NULL
    ELSE create_commit_tx(peer, ci.revocation_hash, ci.cstate, side)

-----------------------------------------------------------------------------
(* Queueing *)

pkt_err(problem) == [type |-> "PKT_ERROR", problem |-> problem]

queue_pkt(peer, pkt) == [peer EXCEPT !.outpkt = Append(@, pkt)]

queue_pkt_err(peer, err) == queue_pkt(peer, err)

pkt_err_unexpected(pkt) == pkt_err("Unexpected packet")

\* The daemon's end when check_tx_sig is given no transaction, and when
\* accept_pkt_revocation looks for a commitment before the first.
NoCommitTx   == "check_tx_sig(NULL)"
NoPrevCommit == "remote.commit->prev == NULL"

\* The functions with an assert: the daemon's end when one fails.
Asserts ==
    {"assert in queue_pkt_open", "assert in queue_pkt_htlc_fulfill",
     "assert in queue_pkt_htlc_fail", "assert in queue_pkt_commit",
     "assert in queue_pkt_revocation", "assert in check_and_save_commit_sig",
     "assert in accept_pkt_anchor", "assert in accept_pkt_revocation"}

\* What a function of this file leaves behind: the peer and NULL, or the
\* peer as far as it got and the error packet it returned, or the fatal(),
\* the assert or the read through NULL that ended the process.
Accepted(peer) == [peer |-> peer, err |-> NULL, fatal |-> NULL]
Refused(peer, problem) == [peer |-> peer, err |-> pkt_err(problem), fatal |-> NULL]
Died(peer, why) == [peer |-> peer, err |-> NULL, fatal |-> why]

\* The chain of "if (...) return pkt_err(...)" that opens a handler: the
\* index of the first check that fails (0 when none does) and its problem
\* (NULL when none does).
FirstFailing(checks) ==
    LET failed == {i \in DOMAIN checks : checks[i].fails}
    IN  IF failed = {} THEN 0 ELSE Min(failed)

FirstProblem(checks) ==
    IF FirstFailing(checks) = 0 THEN NULL ELSE checks[FirstFailing(checks)].problem

-----------------------------------------------------------------------------
(* Opening the channel *)

queue_pkt_open(peer, anchor) ==
    LET key == peer.local.commitkey
        ci  == [new_commit_info EXCEPT !.revocation_hash = peer.local.next_revocation_hash]
        me  == [peer.local EXCEPT !.commit = <<ci>>,
                                  !.next_revocation_hash = RevocationHash(key, 1)]
    IN  IF anchor \notin DOMAIN AnchorOfferOf
           \/ AnchorOfferOf[anchor] # peer.local.offer_anchor
        THEN Died(peer, "assert in queue_pkt_open")
        ELSE Accepted(queue_pkt([peer EXCEPT !.local = me],
                  [type                 |-> "PKT_OPEN",
                   revocation_hash      |-> ci.revocation_hash,
                   next_revocation_hash |-> me.next_revocation_hash,
                   commit_key           |-> key,
                   final_key            |-> peer.local.finalkey,
                   delay                |-> [locktime_case |-> "seconds",
                                             seconds |-> Config.rel_locktime],
                   initial_fee_rate     |-> Config.commitment_fee_rate,
                   anch                 |-> anchor,
                   min_depth            |-> Config.anchor_confirms]))

(***************************************************************************)
(* setup_first_commit (peer.c): the cstate of commitment 0 on both sides   *)
(* and the staging cstates that start from it; NULL when the anchor cannot *)
(* pay the fee.  Every cstate of a daemon is in its own orientation: OURS  *)
(* is this daemon in the local and in the remote view alike.               *)
(***************************************************************************)
setup_first_commit(peer) ==
    LET funder == IF peer.local.offer_anchor = "CMD_OPEN_WITH_ANCHOR" THEN OURS ELSE THEIRS
        ours   == initial_funding(peer.anchor.satoshis, funder)
    IN  IF ours = NULL THEN NULL
        ELSE [peer EXCEPT !.local.commit[1].cstate  = ours,
                          !.local.staging_cstate    = ours,
                          !.remote.commit[1].cstate = ours,
                          !.remote.staging_cstate   = ours]

\* queue_pkt_anchor returns nothing: the caller goes on when it failed, too.
queue_pkt_anchor(peer) ==
    LET first == setup_first_commit(peer)
    IN  IF first = NULL
        THEN Accepted(queue_pkt_err(peer, pkt_err("Own anchor has insufficient funds")))
        ELSE Accepted(queue_pkt(first, [type   |-> "PKT_OPEN_ANCHOR",
                                        txid   |-> peer.anchor.txid,
                                        amount |-> peer.anchor.satoshis]))

queue_pkt_open_commit_sig(peer) ==
    LET tx  == TxOf(peer, Tip(peer.remote), THEIRS)
        sig == Sign(peer.local.commitkey, tx)
    IN  IF tx = NULL THEN Died(peer, NoCommitTx)
        ELSE Accepted(queue_pkt(
                 [peer EXCEPT !.remote.commit[Len(peer.remote.commit)].sig = sig],
                 [type |-> "PKT_OPEN_COMMIT_SIG", sig |-> sig]))

queue_pkt_open_complete(peer) == Accepted(queue_pkt(peer, [type |-> "PKT_OPEN_COMPLETE"]))

accept_pkt_open(peer, o) ==
    LET checks == <<
            [fails   |-> o.delay.locktime_case \notin {"seconds", "blocks"},
             problem |-> "Invalid delay"],
            [fails   |-> o.delay.locktime_case # "seconds",
             problem |-> "Delay in blocks not accepted"],
            [fails   |-> o.delay.seconds > Config.rel_locktime_max,
             problem |-> "Delay too great"],
            [fails   |-> o.min_depth > Config.anchor_confirms_max,
             problem |-> "min_depth too great"],
            [fails   |-> o.initial_fee_rate < Config.commitment_fee_rate_min,
             problem |-> "Commitment fee rate too low"],
            [fails   |-> o.anch \notin DOMAIN AnchorOfferOf,
             problem |-> "Unknown offer anchor value"],
            [fails   |-> /\ o.anch \in DOMAIN AnchorOfferOf
                         /\ AnchorOfferOf[o.anch] = peer.local.offer_anchor,
             problem |-> "Only one side can offer anchor"],
            [fails   |-> o.commit_key = BadKey, problem |-> "Bad commitkey"],
            [fails   |-> o.final_key = BadKey,  problem |-> "Bad finalkey"] >>
        failing == FirstFailing(checks)
        \* A refusal leaves what was written before the check that failed:
        \* remote.offer_anchor before check 7, remote.commitkey before check 9.
        Past(i) == failing = 0 \/ failing >= i
        partial == [peer EXCEPT
                       !.remote.offer_anchor = IF Past(7) THEN AnchorOfferOf[o.anch] ELSE @,
                       !.remote.commitkey    = IF Past(9) THEN o.commit_key ELSE @]
        ci      == [new_commit_info EXCEPT !.revocation_hash = o.revocation_hash]
    IN  IF failing # 0 THEN Refused(partial, checks[failing].problem)
        ELSE Accepted([partial EXCEPT
                          !.remote.finalkey = o.final_key,
                          !.remote.commit = <<ci>>,
                          !.remote.next_revocation_hash = o.next_revocation_hash])

\* check_and_save_commit_sig without check_tx_sig.
check_and_save_commit_sig_Unchecked(peer, ci, pb) ==
    [ci    |-> [ci EXCEPT !.sig = pb],
     err   |-> IF pb = MalformedSig THEN pkt_err("Malformed signature") ELSE NULL,
     fatal |-> IF ci.sig # NULL THEN "assert in check_and_save_commit_sig" ELSE NULL]

(***************************************************************************)
(* check_and_save_commit_sig: the signature is saved in ci before it is    *)
(* checked; it must sign ci->tx, a commitment transaction of ours, with    *)
(* the remote commit key.  ci->tx is there once setup_first_commit has     *)
(* succeeded; check_tx_sig reads it without looking, and the daemon is     *)
(* gone when it is NULL.  ci must not have a signature yet.                *)
(* [ci, err, fatal].                                                       *)
(***************************************************************************)
check_and_save_commit_sig(peer, ci, pb) ==
    LET tx == TxOf(peer, ci, OURS)
    IN  [ci    |-> [ci EXCEPT !.sig = pb],
         err   |-> CASE pb = MalformedSig -> pkt_err("Malformed signature")
                     [] pb # MalformedSig /\ tx # NULL
                           /\ ~check_tx_sig(tx, peer.remote.commitkey, pb)
                                         -> pkt_err("Bad signature")
                     [] OTHER           -> NULL,
         fatal |-> CASE ci.sig # NULL                  -> "assert in check_and_save_commit_sig"
                     [] pb # MalformedSig /\ tx = NULL -> NoCommitTx
                     [] OTHER                          -> NULL]

accept_pkt_anchor(peer, a) ==
    LET anchored == [peer EXCEPT !.anchor = [txid |-> a.txid, satoshis |-> a.amount]]
        first    == setup_first_commit(anchored)
    IN  IF \/ peer.local.offer_anchor # "CMD_OPEN_WITHOUT_ANCHOR"
           \/ peer.remote.offer_anchor # "CMD_OPEN_WITH_ANCHOR"
        THEN Died(peer, "assert in accept_pkt_anchor")
        ELSE IF first = NULL THEN Refused(anchored, "Insufficient funds for fee")
        ELSE Accepted(first)

accept_pkt_open_commit_sig(peer, s) ==
    LET saved == check_and_save_commit_sig(peer, Tip(peer.local), s.sig)
    IN  [peer  |-> [peer EXCEPT !.local.commit[Len(peer.local.commit)] = saved.ci],
         err   |-> saved.err,
         fatal |-> saved.fatal]

accept_pkt_open_complete(peer, pkt) == Accepted(peer)

-----------------------------------------------------------------------------
(* Sending updates *)

\* A change of ours: applied to the remote staging cstate, noted with the
\* current remote commitment, the commit timer armed, the packet queued.
Staged(peer, cstate, stage, pkt) ==
    LET theirs == add_unacked([peer.remote EXCEPT !.staging_cstate = cstate], stage)
    IN  Accepted(queue_pkt(remote_changes_pending([peer EXCEPT !.remote = theirs]), pkt))

queue_pkt_htlc_add(peer, htlc) ==
    LET added == funding_add_htlc(peer.remote.staging_cstate, htlc, OURS)
    IN  IF added = NULL THEN Died(peer, "Could not add HTLC?")
        ELSE Staged(peer, added, StageAdd(htlc),
                    [type        |-> "PKT_UPDATE_ADD_HTLC",
                     id          |-> htlc.id,
                     amount_msat |-> htlc.msatoshis,
                     r_hash      |-> htlc.rhash,
                     expiry      |-> "seconds"])

queue_pkt_htlc_fulfill(peer, id, r) ==
    LET theirs == peer.remote.staging_cstate
        htlc   == funding_htlc_by_id(theirs, id, THEIRS)
    IN  IF htlc = NULL THEN Died(peer, "assert in queue_pkt_htlc_fulfill")
        ELSE Staged(peer, funding_fulfill_htlc(theirs, htlc, THEIRS), StageFulfill(id, r),
                    [type |-> "PKT_UPDATE_FULFILL_HTLC", id |-> id, r |-> r])

queue_pkt_htlc_fail(peer, id) ==
    LET theirs == peer.remote.staging_cstate
        htlc   == funding_htlc_by_id(theirs, id, THEIRS)
    IN  IF htlc = NULL THEN Died(peer, "assert in queue_pkt_htlc_fail")
        ELSE Staged(peer, funding_fail_htlc(theirs, htlc, THEIRS), StageFail(id),
                    [type |-> "PKT_UPDATE_FAIL_HTLC", id |-> id])

\* NextCommitInfo without "commit_num = prev->commit_num + 1".
NextCommitInfo_SameNum(which) ==
    [new_commit_info EXCEPT !.commit_num      = Tip(which).commit_num,
                            !.revocation_hash = which.next_revocation_hash,
                            !.cstate          = which.staging_cstate]

\* The commit_info that follows the current one of a view: its number, the
\* revocation hash announced for it, and a copy of the staging cstate.
NextCommitInfo(which) ==
    [new_commit_info EXCEPT !.commit_num      = Tip(which).commit_num + 1,
                            !.revocation_hash = which.next_revocation_hash,
                            !.cstate          = which.staging_cstate]

\* The remote commitment ci signed and made current, the packet queued; an
\* assert fails when ci has no change over the commitment before.
Committed(peer, ci, chain, side) ==
    LET sig == Sign(peer.local.commitkey, TxOf(peer, ci, side))
    IN  IF Tip(peer.remote).cstate.changes = ci.cstate.changes
        THEN Died(peer, "assert in queue_pkt_commit")
        ELSE Accepted(queue_pkt([peer EXCEPT !.remote.commit = chain \o <<[ci EXCEPT !.sig = sig]>>],
                                [type |-> "PKT_UPDATE_COMMIT", sig |-> sig]))

\* queue_pkt_commit signing the transaction we hold, not theirs.
queue_pkt_commit_SignsOurs(peer) ==
    Committed(peer, NextCommitInfo(peer.remote), peer.remote.commit, OURS)

queue_pkt_commit(peer) ==
    Committed(peer, NextCommitInfo(peer.remote), peer.remote.commit, THEIRS)

-----------------------------------------------------------------------------
(* Revocation: the changes of the revoked commitment cross to the other view *)

\* OfferedBy with side where apply_changeset has !side.
OfferedBy_SameSide(change, side) == side

\* Who offered the HTLC of a change made by side: side adds its own HTLCs
\* and fails or fulfills those of the other.
OfferedBy(change, side) == IF change.type = "HTLC_ADD" THEN side ELSE Flip(side)

\* One change applied to [cstate, fatal]; fatal names the fatal() reached.
ApplyChange(acc, change, side) ==
    LET id    == IF change.type = "HTLC_ADD" THEN change.htlc.id ELSE change.id
        whose == OfferedBy(change, side)
        found == funding_htlc_by_id(acc.cstate, id, whose)
        next  == CASE change.type = "HTLC_ADD"     -> funding_add_htlc(acc.cstate, change.htlc, side)
                   [] change.type = "HTLC_FAIL"    -> funding_fail_htlc(acc.cstate, found, whose)
                   [] change.type = "HTLC_FULFILL" -> funding_fulfill_htlc(acc.cstate, found, whose)
        fatal == FirstProblem(<<
                    [fails   |-> change.type = "HTLC_ADD" /\ found # NULL,
                     problem |-> "Can't add duplicate HTLC id"],
                    [fails   |-> change.type = "HTLC_FAIL" /\ found = NULL,
                     problem |-> "Can't fail non-exisent HTLC id"],
                    [fails   |-> change.type = "HTLC_FULFILL" /\ found = NULL,
                     problem |-> "Can't fulfill non-exisent HTLC id"],
                    [fails   |-> change.type = "HTLC_ADD" /\ next = NULL,
                     problem |-> "Adding HTLC failed"] >>)
    IN  IF acc.fatal # NULL THEN acc
        ELSE IF fatal # NULL THEN [acc EXCEPT !.fatal = fatal]
        ELSE [acc EXCEPT !.cstate = next]

\* apply_changeset: [cstate, fatal] after the changes, in their order.
apply_changeset(cstate, side, changes) ==
    FoldLeft(LAMBDA acc, change : ApplyChange(acc, change, side),
             [cstate |-> cstate, fatal |-> NULL], changes)

\* RevokedIndex naming the current commitment.
RevokedIndex_Current(which) == Len(which.commit)

\* commit->prev: the place in its chain of the commitment a revocation is
\* about, the one before the current.
RevokedIndex(which) == Len(which.commit) - 1

\* ChangesPending that never arms the timer, and that always does.
ChangesPending_Never(peer, ci) == peer
ChangesPending_Always(peer, ci) == remote_changes_pending(peer)

\* "if (tal_count(ci->unacked_changes)) remote_changes_pending(peer)"
ChangesPending(peer, ci) ==
    IF NumUnacked(ci) # 0 THEN remote_changes_pending(peer) ELSE peer

(***************************************************************************)
(* queue_pkt_revocation: reveal the preimage of the commitment before the  *)
(* current local one and apply the changes the other side made under it to *)
(* the remote staging cstate.  [peer, err, fatal].                         *)
(***************************************************************************)
queue_pkt_revocation(peer) ==
    LET n        == RevokedIndex(peer.local)
        ci       == peer.local.commit[n]
        preimage == RevocationPreimage(peer.local.commitkey, ci.commit_num)
        queued   == queue_pkt([peer EXCEPT !.local.commit[n].revocation_preimage = preimage],
                              [type                 |-> "PKT_UPDATE_REVOCATION",
                               revocation_preimage  |-> preimage,
                               next_revocation_hash |-> peer.local.next_revocation_hash])
        applied  == apply_changeset(peer.remote.staging_cstate, THEIRS, ci.unacked_changes)
    IN  IF \/ n \notin DOMAIN peer.local.commit
           \/ ci.revocation_preimage # NULL
           \/ Tip(peer.local).sig = NULL
        THEN Died(peer, "assert in queue_pkt_revocation")
        ELSE [peer  |-> [ChangesPending(queued, ci) EXCEPT
                            !.remote.staging_cstate = applied.cstate,
                            !.local.commit[n].unacked_changes = NULL],
              err   |-> NULL,
              fatal |-> applied.fatal]

-----------------------------------------------------------------------------
(* Receiving updates *)

\* AtCap one HTLC early.
AtCap_OneEarly(cstate, side) == Cardinality(cstate.htlcs[side]) >= MaxHtlcs - 1

\* "tal_count(...->side[THEIRS].htlcs) == 300": side offers all it may.
AtCap(cstate, side) == Cardinality(cstate.htlcs[side]) = MaxHtlcs

\* Noted without add_unacked, and Noted writing the remote staging cstate.
Noted_Unnoted(peer, cstate, stage) == Accepted([peer EXCEPT !.local.staging_cstate = cstate])
Noted_RemoteView(peer, cstate, stage) ==
    Accepted([peer EXCEPT !.remote.staging_cstate = cstate,
                          !.local = add_unacked(@, stage)])

\* A change of theirs: applied to the local staging cstate and noted with
\* the current local commitment; it crosses when we revoke that.
Noted(peer, cstate, stage) ==
    Accepted([peer EXCEPT !.local = add_unacked([@ EXCEPT !.staging_cstate = cstate], stage)])

accept_pkt_htlc_add(peer, u) ==
    LET htlc    == [id |-> u.id, msatoshis |-> u.amount_msat, rhash |-> u.r_hash]
        ours    == peer.local.staging_cstate
        theirs  == peer.remote.staging_cstate
        added   == funding_add_htlc(ours, htlc, THEIRS)
        problem == FirstProblem(<<
            [fails   |-> u.amount_msat = 0, problem |-> "Invalid amount_msat"],
            [fails   |-> u.expiry \notin {"seconds", "blocks"},
             problem |-> "Invalid HTLC expiry"],
            [fails   |-> u.expiry # "seconds",
             problem |-> "HTLC expiry in blocks not supported!"],
            [fails   |-> AtCap(theirs, THEIRS) \/ AtCap(ours, THEIRS),
             problem |-> "Too many HTLCs"],
            [fails   |-> funding_htlc_by_id(theirs, u.id, THEIRS) # NULL,
             problem |-> "HTLC id clashes for you"],
            [fails   |-> funding_htlc_by_id(ours, u.id, THEIRS) # NULL,
             problem |-> "HTLC id clashes for us"],
            [fails   |-> added = NULL, problem |-> "Cannot afford"] >>)
    IN  IF problem # NULL THEN Refused(peer, problem)
        ELSE Noted(peer, added, StageAdd(htlc))

\* find_commited_htlc: the HTLC must be in our current commitment, and
\* still in our staging cstate.
find_commited_htlc(peer, id) ==
    FirstProblem(<<
        [fails   |-> funding_htlc_by_id(Tip(peer.local).cstate, id, OURS) = NULL,
         problem |-> "Did not find HTLC"],
        [fails   |-> funding_htlc_by_id(peer.local.staging_cstate, id, OURS) = NULL,
         problem |-> "Already removed HTLC"] >>)

accept_pkt_htlc_fail(peer, f) ==
    LET err  == find_commited_htlc(peer, f.id)
        ours == peer.local.staging_cstate
        htlc == funding_htlc_by_id(ours, f.id, OURS)
    IN  IF err # NULL THEN Refused(peer, err)
        ELSE Noted(peer, funding_fail_htlc(ours, htlc, OURS), StageFail(f.id))

\* accept_pkt_htlc_fulfill that does not compare sha256(r) with the rhash.
accept_pkt_htlc_fulfill_AnyR(peer, f) ==
    LET err  == find_commited_htlc(peer, f.id)
        ours == peer.local.staging_cstate
        htlc == funding_htlc_by_id(ours, f.id, OURS)
    IN  IF err # NULL THEN Refused(peer, err)
        ELSE Noted(peer, funding_fulfill_htlc(ours, htlc, OURS), StageFulfill(f.id, f.r))

accept_pkt_htlc_fulfill(peer, f) ==
    LET err  == find_commited_htlc(peer, f.id)
        ours == peer.local.staging_cstate
        htlc == funding_htlc_by_id(ours, f.id, OURS)
    IN  IF err # NULL THEN Refused(peer, err)
        ELSE IF sha256(f.r) # htlc.rhash THEN Refused(peer, "Invalid r")
        ELSE Noted(peer, funding_fulfill_htlc(ours, htlc, OURS), StageFulfill(f.id, f.r))

\* NextHashNum naming the commitment just signed.
NextHashNum_Stale(ci) == ci.commit_num

\* "peer_get_revocation_hash(peer, ci->commit_num + 1, ...)": the hash
\* announced belongs to the commitment after this one.
NextHashNum(ci) == ci.commit_num + 1

accept_pkt_commit(peer, c) ==
    LET ci    == NextCommitInfo(peer.local)
        saved == check_and_save_commit_sig(peer, ci, c.sig)
    IN  IF Tip(peer.local).cstate.changes = ci.cstate.changes
        THEN Refused(peer, "Empty commit")
        ELSE IF saved.err # NULL \/ saved.fatal # NULL
        THEN [peer |-> peer, err |-> saved.err, fatal |-> saved.fatal]
        ELSE Accepted([peer EXCEPT
                 !.local.commit = Append(@, saved.ci),
                 !.local.next_revocation_hash =
                     RevocationHash(peer.local.commitkey, NextHashNum(ci))])

\* check_preimage that takes any preimage.
check_preimage_Any(preimage, hash) == TRUE

check_preimage(preimage, hash) == sha256(preimage) = hash

(***************************************************************************)
(* ccan/shachain, by its contract: from a preimage kept under an index,    *)
(* those of the indices above it derive (the commitments before), and a    *)
(* new preimage is refused unless every one kept derives from it.  The     *)
(* preimages are kept newest first.                                        *)
(***************************************************************************)
Derived(from, index) ==
    [seed |-> from.preimage.seed, index |-> from.preimage.index + (index - from.index)]

\* shachain_get_hash: NULL where the C function returns false.
shachain_get_hash(chain, index) ==
    IF chain = <<>> \/ index < Head(chain).index THEN NULL ELSE Derived(Head(chain), index)

\* shachain_add_hash that keeps whatever it is given.
shachain_add_hash_Any(chain, index, preimage) ==
    <<[index |-> index, preimage |-> preimage]>> \o chain

\* shachain_add_hash that keeps only the first preimage it is given.
shachain_add_hash_First(chain, index, preimage) ==
    IF chain = <<>> THEN <<[index |-> index, preimage |-> preimage]>> ELSE chain

shachain_add_hash(chain, index, preimage) ==
    LET new == [index |-> index, preimage |-> preimage]
    IN  IF \A old \in ToSet(chain) : Derived(new, old.index) = old.preimage
        THEN <<new>> \o chain
        ELSE NULL

\* "0xFFFFFFFFFFFFFFFFL - ci->commit_num": where the ladder keeps the
\* preimage of a commitment.
ShaIndex(ci) == MaxShaIndex - ci.commit_num

(***************************************************************************)
(* accept_pkt_revocation: they revoke the commitment before the current    *)
(* remote one; the changes we made under it now apply to our local staging *)
(* cstate.  [peer, err, fatal].                                            *)
(***************************************************************************)
accept_pkt_revocation(peer, r) ==
    LET n       == RevokedIndex(peer.remote)
        ci      == peer.remote.commit[n]
        revoked == [peer EXCEPT !.remote.commit[n].revocation_preimage = r.revocation_preimage]
        chain   == shachain_add_hash(peer.their_preimages, ShaIndex(ci), r.revocation_preimage)
        applied == apply_changeset(peer.local.staging_cstate, OURS, ci.unacked_changes)
    IN  IF n \notin DOMAIN peer.remote.commit
        THEN Died(peer, NoPrevCommit)
        ELSE IF ~check_preimage(r.revocation_preimage, ci.revocation_hash)
        THEN Refused(peer, "complete preimage incorrect")
        ELSE IF ci.revocation_preimage # NULL
        THEN Died(peer, "assert in accept_pkt_revocation")
        ELSE IF chain = NULL
        THEN Refused(revoked, "preimage not next in shachain")
        ELSE [peer  |-> [revoked EXCEPT
                            !.their_preimages = chain,
                            !.remote.next_revocation_hash = r.next_revocation_hash,
                            !.local.staging_cstate = applied.cstate,
                            !.remote.commit[n].unacked_changes = NULL],
              err   |-> NULL,
              fatal |-> applied.fatal]

-----------------------------------------------------------------------------
(* Mutual close *)

(***************************************************************************)
(* peer_create_close_tx (peer.c): the transaction that spends the anchor   *)
(* to the two scripts exchanged, each side's balance to its script, for    *)
(* this fee.  Both daemons build the same transaction from mirrored        *)
(* cstates.                                                                *)
(***************************************************************************)
peer_create_close_tx(peer, fee) ==
    [anchor |-> peer.anchor,
     fee    |-> fee,
     pay    |-> {<<peer.closing.our_script, peer.local.staging_cstate.pay[OURS]>>,
                 <<peer.closing.their_script, peer.local.staging_cstate.pay[THEIRS]>>}]

\* queue_pkt_close_clearing that asks for the payment to their final key.
queue_pkt_close_clearing_TheirKey(peer) ==
    LET script == scriptpubkey_p2sh(peer.remote.finalkey)
    IN  Accepted(queue_pkt([peer EXCEPT !.closing.our_script = script],
                           [type |-> "PKT_CLOSE_CLEARING", scriptpubkey |-> script]))

\* The script we want to be paid to: kept, and sent.
queue_pkt_close_clearing(peer) ==
    LET script == scriptpubkey_p2sh(peer.local.finalkey)
    IN  Accepted(queue_pkt([peer EXCEPT !.closing.our_script = script],
                           [type |-> "PKT_CLOSE_CLEARING", scriptpubkey |-> script]))

\* Our signature on the close transaction for the fee we last suggested.
queue_pkt_close_signature(peer) ==
    LET close_tx == peer_create_close_tx(peer, peer.closing.our_fee)
    IN  Accepted(queue_pkt(peer, [type      |-> "PKT_CLOSE_SIGNATURE",
                                  sig       |-> Sign(peer.local.commitkey, close_tx),
                                  close_fee |-> peer.closing.our_fee]))

\* accept_pkt_close_clearing that does not keep their script.
accept_pkt_close_clearing_Dropped(peer, c) == Accepted(peer)

\* Their script is taken as it comes ("FIXME: Filter for non-standardness?").
accept_pkt_close_clearing(peer, c) ==
    Accepted([peer EXCEPT !.closing.their_script = c.scriptpubkey])

\* accept_pkt_close_signature that takes any signature.
accept_pkt_close_signature_Unchecked(peer, c) ==
    Accepted([peer EXCEPT !.closing.their_sig = c.sig,
                          !.closing.their_fee = c.close_fee])

(***************************************************************************)
(* accept_pkt_close_signature (section 4.7 of the specification): their    *)
(* signature must be good for the close transaction with the fee they      *)
(* name; signature and fee are kept.                                       *)
(***************************************************************************)
accept_pkt_close_signature(peer, c) ==
    LET close_tx == peer_create_close_tx(peer, c.close_fee)
    IN  IF c.sig = MalformedSig THEN Refused(peer, "Malformed signature")
        ELSE IF ~check_tx_sig(close_tx, peer.remote.commitkey, c.sig)
        THEN Refused(peer, "Bad signature")
        ELSE Accepted([peer EXCEPT !.closing.their_sig = c.sig,
                                   !.closing.their_fee = c.close_fee])

=============================================================================
