# TLA+ model of the lightningd channel update protocol

This directory holds a model-checked description of `daemon/packets.c` (with
`daemon/peer.h`, which the source file carries at its end): the code with which a
lightning daemon builds and accepts the packets of one payment channel, and through
which every change of the channel's state passes.

| file | what it is |
|------|------------|
| `Funding.tla` | the channel state ("cstate") and the `funding_*` operations on it |
| `Packets.tla` | `struct commit_info`, `struct peer_visible_state`, and every `queue_pkt_*` / `accept_pkt_*` of `packets.c` as an operator on a `struct peer` |
| `Channel.tla` | two daemons, their connection, the state machine that calls the handlers, the properties, and the refinement mapping to `Ledger` |
| `Accounts.tla` | the account of a channel (balances and HTLCs) and the changes it goes through |
| `Ledger.tla` | the abstract specification: what a channel is to its two users |
| `MCChannel.tla` | the instance for TLC: the daemon's configuration, the packets a faulty daemon forges, symmetry |
| `MCChannel_*.cfg` | one configuration per run |
| `PROJECT.json` | components, runs, the definition-to-source map, mutants, findings, hazards |

Run a configuration with `tlc -workers 2 -config MCChannel_honest.cfg MCChannel`.

## 1. The system

### Parts

| part | state | operations | talks to |
|------|-------|------------|----------|
| **cstate** (`funding.c`, not in `src/`) | per side: balance in msat, set of HTLCs; `changes` counter; who funded | `initial_funding`, `funding_add_htlc`, `funding_fulfill_htlc`, `funding_fail_htlc`, `funding_htlc_by_id` | called by every handler below |
| **commit_info chain** (`peer.h` 910-929) | `commit_num`, `revocation_hash`, `tx`, `cstate`, `sig`, `revocation_preimage`, `unacked_changes`, `prev` | `new_commit_info`; extended by `queue_pkt_commit` (remote chain) and `accept_pkt_commit` (local chain) | one chain for each of the two views |
| **peer_visible_state** (`peer.h` 931-949) | `offer_anchor`, keys, `next_revocation_hash`, `commit` (tip of the chain), `staging_cstate` | written by the handlers | `peer.local`, `peer.remote` |
| **struct peer** (`peer.h` 969-1075) | `state`, `outpkt`, `anchor`, `htlc_id_counter`, `commit_timer`, `their_preimages`, `closing`, `local`, `remote` | all of `packets.c` | one per daemon per channel |
| **packet builders** (`packets.c` 91-319, 370-465) | - | `queue_pkt_open`, `_anchor`, `_open_commit_sig`, `_open_complete`, `_htlc_add`, `_htlc_fulfill`, `_htlc_fail`, `_commit`, `_revocation`, `_err`, `_close_clearing`, `_close_signature` | change the peer, append to `outpkt` |
| **packet handlers** (`packets.c` 473-854) | - | `accept_pkt_open`, `_anchor`, `_open_commit_sig`, `_open_complete`, `_htlc_add`, `_htlc_fail`, `_htlc_fulfill`, `_commit`, `_revocation`, `_close_clearing` | change the peer, return an error packet or NULL, or `fatal()` |
| **apply_changeset** (`packets.c` 322-366) | - | replays the unacked changes of a revoked commitment on the other view's staging cstate | called at both ends of a revocation |
| **state machine** (`state.c`, not in `src/`) | `peer.state` | dispatches packets and commands | calls the builders and handlers |
| **secrets, shachain, signatures, transactions** (not in `src/`) | the daemon's seed; `their_preimages` | `peer_get_revocation_hash/preimage`, `shachain_add_hash`, `peer_sign_theircommit`, `check_tx_sig`, `create_commit_tx` | called by the handlers |

### How the parts interact

Each daemon keeps **two views** of the channel, `local` (its own commitment
transactions) and `remote` (the other side's), each with a chain of commitments and a
*staging* cstate that collects changes for the next one.  A change made by a daemon
(`queue_pkt_htlc_add/fulfill/fail`) goes at once into its `remote.staging_cstate` and
into the unacked changes of its current remote commitment; the daemon that receives it
applies it to its `local.staging_cstate` and to the unacked changes of its local
commitment.  The change reaches the *other* view of each daemon only later:

1. the commit timer fires: `queue_pkt_commit` snapshots `remote.staging_cstate`, signs
   it and extends the remote chain;
2. the receiver's `accept_pkt_commit` snapshots its `local.staging_cstate`, checks the
   signature against it and extends its local chain, then `queue_pkt_revocation`
   reveals the preimage of the commitment before and applies *that* commitment's
   unacked changes to `remote.staging_cstate` (`apply_changeset`, `THEIRS`);
3. the sender's `accept_pkt_revocation` checks the preimage and applies the unacked
   changes of the commitment it had before to `local.staging_cstate`
   (`apply_changeset`, `OURS`).

Both directions run at once, and every step of one can fall between any two steps of
the other.

The **mutual close** runs on top of this.  A daemon told to close sends
`close_clearing` with the script it wants to be paid to (`queue_pkt_close_clearing`)
and enters `CLEARING`; the other records the script (`accept_pkt_close_clearing`),
answers with its own and enters `CLEARING` too.  In `CLEARING` no HTLC is added, but
those under way are still fulfilled or failed, committed and revoked.  When no HTLC
is left, nothing is staged and no revocation is owed, each daemon signs the close
transaction for the fee it suggests (`queue_pkt_close_signature`) and waits in
`CLOSE_WAIT_SIG`; on a `close_signature` it checks the signature, moves its fee to
the mean of the two, sends a new signature if its fee changed, and is `CLOSED` when
the fee it was sent is the one it arrives at.

### What is hard

* Changes **cross**: a change is in one view for as long as a commit and a revocation
  take, and meanwhile the other daemon makes changes of its own.  The fee depends on
  the number of HTLCs in a snapshot, so two adds that are each affordable may not be
  affordable together, and that is found only in `apply_changeset`, where failure is
  `fatal()`.
* **Revocation hashes run one ahead** of the commitments (`next_revocation_hash`), and
  the preimage is derived later from `commit_num` of `commit->prev`.
* Handlers **write before they check** (`check_and_save_commit_sig` stores the
  signature first; `accept_pkt_open` writes the remote view between checks;
  `queue_pkt_revocation` queues the packet before `apply_changeset` can fail).
* `queue_pkt_anchor` can fail yet **returns nothing**.
* Everything a handler reads comes **from the wire** and may be forged.
* The **close crosses the updates**: a `close_clearing` can pass an add in flight, and
  the close transaction is built from the staging cstate and the scripts as they are
  when `queue_pkt_close_signature` runs.

### What must hold

| part | property | in the model |
|------|----------|--------------|
| cstate | balances are never negative; balances + HTLCs + fee = 1000 x anchor (spec 3, 8.1) | `Conservation` |
| commit chains | `commit_num` counts from 0 by 1 along each chain (spec 8.3) | `TypeOK` |
| the two views | an HTLC a daemon offers is in its remote staging cstate for as long as it is in its local one, and an HTLC offered to it is in its local one for as long as it is in its remote one: what passed the cap and the id checks on one view finds room and a free id where it crosses to the other (spec 4.2, 8.2, 8.8; `fatal()` at 337 and 344) | `ViewsNested` |
| revocation | a preimage kept or revealed hashes to the revocation hash of its commitment (spec 8.4) | `RevocationValid` |
| revocation | the ladder of a daemon that refused nothing returns, for every commitment revoked to it, the preimage it was sent (spec 8.5) | `LadderRecovers` |
| revocation | a daemon can punish every commitment it signed for the other side but the newest two: its ladder gives the preimage of the revocation hash of each, whatever the other side sent in place of a revocation.  With `CommitsOverlap = TRUE` (finding 4) this fails: a third commitment is signed while the first is not revoked | `OldStatesPunishable` |
| revocation | a daemon never reveals the preimage of its current commitment, and holds a valid signature on it | `CanCloseAlone` |
| update protocol | two correct daemons never refuse each other's packets, at the cap of HTLCs either (spec 8.8) | `NoProtocolError` |
| update protocol | when nothing is in flight the four staging cstates and the tips of the four chains are one channel state (spec 4.2, 8.7) | `QuiescentAgree` |
| commit timer | armed exactly when the remote view has changes not yet committed (spec 4.6, 8.9, asserts at 305 and 777) | `CommitTimerExact` |
| HTLCs | a daemon's wealth falls only by the amount of an HTLC whose payment preimage it was shown (spec 4.1, `fulfill_htlc`) | `PaidOnlyForPreimage` |
| handlers | nothing that arrives on the wire ends the daemon (spec 9); every `assert` holds where it is reached | `NoFatal` (violated), `OnlyAdmittedFatal` |
| errors | a daemon that sent an Error is in `ERR_BREAKDOWN` (spec 4.3) | `ErrorSenderBrokeDown` (violated) |
| update protocol | while both daemons operate, every staged change ends up in the commitments of both, and the channel comes to rest (spec 4.6) | `EventuallySettled` |
| mutual close | a daemon closes only on a transaction the other signed, without HTLCs, that pays its own script what its last commitment gave it; both close on the same one (spec 4.7) | `MutualClosePays` |
| mutual close | a close both have begun, with no HTLC left, ends with both `CLOSED` (spec 4.7) | `ClosingEnds` |
| the channel as a whole | the channel stops only closed by both daemons or with one broken down or gone: daemons in operation never wait for each other | `NoStandstill`, deadlock checking |
| the channel as a whole | both daemons keep one account, counting in what is in flight and what is not yet revoked for | `OneAccount` |
| the channel as a whole | every step is a step of the abstract ledger (fund, offer, fulfil, fail, close) or leaves the account alone | `ImplementsLedger` |

## 2. The modules and the code

### Funding

`funding.c` is not part of the sources, so `Funding.tla` is written from the calls
`packets.c` makes and from sections 3 and 4.1 of the specification.  A cstate is
`[funder, pay, htlcs, changes]` with `pay` and `htlcs` indexed by `OURS`/`THEIRS`;
balances are net of the fee `BaseFee + HtlcFee x (number of HTLCs)`, which the funder
bears.  `funding_add_htlc` returns `NULL` when a side cannot pay, when the side offers
`MaxHtlcs` already or when the id is taken.  Every cstate of a daemon is in that
daemon's orientation; `Mirrored` (in `Channel`) turns one around to compare it with
the other daemon's.

### Packets

A `struct peer` is a record; each C function is an operator from the peer (and the
packet) to a result `[peer, err, fatal]`: the peer as the function left it (including
what it had written before a failing check), the error packet it returned or `NULL`,
and what ended the process, or `NULL`: a `fatal()`, a failed `assert` (named by its
function, set `Asserts`), or a read through a `NULL` pointer (`NoCommitTx`,
`NoPrevCommit`).  The `void` functions never have an `err`; `queue_pkt_anchor` shows
what that costs.

| C | TLA+ | abstraction |
|---|------|-------------|
| `commit_info *commit`, `->prev` | `commit`: a sequence, `Tip` its last element, `Prev` the one before | sharing of `prev` pointers is the shared prefix of the sequence |
| `ci->tx` | `TxOf(peer, ci, side)`: derived from `ci.cstate`, `ci.revocation_hash` and the keys | a transaction is what it pays to whom; `NULL` until `setup_first_commit` |
| signature | `Sign(key, tx)`; `check_tx_sig(tx, key, sig)` is equality | `MalformedSig` is what `proto_to_signature` rejects |
| `sha256` | the injective constructor `[sha256 \|-> x]` | no collisions |
| revocation secrets | `RevocationPreimage(key, n) = [seed = SeedOf(key, n), index = MaxShaIndex - n]` | a daemon that follows the protocol has one seed; `SeedOf` lets a faulty one fork |
| `their_preimages` (`struct shachain`) | a sequence of `[index, preimage]`, newest first; `Derived`, `shachain_get_hash`, `shachain_add_hash`, `ShaIndex` | the contract of `ccan/shachain`: from a preimage kept under an index derive those of the higher indexes of its seed; a preimage from which one already kept does not derive is refused |
| `if (...) return pkt_err(...)` chains | a sequence of `[fails, problem]` and `FirstFailing` | order of the checks kept, wording of the messages reduced to the constant part |
| `fatal()`, `assert`, a read through `NULL` | the `fatal` field of the result | the process is gone; nothing it queued in that handler is sent |
| `OpenChannel__AnchorOffer` | `AnchorOfferOf`: `WILL_CREATE_ANCHOR` to `CMD_OPEN_WITH_ANCHOR`, `WONT_CREATE_ANCHOR` to `CMD_OPEN_WITHOUT_ANCHOR` | any other wire value is refused |
| `0xFFFFFFFFFFFFFFFF` | `MaxShaIndex` | see bounds |

`peer_create_close_tx` (in `peer.c`, declared at line 1098) is the record of the
anchor, the fee and the two balances of `local.staging_cstate`, each paid to its
script; `accept_pkt_close_signature` is not in the file and follows section 4.7:
malformed signature, signature that does not sign the close transaction for the fee
sent, else the signature and the fee are kept.

The operators that the mutants replace are the small ones where a slip is likely:
`NextCommitInfo` (lines 745-750 and 269-274), `OfferedBy` (which side's HTLC a
change touches: `side` for an add, `!side` for a fulfil or a fail), `RevokedIndex`
(`commit->prev`), `ChangesPending` (lines 406-407), `AtCap` (the comparison with 300
at lines 609-610) and `Noted` (the end of the three handlers of a change of the other
daemon: the new cstate becomes `local.staging_cstate` and the change joins the
unacked changes of the current local commitment, lines 649-651, 695-704, 731-737).

### Channel

Variables: `peer[p]`, the struct peer daemon `p` keeps for the other; `fatal[p]`, how
`p` ended, if it did; `forged`, the number of forged packets so far.  `peer[p].outpkt`
is both `p`'s output queue and the connection to the other daemon: the transport is an
encrypted TCP stream, so packets arrive in order, once, or not yet.

The daemon's main loop handles one packet or one command at a time, to the end, so
each is one action: `Recv*` takes the packet at the head of the connection, calls the
handler and whatever `state.c` calls next (`RecvCommit` is `accept_pkt_commit` followed
by `queue_pkt_revocation`; `RecvAnchor` and the funder's `RecvOpenCommitSig` are
followed by `queue_pkt_open_commit_sig`), then moves to the next state, or queues the
error and enters `ERR_BREAKDOWN`, or records the `fatal()`.  `OpenChannel`,
`CreateAnchor`, `AnchorDepthOk`, `SendHtlcAdd`, `SendHtlcFulfill`, `SendHtlcFail`,
`SendCommit`, `BeginClearing` and `StartClosing` are the commands and events.  The
state machine is taken from sections 4.3 to 4.7 of the specification, since `state.c`
is not in `src/`; `OPEN_WAITING_ANCHOR` is the wait for the anchor to be buried, during
which the daemon does not read.

Closing: `BeginClearing` is the user's close command in `NORMAL`;
`RecvCloseClearing` is `accept_pkt_close_clearing`, followed by
`queue_pkt_close_clearing` when the daemon had not begun to close itself.  `Cleared`
is the condition under which `peer->cleared` is sent.  `peer.h` says only "send this
when we have no more HTLCs"; the model asks for more, which the close transaction
needs to be the same for both: both scripts known, no HTLC in either staging cstate,
both staging cstates committed, no timer armed, no revocation owed.  A cleared daemon does not read until `StartClosing` has sent its first
signature, for a fee out of `CloseFees`.  `RecvCloseSignature` is
`accept_pkt_close_signature` and the fee negotiation.

#### What the model assumes of `state.c` and `peer.c`

Two guards of `Channel` are in neither `packets.c` nor the specification.  They are
what the handlers of `packets.c` need of their caller, and every passing run rests
on them:

* **One update at a time.**  `SendCommit` does not fire while the revocation of the
  commitment before is awaited (`CommitsOverlap = FALSE`); the timer stays armed and
  waits.  `struct peer` hints at it (`commit_jsoncmd`: "the command we're
  finishing"; `peer_update_complete`), and `queue_pkt_commit` and
  `accept_pkt_revocation` read `remote.commit->prev` as the one commitment not yet
  revoked.  The run `overlap` shows what happens without (finding 4).
* **A revocation is read only when one is awaited.**  `Expects` takes
  `PKT_UPDATE_REVOCATION` only from a daemon that has signed a commitment and not
  seen it revoked; at any other time the packet is an unexpected one and the daemon
  breaks down.  Without that, `accept_pkt_revocation` would read
  `remote.commit->prev` of the first commitment, which is `NULL`, or fail its
  `assert` at line 816 on a second revocation of the same commitment.

Both are to be compared with `state.c` when it is at hand (section 5).

`Ended` is no operation of the code: it is the step that changes nothing once the
channel is closed by both daemons or one of them has broken down or is gone (see
deadlock checking in section 3).

`Forge(p)` lets a daemon in `Faulty` put any packet of `ForgedPkts(p)` on its
connection at any time, or a second copy of a packet that is in its queue (a packet
delivered twice), in addition to following the protocol.

### Accounts, Ledger and the refinement

`Ledger.tla` says what the channel is for, with none of its machinery: one variable
`ledger`, `NULL` until the channel is funded, then `[balance, htlcs, closed]`, where
`balance[p]` is what party `p` owns before any fee and each HTLC names its offerer.
Its actions are `Fund`, `Offer` (an HTLC the offerer can pay for, under an id it has
not in use), `Fulfil` (the amount goes to the other party), `Fail` (the amount goes
back) and `Close` (only without HTLCs; nothing changes after).  `Accounts.tla` holds
the operators on accounts that both `Ledger` and the mapping use.

`Channel` maps its state to a ledger (`Ledger == INSTANCE Ledger WITH Parties <- Peers,
ledger <- Account`):

* `View(p)` is the channel as daemon `p` has it: its `remote.staging_cstate`, which
  holds `p`'s own changes from the moment it makes them, turned into an account
  (`AccountOf`: the fee goes back to the funder's balance), with the changes of the
  other daemon that `p` is still `Owed`: those in the unacked changes of its current
  local commitment, which `queue_pkt_revocation` will apply, and those still on the
  connection.
* `Account` is the view of the daemon that funded the channel, which has one first.
* `closed` is that some daemon is `CLOSED`.

`OneAccount` says the two views are the same whenever both exist.
`ImplementsLedger` is `Ledger!Spec`: every step of `Channel` maps to a step of
`Ledger` or to no change.  Together they say that a change takes effect, for both
daemons, when its command runs, and that receiving, staging, committing, revoking
and the closing handshake neither lose it, nor apply it twice, nor alter it.

## 3. The runs

| run | cfg | expect | states | what it shows |
|-----|-----|--------|--------|---------------|
| `honest` | `MCChannel_honest.cfg` | pass | 60,967 (symmetry) | two correct daemons, all interleavings, 2 HTLCs each way, from the opening to the mutual close: every invariant of section 1 except the two violated ones |
| `faulty` | `MCChannel_faulty.cfg` | pass | 274,969 | daemon `b` also forges one packet out of 40-odd, or repeats one of its own, at any moment: `a` keeps a closable commitment, valid preimages and the means to punish every old commitment, pays only for a payment preimage and closes only on what `b` signed |
| `live` | `MCChannel_live.cfg` | pass | 3,194 | under the fairness below, two correct daemons that stay in operation end with every change committed on both sides, nothing in flight, no timer armed and no revocation owed; a close both have begun ends with both `CLOSED` |
| `ledger` | `MCChannel_ledger.cfg` | pass | 54,553 (symmetry) | refinement: the two daemons keep one account, and the channel implements `Ledger` |
| `standstill` | `MCChannel_standstill.cfg` | pass | 1,603 (symmetry) | two correct daemons never wait for each other: some step is possible until the channel has ended |
| `cap` | `MCChannel_cap.cfg` | pass | 643,718 (symmetry, constraint) | the cap of HTLCs, not the money, limits the funder: with two HTLCs under way it offers a third as soon as both its views have room, while the other daemon fulfils and fails them; no add is refused with "Too many HTLCs", and none fails where it crosses to the other view |
| `badchain` | `MCChannel_badchain.cfg` | pass | 228,472 | daemon `b` forges a packet as in `faulty` and takes its secrets after the first from a second seed, each still matching the hash announced for it: `a` accepts the first revocation, refuses the second with "preimage not next in shachain", until then its ladder returns every preimage it was sent and punishes every old commitment, and it keeps valid preimages and a closable commitment throughout |
| `nofatal` | `MCChannel_nofatal.cfg` | violation of `NoFatal` | - | concurrent adds end a daemon in `fatal("Adding HTLC ... failed")` |
| `nocommittx` | `MCChannel_nocommittx.cfg` | violation of `NoFatal` | - | `open_commit_sig` after a failed `queue_pkt_anchor` reaches `check_tx_sig` with no transaction |
| `errsender` | `MCChannel_errsender.cfg` | violation of `ErrorSenderBrokeDown` | - | `queue_pkt_anchor` sends an Error and the handshake goes on |
| `overlap` | `MCChannel_overlap.cfg` | violation of `NoProtocolError` | - | a second `update_commit` before the first is revoked makes correct daemons refuse each other |

### Findings

1. **Concurrent adds are fatal** (`packets.c:344`, the FIXME at 641).  `a` funds the
   channel with 4000 msat, pays a 1000 msat HTLC to `b` and `b` fulfils it.  Now both
   add a 1000 msat HTLC before either commits.  Each add passes
   `accept_pkt_htlc_add`, because the staging cstate it is checked against does not
   hold the other add yet.  When the changes cross at the revocation, the funder's
   balance cannot pay the fee of two HTLC outputs, `funding_add_htlc` fails inside
   `apply_changeset`, and the daemon calls `fatal()`.  `OnlyAdmittedFatal` shows this
   is the only `fatal()` the bounds reach, and that no `assert` fails; `ViewsNested`
   and the run `cap` show that it is the money alone: neither the cap nor the ids
   make a crossing add fail.
2. **No commitment transaction** (`packets.c:537`).  After `setup_first_commit` failed
   in `queue_pkt_anchor`, the funder waits for `open_commit_sig` with `ci->tx == NULL`;
   a peer that sends one ends the funder in `check_tx_sig`.
3. **Error without breakdown** (`packets.c:134`).  Root of finding 2: the function
   returns `void`.
4. **One commit at a time** (`packets.c:274`, 804, 826).  The code relies on a
   precondition of the commit timer that the specification does not state.  The
   passing runs assume it (`CommitsOverlap = FALSE`: the timer stays armed and waits
   while a revocation is awaited); the run `overlap` drops it.

### Bounds, and why they are enough

| constant | honest | faulty | why |
|----------|--------|--------|-----|
| `Peers` | `{a, b}` | `{a, b}` | a channel has two ends |
| `AnchorAmounts` | `{0, 4}` satoshi | `{4}` | 0 cannot pay the fee (the failure path of `setup_first_commit`); 4000 msat pays the base fee and up to three HTLCs' worth of amount and fee, so adds succeed and also run out of funds |
| `BaseFee`, `HtlcFee`, `Amounts` | 1000, 1000, `{1000}` msat | same | granularity of one satoshi, as the anchor |
| `MaxHtlcId` | 2 | 1 | HTLCs a daemon offers in a behaviour: with 2 each, adds cross in both directions, a fulfil crosses an add, and the funder runs out of fee |
| `MaxHtlcs` | 2 | 1 | stands for 300; with `MaxHtlcId` no larger a daemon never tries to go beyond it, which is what `cap` is for |
| `MaxShaIndex` | 15 | 15 | stands for 2^64 - 1; chains stay shorter than 10, so the index never reaches 0 |
| `MaxForged` | 0 | 1 | forged or repeated packets in a behaviour |
| `Preimages` | `{r1}` | `{r1}` | one payment secret; the forged fulfils carry it, `NULL`, or the wrong id |
| `CloseFees` | `{1, 2, 4}` | `{1, 4}` | the fee a daemon first suggests: equal fees (closed at once), fees whose mean is one of them (1 and 2: only one daemon has to sign again) and fees whose mean is neither (1 and 4: both sign again) |
| `CommitsOverlap` | FALSE | FALSE | see finding 4 |

`badchain` takes the constants of `faulty` with two HTLCs each way
(`MaxHtlcId = 2`, `MaxHtlcs = 2`) and `SeedOf <- MCForkedSeed` (every other run has
`SeedOf <- MCOneSeed`, one seed for each daemon): the fork shows at the second
revocation, which two HTLCs each way reach on several paths, before or after the
forged packet.

`cap` asks what `honest` cannot, where a daemon runs out of ids before a view is
full with another add on its way: `MaxHtlcs = 2` with `MaxHtlcId = 3`, an anchor of
7 satoshi (the base fee and three HTLCs with their fees, so that funds never stand
in for the cap), `CloseFees = {1}`, and the state constraint `MCOnlyFunderOffers`:
only the user of the funder offers HTLCs, the other daemon fulfils and fails them.
The funder has two HTLCs under way, one is removed, and the third is offered while
the removal is in any of its stages: in the local view only, committed, revoked.
An `AtCap` that is one too strict, or a `CanOffer` that looks at one view only, is
refused by this run.  The constraint leaves out offers in both directions, which
`honest` has.

With `Amounts = {1000, 2000}`, which tells the HTLCs of a daemon apart and lets one
HTLC use up what the funder has, every property of `honest` holds as well (254,221
states, between two and four minutes, so not among the runs).

`ledger` takes the constants of `honest` with `CloseFees = {1, 4}`; the fee of the
close is no part of the account.

`live` takes the constants of `honest` with `AnchorAmounts = {4}`,
`CloseFees = {1, 4}` and `MaxHtlcId = 1`: each daemon offers one
HTLC, which is enough for an add of one to arrive while the other awaits a revocation
(the case in which `queue_pkt_revocation` must arm the timer again; without lines
406-407 the property fails), and keeps the check of the temporal property, whose cost
grows much faster than the number of states, to seconds.  With `MaxHtlcId = 2` the
property holds as well (9,498 states, about nine minutes).

`honest`, `cap`, `ledger` and `standstill` use the symmetry of the two daemons
(`Permutations(Peers)`), which is sound because no definition names a particular
daemon (`Account` is the view of whichever daemon funded, and `Ledger` treats its
parties alike); `faulty` and `badchain` do not, since `Faulty` tells them apart, and
`live` does not, since symmetry is not sound for liveness.

Deadlock is checked in every passing run.  A channel does come to a stop for
`packets.c`: when both daemons are `CLOSED`, when one has broken down or is gone (what
follows happens on the chain).  `Ended` is the step that leaves everything as it is in
such a state, so that a state without a step is one in which two daemons in operation
wait for each other.  `standstill` checks the same as the invariant `NoStandstill`
(`ENABLED Next`), with the constants of `live` and both anchor amounts; evaluating
`ENABLED` costs a few milliseconds a state, which is why it is not an invariant of
`honest`.  The four runs that expect a violation do not check deadlock.

### Fairness

The safety runs assume none.  `live` checks `LiveSpec`, which adds one weak-fairness
condition, `WF_vars(\E p \in Peers : Receive(p) \/ SendCommit(p) \/ StartClosing(p))`:
while some daemon has a packet to read, a commit timer armed or a cleared channel to
sign the close of, one of them takes such a step.
`Receive(p)` is the daemon's I/O loop, which handles a connection that is readable;
`SendCommit(p)` is the timer started by `remote_changes_pending`, which fires once it
is armed and nothing in `packets.c` cancels; `StartClosing(p)` is what the daemon does
by itself when the last HTLC is gone (`peer->cleared`: "send this when we have no more
HTLCs").  The condition is on the union and so is
weaker than fairness to each daemon and each action, which the loops and timers of
two separate processes provide.  The user's commands (`SendHtlcAdd`,
`SendHtlcFulfill`, `SendHtlcFail`, `OpenChannel`, `BeginClearing`) and the chain
(`CreateAnchor`, `AnchorDepthOk`) get no fairness: nothing obliges a user to act.
That is why `ClosingEnds` starts from a close without HTLCs: an HTLC under way is
settled by a user's command, or by its expiry, which is not modelled.

## 4. Not modelled

* The closes on the chain (a daemon closing alone, the other side's commitment or a
  revoked one seen on the chain, `closing_onchain`): `packets.c` has no part in them.
  `CanCloseAlone` says that a daemon holds what it needs for one.
* The bit-level derivation of `ccan/shachain`: it is not in `src/`, and the
  specification gives only its contract (section 4.5), which `Derived`,
  `shachain_add_hash` and `shachain_get_hash` model: a preimage is its seed and its
  index, and deriving moves the index.  Which indexes derive from which in the real
  ladder (the bit patterns) is left out; the handlers only ever add the next index
  down.
* Block-based locktimes and expiries beyond their rejection; the HTLC expiry timers
  (`peer_add_htlc_expiry`).
* Bytes: protobuf layout, scripts, signatures, hashing.
* The chain: only "anchor created" and "anchor buried" are events.
* Loss of the connection and restart of a daemon: `packets.c` keeps nothing on disk.
* `dump_tx`, `dump_key`, logging; `pseudorand.h`.

## 5. Plan

Done: `Funding`, `Packets` (opening, update protocol and mutual close), `Channel`,
the abstract `Ledger` and the refinement, the ladder of revocation preimages, the
eleven runs, among them the liveness of the update protocol and of the close.

Next, in this order:

1. **HTLC expiry**: the expiry timers (`peer_add_htlc_expiry`) as an event that fails
   an HTLC, and with it "an HTLC offered is eventually fulfilled, failed or timed
   out" and a `ClosingEnds` that starts from any close.
2. **A stronger adversary**: two forged packets, larger `MaxHtlcId` with a state
   constraint.
3. **`state.c` and `peer.c`**, once they are at hand: the state machine, the two
   guards of section 2 (`SendCommit`, `Expects`), `Cleared`, the initial `struct
   peer` and `accept_pkt_close_signature` are modelled from the specification and
   should be compared with the code.
