------------------------------ MODULE Channel ------------------------------
(***************************************************************************)
(* One payment channel: two daemons, each with its struct peer for the     *)
(* other, joined by two FIFO connections.                                  *)
(*                                                                         *)
(* The operations on the struct peer are those of module Packets.  This    *)
(* module is the state machine that calls them: which packet a daemon      *)
(* accepts in which state, which command it may run, and what follows an   *)
(* error packet or a fatal().  A daemon handles one packet or one command  *)
(* at a time, to the end, so each is one action.                           *)
(*                                                                         *)
(* peer[p].outpkt is both p's queue of packets to send and the connection  *)
(* to the other daemon: packets leave it at the head, in order.            *)
(***************************************************************************)
EXTENDS Packets

CONSTANTS
    Peers,          \* the two daemons; each is also the name of its keys
    Faulty,         \* daemons that may also send any packet of ForgedPkts
    ForgedPkts(_),  \* what a faulty daemon may send out of turn
    MaxForged,      \* bound: forged packets in one behaviour
    AnchorAmounts,  \* the amounts the funder may put in the anchor
    Amounts,        \* the amounts of an HTLC
    Preimages,      \* the payment preimages ("r") HTLCs are locked to
    MaxHtlcId,      \* bound: HTLCs one daemon offers in one behaviour
    CloseFees,      \* the fees a daemon may first suggest for the close transaction
    CommitsOverlap  \* TRUE: the commit timer also fires while a revocation is awaited

ASSUME /\ Cardinality(Peers) = 2
       /\ Faulty \subseteq Peers
       /\ MaxForged \in Nat /\ MaxHtlcId \in Nat
       /\ CloseFees \subseteq Nat
       /\ CommitsOverlap \in BOOLEAN

VARIABLES
    peer,    \* peer[p]: the struct peer that daemon p keeps for the other
    fatal,   \* fatal[p]: the fatal() that ended daemon p, or NULL
    forged   \* forged packets sent so far

vars == <<peer, fatal, forged>>

States ==
    {"INIT", "OPEN_WAIT_FOR_OPEN", "OPEN_WAIT_FOR_ANCHOR", "OPEN_WAIT_FOR_COMMIT_SIG",
     "OPEN_WAITING_ANCHOR", "OPEN_WAIT_FOR_COMPLETE", "NORMAL",
     "CLEARING", "CLOSE_WAIT_SIG", "CLOSED", "ERR_BREAKDOWN"}

Other(p) == CHOOSE q \in Peers : q # p
Alive(p) == fatal[p] = NULL
Inbox(p) == peer[Other(p)].outpkt
Funds(pr) == pr.local.offer_anchor = "CMD_OPEN_WITH_ANCHOR"

\* We sent an update_commit and have not got the revocation of the
\* commitment it replaces.
AwaitingRevocation(pr) ==
    HasPrev(pr.remote) /\ Prev(pr.remote).revocation_preimage = NULL

-----------------------------------------------------------------------------
(* struct peer as new_peer leaves it *)

EmptyView ==
    [offer_anchor |-> NULL, commitkey |-> NULL, finalkey |-> NULL,
     next_revocation_hash |-> NULL, commit |-> <<>>, staging_cstate |-> NULL]

\* peer->anchor before there is an anchor, peer->closing before a close.
NoAnchor == [txid |-> NULL, satoshis |-> 0]

NoClosing ==
    [our_fee |-> 0, their_sig |-> NULL, their_fee |-> 0,
     our_script |-> NULL, their_script |-> NULL]

InitPeer(p, offer) ==
    [state           |-> "INIT",
     local           |-> [EmptyView EXCEPT !.offer_anchor = offer,
                                           !.commitkey = p,
                                           !.finalkey = p,
                                           !.next_revocation_hash = RevocationHash(p, 0)],
     remote          |-> EmptyView,
     anchor          |-> NoAnchor,
     outpkt          |-> <<>>,
     htlc_id_counter |-> 0,
     commit_timer    |-> FALSE,
     their_preimages |-> <<>>,
     closing         |-> NoClosing]

\* Each daemon is told by its user whether to fund the channel.
Init ==
    /\ \E offer \in [Peers -> AnchorOffers] : peer = [p \in Peers |-> InitPeer(p, offer[p])]
    /\ fatal = [p \in Peers |-> NULL]
    /\ forged = 0

-----------------------------------------------------------------------------
(* How a step ends *)

\* The handler returned an error packet: send it and give the channel up.
Broken(pr, err) == [queue_pkt_err(pr, err) EXCEPT !.state = "ERR_BREAKDOWN"]

(***************************************************************************)
(* The struct peer after a step with result res: in state next, or with    *)
(* the error sent and broken down, or as it was when the process is gone,  *)
(* whatever it had queued in that step unsent.                             *)
(***************************************************************************)
After(pr, res, next) ==
    IF res.fatal # NULL THEN pr
    ELSE IF res.err # NULL THEN Broken(res.peer, res.err)
    ELSE [res.peer EXCEPT !.state = next]

\* A command of p's user, or an event of its chain watcher or its timer,
\* ran to its end with result res.
Command(p, res, next) ==
    /\ fatal' = [fatal EXCEPT ![p] = res.fatal]
    /\ peer' = [peer EXCEPT ![p] = After(@, res, next)]
    /\ UNCHANGED forged

\* p took the packet at the head of its connection and handled it with
\* result res.
Handled(p, res, next) ==
    /\ fatal' = [fatal EXCEPT ![p] = res.fatal]
    /\ peer' = [peer EXCEPT ![p] = After(@, res, next),
                            ![Other(p)].outpkt = Tail(@)]
    /\ UNCHANGED forged

\* res, followed when it succeeded by what the state machine does next.
AndThen(res, then(_)) ==
    IF res.err # NULL \/ res.fatal # NULL THEN res ELSE then(res.peer)

\* The states in which the channel is updated: HTLCs are settled, and
\* commitments signed and revoked, in the clearing phase as before it.
Updating(pr) == pr.state \in {"NORMAL", "CLEARING"}

(***************************************************************************)
(* peer->cleared ("send this when we have no more HTLCs"): the clearing    *)
(* phase is over when no HTLC is left in any view, staged or committed     *)
(* (section 4.7 of the specification).  That both scripts are there, no    *)
(* commit is due and no revocation is awaited is not in packets.c: it is   *)
(* taken here to be what the state machine waits for while an update is    *)
(* under way, since a revocation that came after the close signature would *)
(* be a packet out of its state.  The state machine is told so before it   *)
(* takes the next packet.                                                  *)
(***************************************************************************)
Cleared(pr) ==
    /\ pr.state = "CLEARING"
    /\ pr.closing.our_script # NULL /\ pr.closing.their_script # NULL
    /\ ~pr.commit_timer /\ ~AwaitingRevocation(pr)
    /\ \A which \in {pr.local, pr.remote} :
          /\ which.staging_cstate = Tip(which).cstate
          /\ NumHtlcs(which.staging_cstate) = 0

\* The packet types p's state machine takes in its state.  They add no
\* HTLC after their close_clearing, and send only one.
Expects(pr) ==
    CASE pr.state = "OPEN_WAIT_FOR_OPEN"       -> {"PKT_OPEN"}
      [] pr.state = "OPEN_WAIT_FOR_ANCHOR"     -> IF Funds(pr) THEN {} ELSE {"PKT_OPEN_ANCHOR"}
      [] pr.state = "OPEN_WAIT_FOR_COMMIT_SIG" -> {"PKT_OPEN_COMMIT_SIG"}
      [] pr.state = "OPEN_WAIT_FOR_COMPLETE"   -> {"PKT_OPEN_COMPLETE"}
      [] Updating(pr) ->
            {"PKT_UPDATE_FULFILL_HTLC", "PKT_UPDATE_FAIL_HTLC", "PKT_UPDATE_COMMIT"}
            \cup (IF AwaitingRevocation(pr) THEN {"PKT_UPDATE_REVOCATION"} ELSE {})
            \cup (IF pr.closing.their_script = NULL
                  THEN {"PKT_UPDATE_ADD_HTLC", "PKT_CLOSE_CLEARING"} ELSE {})
      [] pr.state = "CLOSE_WAIT_SIG"           -> {"PKT_CLOSE_SIGNATURE"}
      [] OTHER -> {}

\* p reads its connection: not before it opened, not while it waits for the
\* anchor to be buried, not when the clearing phase has just ended, not
\* after it broke down.
Reads(p) ==
    /\ Alive(p)
    /\ peer[p].state \notin {"INIT", "OPEN_WAITING_ANCHOR", "ERR_BREAKDOWN"}
    /\ ~Cleared(peer[p])
    /\ Inbox(p) # <<>>

Receives(p, type) ==
    /\ Reads(p)
    /\ Head(Inbox(p)).type = type
    /\ type \in Expects(peer[p])

-----------------------------------------------------------------------------
(* Opening *)

OpenChannel(p) ==
    /\ Alive(p)
    /\ peer[p].state = "INIT"
    /\ Command(p, queue_pkt_open(peer[p], IF Funds(peer[p]) THEN "WILL_CREATE_ANCHOR"
                                                            ELSE "WONT_CREATE_ANCHOR"),
               "OPEN_WAIT_FOR_OPEN")

RecvOpen(p) ==
    /\ Receives(p, "PKT_OPEN")
    /\ Handled(p, accept_pkt_open(peer[p], Head(Inbox(p))), "OPEN_WAIT_FOR_ANCHOR")

\* The funder's wallet made the anchor transaction.
CreateAnchor(p) ==
    /\ Alive(p)
    /\ peer[p].state = "OPEN_WAIT_FOR_ANCHOR"
    /\ Funds(peer[p])
    /\ \E satoshis \in AnchorAmounts :
          Command(p, queue_pkt_anchor([peer[p] EXCEPT
                            !.anchor = [txid |-> p, satoshis |-> satoshis]]),
                  "OPEN_WAIT_FOR_COMMIT_SIG")

RecvAnchor(p) ==
    /\ Receives(p, "PKT_OPEN_ANCHOR")
    /\ Handled(p, AndThen(accept_pkt_anchor(peer[p], Head(Inbox(p))),
                          queue_pkt_open_commit_sig),
               "OPEN_WAIT_FOR_COMMIT_SIG")

\* The funder answers the first signature with its own.
RecvOpenCommitSig(p) ==
    /\ Receives(p, "PKT_OPEN_COMMIT_SIG")
    /\ Handled(p, AndThen(accept_pkt_open_commit_sig(peer[p], Head(Inbox(p))),
                          LAMBDA pr : IF Funds(pr) THEN queue_pkt_open_commit_sig(pr)
                                      ELSE Accepted(pr)),
               "OPEN_WAITING_ANCHOR")

\* The chain watcher saw the anchor buried deep enough.
AnchorDepthOk(p) ==
    /\ Alive(p)
    /\ peer[p].state = "OPEN_WAITING_ANCHOR"
    /\ Command(p, queue_pkt_open_complete(peer[p]), "OPEN_WAIT_FOR_COMPLETE")

RecvOpenComplete(p) ==
    /\ Receives(p, "PKT_OPEN_COMPLETE")
    /\ Handled(p, accept_pkt_open_complete(peer[p], Head(Inbox(p))), "NORMAL")

-----------------------------------------------------------------------------
(* Commands in NORMAL *)

CanOffer(pr, htlc) ==
    \A which \in {pr.local, pr.remote} :
        funding_add_htlc(which.staging_cstate, htlc, OURS) # NULL

SendHtlcAdd(p) ==
    /\ Alive(p)
    /\ peer[p].state = "NORMAL"
    /\ peer[p].htlc_id_counter < MaxHtlcId
    /\ \E msatoshis \in Amounts, r \in Preimages :
          LET htlc == [id |-> peer[p].htlc_id_counter, msatoshis |-> msatoshis,
                       rhash |-> sha256(r)]
          IN  /\ CanOffer(peer[p], htlc)
              /\ Command(p, queue_pkt_htlc_add([peer[p] EXCEPT !.htlc_id_counter = @ + 1],
                                                htlc),
                         "NORMAL")

\* The HTLCs of theirs that we may settle: committed to them, not yet
\* settled by us.
Settleable(pr) ==
    Tip(pr.remote).cstate.htlcs[THEIRS] \cap pr.remote.staging_cstate.htlcs[THEIRS]

SendHtlcFulfill(p) ==
    /\ Alive(p)
    /\ Updating(peer[p])
    /\ \E htlc \in Settleable(peer[p]) :
          Command(p, queue_pkt_htlc_fulfill(peer[p], htlc.id, htlc.rhash.sha256),
                  peer[p].state)

SendHtlcFail(p) ==
    /\ Alive(p)
    /\ Updating(peer[p])
    /\ \E htlc \in Settleable(peer[p]) :
          Command(p, queue_pkt_htlc_fail(peer[p], htlc.id), peer[p].state)

(***************************************************************************)
(* The commit timer fires.  queue_pkt_commit takes the revocation hash of  *)
(* the new commitment from remote.next_revocation_hash, which only         *)
(* accept_pkt_revocation renews, and accept_pkt_revocation takes the       *)
(* commitment before the current one to be the one revoked: both count on  *)
(* one update_commit being out at a time, as do the one commit_jsoncmd of  *)
(* struct peer ("if we're doing a commit") and peer_update_complete.  The  *)
(* guard itself is in state.c and peer.c, which are not at hand: it is an  *)
(* assumption, on which every run but overlap rests.  While a revocation   *)
(* is awaited the timer stays armed and the commit waits, unless           *)
(* CommitsOverlap.                                                         *)
(***************************************************************************)
SendCommit(p) ==
    /\ Alive(p)
    /\ Updating(peer[p])
    /\ peer[p].commit_timer
    /\ AwaitingRevocation(peer[p]) => CommitsOverlap
    /\ Command(p, queue_pkt_commit([peer[p] EXCEPT !.commit_timer = FALSE]), peer[p].state)

-----------------------------------------------------------------------------
(* Packets in NORMAL and CLEARING *)

RecvHtlcAdd(p) ==
    /\ Receives(p, "PKT_UPDATE_ADD_HTLC")
    /\ Handled(p, accept_pkt_htlc_add(peer[p], Head(Inbox(p))), peer[p].state)

RecvHtlcFulfill(p) ==
    /\ Receives(p, "PKT_UPDATE_FULFILL_HTLC")
    /\ Handled(p, accept_pkt_htlc_fulfill(peer[p], Head(Inbox(p))), peer[p].state)

RecvHtlcFail(p) ==
    /\ Receives(p, "PKT_UPDATE_FAIL_HTLC")
    /\ Handled(p, accept_pkt_htlc_fail(peer[p], Head(Inbox(p))), peer[p].state)

\* A commitment accepted is answered at once by the revocation of the one
\* before it.
RecvCommit(p) ==
    /\ Receives(p, "PKT_UPDATE_COMMIT")
    /\ Handled(p, AndThen(accept_pkt_commit(peer[p], Head(Inbox(p))), queue_pkt_revocation),
               peer[p].state)

RecvRevocation(p) ==
    /\ Receives(p, "PKT_UPDATE_REVOCATION")
    /\ Handled(p, accept_pkt_revocation(peer[p], Head(Inbox(p))), peer[p].state)

-----------------------------------------------------------------------------
(* Mutual close *)

\* The user asks for the channel to be closed.
BeginClearing(p) ==
    /\ Alive(p)
    /\ peer[p].state = "NORMAL"
    /\ Command(p, queue_pkt_close_clearing(peer[p]), "CLEARING")

\* Their close_clearing is answered by ours, unless ours went first.
RecvCloseClearing(p) ==
    /\ Receives(p, "PKT_CLOSE_CLEARING")
    /\ Handled(p, AndThen(accept_pkt_close_clearing(peer[p], Head(Inbox(p))),
                          LAMBDA pr : IF pr.state = "NORMAL" THEN queue_pkt_close_clearing(pr)
                                      ELSE Accepted(pr)),
               "CLEARING")

\* The clearing phase is over: the first close signature, for the fee this
\* daemon thinks right.
StartClosing(p) ==
    /\ Alive(p)
    /\ Cleared(peer[p])
    /\ \E fee \in CloseFees :
          Command(p, queue_pkt_close_signature([peer[p] EXCEPT !.closing.our_fee = fee]),
                  "CLOSE_WAIT_SIG")

(***************************************************************************)
(* Their close signature.  Our fee moves to the midpoint of ours and       *)
(* theirs; when that changes it, a new signature goes out; when it makes   *)
(* it theirs, the close transaction has both signatures and the channel    *)
(* is closed.                                                              *)
(***************************************************************************)
RecvCloseSignature(p) ==
    /\ Receives(p, "PKT_CLOSE_SIGNATURE")
    /\ LET c   == Head(Inbox(p))
           fee == (peer[p].closing.our_fee + c.close_fee) \div 2
       IN  Handled(p, AndThen(accept_pkt_close_signature(peer[p], c),
                              LAMBDA pr : IF fee = pr.closing.our_fee THEN Accepted(pr)
                                          ELSE queue_pkt_close_signature(
                                                   [pr EXCEPT !.closing.our_fee = fee])),
                   IF fee = c.close_fee THEN "CLOSED" ELSE "CLOSE_WAIT_SIG")

-----------------------------------------------------------------------------
(* Packets in any state *)

\* accept_pkt_error: the other side gave up, so do we.
RecvError(p) ==
    /\ Reads(p)
    /\ Head(Inbox(p)).type = "PKT_ERROR"
    /\ Handled(p, Accepted(peer[p]), "ERR_BREAKDOWN")

\* Any packet the state does not take.
RecvUnexpected(p) ==
    /\ Reads(p)
    /\ Head(Inbox(p)).type \notin Expects(peer[p]) \cup {"PKT_ERROR"}
    /\ Handled(p, [Accepted(peer[p]) EXCEPT !.err = pkt_err_unexpected(Head(Inbox(p)))],
               "ERR_BREAKDOWN")

\* A faulty daemon sends what it likes, or again what it has in its queue.
Forge(p) ==
    /\ p \in Faulty
    /\ Alive(p)
    /\ forged < MaxForged
    /\ \E pkt \in ForgedPkts(p) \cup ToSet(peer[p].outpkt) :
          peer' = [peer EXCEPT ![p].outpkt = Append(@, pkt)]
    /\ forged' = forged + 1
    /\ UNCHANGED fatal

-----------------------------------------------------------------------------

\* Where a channel ends for packets.c: closed by both daemons, or with one
\* of them broken down or gone; what follows happens on the chain.
Ended ==
    /\ \/ \A p \in Peers : peer[p].state = "CLOSED"
       \/ \E p \in Peers : ~Alive(p) \/ peer[p].state = "ERR_BREAKDOWN"
    /\ UNCHANGED vars

Next ==
    \E p \in Peers :
        \/ OpenChannel(p)
        \/ RecvOpen(p)
        \/ CreateAnchor(p)
        \/ RecvAnchor(p)
        \/ RecvOpenCommitSig(p)
        \/ AnchorDepthOk(p)
        \/ RecvOpenComplete(p)
        \/ SendHtlcAdd(p)
        \/ SendHtlcFulfill(p)
        \/ SendHtlcFail(p)
        \/ SendCommit(p)
        \/ RecvHtlcAdd(p)
        \/ RecvHtlcFulfill(p)
        \/ RecvHtlcFail(p)
        \/ RecvCommit(p)
        \/ RecvRevocation(p)
        \/ BeginClearing(p)
        \/ RecvCloseClearing(p)
        \/ StartClosing(p)
        \/ RecvCloseSignature(p)
        \/ RecvError(p)
        \/ RecvUnexpected(p)
        \/ Forge(p)
        \/ Ended

Spec == Init /\ [][Next]_vars

\* p's I/O loop takes the packet at the head of its connection.
Receive(p) ==
    \/ RecvOpen(p) \/ RecvAnchor(p) \/ RecvOpenCommitSig(p) \/ RecvOpenComplete(p)
    \/ RecvHtlcAdd(p) \/ RecvHtlcFulfill(p) \/ RecvHtlcFail(p)
    \/ RecvCommit(p) \/ RecvRevocation(p)
    \/ RecvCloseClearing(p) \/ RecvCloseSignature(p)
    \/ RecvError(p) \/ RecvUnexpected(p)

(***************************************************************************)
(* What the daemons do by themselves: a daemon reads a connection that has *)
(* a packet for it, and its commit timer, once armed, fires.  Nothing      *)
(* makes a user give a command or the chain bury the anchor.  The          *)
(* assumption is only that, while some daemon has a packet to read or a    *)
(* commit due, one of them takes such a step: less than fairness to each   *)
(* daemon, which their I/O loops and timers provide.                       *)
(***************************************************************************)
Fairness == WF_vars(\E p \in Peers : Receive(p) \/ SendCommit(p) \/ StartClosing(p))

LiveSpec == Spec /\ Fairness

-----------------------------------------------------------------------------
(* What the properties speak of *)

\* How a daemon ends: the fatal() calls of apply_changeset and of
\* queue_pkt_htlc_add, a failed assert, a read through NULL.
Fatals ==
    {"Can't add duplicate HTLC id", "Can't fail non-exisent HTLC id",
     "Can't fulfill non-exisent HTLC id", "Adding HTLC failed", "Could not add HTLC?",
     NoCommitTx, NoPrevCommit} \cup Asserts

\* What an honest daemon may have to tell the other: the two users asked
\* for the same role, or the funder's anchor does not pay the fee.
OpeningProblems ==
    {"Only one side can offer anchor", "Own anchor has insufficient funds"}

CommitInfos(pr) == ToSet(pr.local.commit) \cup ToSet(pr.remote.commit)

\* Every snapshot a daemon keeps.
Snapshots(pr) ==
    ({ci.cstate : ci \in CommitInfos(pr)}
        \cup {pr.local.staging_cstate, pr.remote.staging_cstate}) \ {NULL}

\* A snapshot as the other daemon writes it.
Mirrored(cstate) ==
    [funder  |-> Flip(cstate.funder),
     pay     |-> [s \in Sides |-> cstate.pay[Flip(s)]],
     htlcs   |-> [s \in Sides |-> cstate.htlcs[Flip(s)]],
     changes |-> cstate.changes]

Operating(p) == Alive(p) /\ peer[p].state \in {"NORMAL", "CLEARING", "CLOSE_WAIT_SIG"}

\* Nothing is under way: no packet in flight, no commit due, no revocation
\* awaited.
Quiescent ==
    \A p \in Peers :
        /\ Operating(p)
        /\ peer[p].outpkt = <<>>
        /\ ~peer[p].commit_timer
        /\ ~AwaitingRevocation(peer[p])

\* Every change staged is in the current commitment of its view.
AllCommitted ==
    \A p \in Peers : \A which \in {peer[p].local, peer[p].remote} :
        which.staging_cstate = Tip(which).cstate

\* The error packets p has sent and the other has not read.
ErrorsSent(p) == {pkt \in ToSet(peer[p].outpkt) : pkt.type = "PKT_ERROR"}

-----------------------------------------------------------------------------
(* Invariants *)

(***************************************************************************)
(* The type invariant.  It includes that commit_num counts the commitments *)
(* of a chain from 0 (queue_pkt_commit and accept_pkt_commit set it to     *)
(* prev->commit_num + 1).                                                  *)
(***************************************************************************)
TypeOK ==
    /\ forged \in 0..MaxForged
    /\ \A p \in Peers :
          /\ fatal[p] \in Fatals \cup {NULL}
          /\ peer[p].state \in States
          /\ peer[p].commit_timer \in BOOLEAN
          /\ peer[p].htlc_id_counter \in 0..MaxHtlcId
          /\ {peer[p].closing.our_fee, peer[p].closing.their_fee} \subseteq 0..Max(CloseFees \cup {0})
          /\ \A pkt \in ToSet(peer[p].outpkt) : pkt.type \in PktTypes
          /\ \A chain \in {peer[p].local.commit, peer[p].remote.commit} :
                \A i \in DOMAIN chain : chain[i].commit_num = i - 1

(***************************************************************************)
(* Conservation: in every snapshot a daemon keeps, committed or staging,   *)
(* the two balances, the HTLCs in flight and the fee add up to the anchor  *)
(* (setup_first_commit, and every funding_ call of packets.c after it).    *)
(***************************************************************************)
Conservation ==
    \A p \in Peers : \A cstate \in Snapshots(peer[p]) :
        /\ cstate.pay[OURS] >= 0 /\ cstate.pay[THEIRS] >= 0
        /\ cstate.pay[OURS] + cstate.pay[THEIRS] + HtlcsMsat(cstate) + ExpectedFee(cstate)
              = 1000 * peer[p].anchor.satoshis

(***************************************************************************)
(* Two daemons that follow the protocol never refuse each other's packets: *)
(* the only error packets are those about how the channel was opened.  In  *)
(* particular every update_commit carries a signature the receiver finds   *)
(* good, so the transaction queue_pkt_commit signs from its remote staging *)
(* cstate is the one accept_pkt_commit builds from its local staging       *)
(* cstate, whatever was in flight in between.                              *)
(***************************************************************************)
NoProtocolError ==
    \A p \in Peers : \A pkt \in ErrorsSent(p) : pkt.problem \in OpeningProblems

(***************************************************************************)
(* No daemon is ended by what it is sent or told to do: no fatal() of      *)
(* apply_changeset or queue_pkt_htlc_add, no failed assert, no read of a   *)
(* commitment transaction that was never built.                            *)
(***************************************************************************)
NoFatal == \A p \in Peers : Alive(p)

(***************************************************************************)
(* As NoFatal, but for the one fatal() the FIXME in accept_pkt_htlc_add    *)
(* admits.  So every assert of packets.c holds when it is reached (the     *)
(* commit is not empty, the commitment revoked has a successor that is     *)
(* signed and was not revoked before, the HTLC settled is in the remote    *)
(* staging cstate), and the changes that cross at a revocation refer to    *)
(* HTLCs the other view has (fail, fulfill) or has not (add).              *)
(***************************************************************************)
OnlyAdmittedFatal == \A p \in Peers : fatal[p] \in {NULL, "Adding HTLC failed"}

(***************************************************************************)
(* The commit timer is armed exactly while the remote staging cstate has   *)
(* changes the current remote commitment lacks.  Armed without changes,    *)
(* queue_pkt_commit fails its assertion that the commit is not empty; not  *)
(* armed with changes (those that crossed in queue_pkt_revocation          *)
(* included), the changes are never committed.                             *)
(***************************************************************************)
CommitTimerExact ==
    \A p \in Peers :
        Operating(p) =>
            (peer[p].commit_timer <=>
                peer[p].remote.staging_cstate.changes # Tip(peer[p].remote).cstate.changes)

(***************************************************************************)
(* When nothing is under way, both daemons agree on the channel: the four  *)
(* snapshots of a daemon (staging and committed, local and remote view)    *)
(* are one, and it is the other daemon's mirrored.  Every change has then  *)
(* crossed to the other view in queue_pkt_revocation and                   *)
(* accept_pkt_revocation, exactly once.                                    *)
(***************************************************************************)
QuiescentAgree ==
    Quiescent =>
        \A p \in Peers :
            LET mine == peer[p].local.staging_cstate
            IN  /\ Snapshots([peer[p] EXCEPT !.local.commit  = <<Tip(peer[p].local)>>,
                                             !.remote.commit = <<Tip(peer[p].remote)>>])
                      = {mine}
                /\ peer[Other(p)].local.staging_cstate = Mirrored(mine)

(***************************************************************************)
(* The two views of a daemon are nested: an HTLC it offered is in its      *)
(* remote staging cstate for as long as it is in its local one, and an     *)
(* HTLC of the other side in its local staging cstate for as long as it is *)
(* in its remote one.  A change is made in one view (queue_pkt_htlc_add,   *)
(* _fulfill and _fail in the remote, the accept_pkt_htlc functions in the  *)
(* local) and crosses to the other at a revocation; adds and removals of   *)
(* both daemons cross in any order.  This is why the funding_add_htlc of   *)
(* apply_changeset meets neither the id of the HTLC nor the cap of HTLCs   *)
(* when an add crosses (the fatal() at lines 337 and 344), and why of the  *)
(* two id checks of accept_pkt_htlc_add ("these should be in sync") the    *)
(* one on the local view decides.                                          *)
(***************************************************************************)
ViewsNested ==
    \A p \in Peers :
        LET ours   == peer[p].local.staging_cstate
            theirs == peer[p].remote.staging_cstate
        IN  (ours # NULL /\ theirs # NULL) =>
                /\ ours.htlcs[OURS] \subseteq theirs.htlcs[OURS]
                /\ theirs.htlcs[THEIRS] \subseteq ours.htlcs[THEIRS]

(***************************************************************************)
(* The channel comes to a stop only where it has Ended: two daemons in     *)
(* operation never wait for each other.  What one waits for (the open of  *)
(* the other, a signature, a                                               *)
(* revocation after queue_pkt_commit, the close_clearing and the close     *)
(* signatures of queue_pkt_close_clearing and queue_pkt_close_signature)   *)
(* the other has sent or can still send, and what has been sent is taken.  *)
(***************************************************************************)
NoStandstill == ENABLED Next

(***************************************************************************)
(* Every revocation preimage kept hashes to the revocation hash of its     *)
(* commitment: those received (check_preimage in accept_pkt_revocation)    *)
(* and those revealed, for which the hash announced one commitment ahead   *)
(* in queue_pkt_open and accept_pkt_commit must be the hash of the         *)
(* preimage queue_pkt_revocation derives from commit_num later.            *)
(***************************************************************************)
RevocationValid ==
    \A p \in Peers : \A ci \in CommitInfos(peer[p]) :
        ci.revocation_preimage # NULL =>
            sha256(ci.revocation_preimage) = ci.revocation_hash

(***************************************************************************)
(* A daemon that follows the protocol can find again, from the newest      *)
(* preimage in its ladder alone, the preimage of every commitment the      *)
(* other side has revoked, under the index of that commitment: the index   *)
(* accept_pkt_revocation gives shachain_add_hash (0xFFFFFFFFFFFFFFFF less   *)
(* commit_num of commit->prev) is the one the preimage has in the other    *)
(* side's chain, and a preimage that hashes as announced but continues     *)
(* another chain is refused.  These preimages are what the daemon punishes *)
(* a revoked commitment with.                                              *)
(***************************************************************************)
LadderRecovers ==
    \A p \in Peers \ Faulty :
        (Alive(p) /\ peer[p].state # "ERR_BREAKDOWN") =>
            \A ci \in ToSet(peer[p].remote.commit) :
                ci.revocation_preimage # NULL =>
                    shachain_get_hash(peer[p].their_preimages, ShaIndex(ci))
                        = ci.revocation_preimage

(***************************************************************************)
(* A daemon that follows the protocol can punish every commitment it has   *)
(* signed for the other side, but for the newest and the one before it:    *)
(* its ladder gives the preimage of the revocation hash of each.  So the   *)
(* other side never holds more than two transactions it may use, and a     *)
(* daemon that awaits a revocation signs nothing more (queue_pkt_commit    *)
(* makes the third, accept_pkt_revocation and shachain_add_hash take the   *)
(* first away), whatever the other side sends in place of a revocation.    *)
(***************************************************************************)
OldStatesPunishable ==
    \A p \in Peers \ Faulty :
        Alive(p) =>
            \A i \in 1..(Len(peer[p].remote.commit) - 2) :
                LET ci == peer[p].remote.commit[i]
                IN  sha256(shachain_get_hash(peer[p].their_preimages, ShaIndex(ci)))
                        = ci.revocation_hash

(***************************************************************************)
(* A daemon in NORMAL that follows the protocol can close alone: its       *)
(* current commitment carries the other side's good signature              *)
(* (check_and_save_commit_sig) and its preimage is not revealed, neither   *)
(* in a revocation still in its queue nor in one the other daemon has      *)
(* taken (queue_pkt_revocation reveals the commitment before the current   *)
(* one, after the current one is signed).                                  *)
(***************************************************************************)
CanCloseAlone ==
    \A p \in Peers \ Faulty :
        Operating(p) =>
            LET mine == Tip(peer[p].local)
                revealed ==
                    {pkt.revocation_preimage :
                        pkt \in {q \in ToSet(peer[p].outpkt) : q.type = "PKT_UPDATE_REVOCATION"}}
                    \cup {ci.revocation_preimage : ci \in ToSet(peer[Other(p)].remote.commit)}
            IN  /\ check_tx_sig(TxOf(peer[p], mine, OURS), peer[p].remote.commitkey, mine.sig)
                /\ mine.revocation_preimage = NULL
                /\ \A preimage \in revealed \ {NULL} :
                      ~check_preimage(preimage, mine.revocation_hash)

(***************************************************************************)
(* A daemon that has sent an error packet has given the channel up         *)
(* (section 4.3 of the specification: any protocol violation moves to      *)
(* ERR_BREAKDOWN after the Error packet).                                  *)
(***************************************************************************)
ErrorSenderBrokeDown ==
    \A p \in Peers : ErrorsSent(p) # {} => peer[p].state = "ERR_BREAKDOWN"

(***************************************************************************)
(* A daemon that follows the protocol closes only on a transaction that    *)
(* both have signed and that pays it what its last commitment gave it, to  *)
(* the script of its own final key: the script it kept in                  *)
(* queue_pkt_close_clearing is the one it asked for, the fee it signed for *)
(* in queue_pkt_close_signature is the one they signed for, and no HTLC    *)
(* was left behind when the signatures began.  When both have closed, they *)
(* hold the same transaction.                                              *)
(***************************************************************************)
MutualClosePays ==
    \A p \in Peers \ Faulty :
        (Alive(p) /\ peer[p].state = "CLOSED") =>
            LET mine   == peer[p]
                tx     == peer_create_close_tx(mine, mine.closing.our_fee)
                theirs == peer[Other(p)]
            IN  /\ check_tx_sig(tx, mine.remote.commitkey, mine.closing.their_sig)
                /\ NumHtlcs(Tip(mine.local).cstate) = 0
                /\ <<scriptpubkey_p2sh(mine.local.finalkey), Tip(mine.local).cstate.pay[OURS]>>
                      \in tx.pay
                /\ (Other(p) \notin Faulty /\ theirs.state = "CLOSED") =>
                      tx = peer_create_close_tx(theirs, theirs.closing.our_fee)

-----------------------------------------------------------------------------
(* Action properties *)

\* What a snapshot leaves us: our balance, the HTLCs we offered and may get
\* back, and the fee if it is we who pay it.
Wealth(cstate) ==
    cstate.pay[OURS] + MapThenSumSet(LAMBDA h : h.msatoshis, cstate.htlcs[OURS])
        + (IF cstate.funder = OURS THEN ExpectedFee(cstate) ELSE 0)

(***************************************************************************)
(* A daemon that follows the protocol pays only for a preimage: whatever   *)
(* the other side sends, what our local staging cstate leaves us shrinks   *)
(* only in accept_pkt_htlc_fulfill, by the amount of an HTLC we offered    *)
(* and for the r that its rhash is the hash of.                            *)
(***************************************************************************)
PaidOnlyForPreimage ==
    [][\A p \in Peers \ Faulty :
          LET old == peer[p].local.staging_cstate
              new == peer'[p].local.staging_cstate
          IN  (old # NULL /\ new # NULL /\ Wealth(new) < Wealth(old)) =>
                  \E htlc \in old.htlcs[OURS] :
                      /\ Inbox(p) # <<>>
                      /\ Head(Inbox(p)) = [type |-> "PKT_UPDATE_FULFILL_HTLC",
                                           id |-> htlc.id, r |-> htlc.rhash.sha256]
                      /\ Wealth(new) = Wealth(old) - htlc.msatoshis]_vars

-----------------------------------------------------------------------------
(* Liveness *)

(***************************************************************************)
(* While both daemons run the channel, every change is committed in the    *)
(* end, in the commitments of both: the commit timer armed by a change     *)
(* (remote_changes_pending in queue_pkt_htlc_add) fires, the commitment is *)
(* answered by a revocation, and the revocation arms the timer of the      *)
(* other daemon for the changes that crossed (queue_pkt_revocation), so    *)
(* that after the last command the channel comes to rest with nothing      *)
(* staged, nothing in flight and no revocation owed.                       *)
(***************************************************************************)
EventuallySettled ==
    <>[]((\A p \in Peers : Operating(p)) => Quiescent /\ AllCommitted)

(***************************************************************************)
(* A close that both daemons have begun, with no HTLC left to wait for,    *)
(* ends with both in CLOSED: the commits and revocations still under way   *)
(* come to an end, each daemon finds the channel cleared and sends its     *)
(* signature (queue_pkt_close_signature), and the fees suggested meet.     *)
(***************************************************************************)
ClosingEnds ==
    (\A p \in Peers :
        /\ Alive(p) /\ peer[p].state \in {"CLEARING", "CLOSE_WAIT_SIG"}
        /\ \A which \in {peer[p].local, peer[p].remote} :
              NumHtlcs(which.staging_cstate) + NumHtlcs(Tip(which).cstate) = 0)
        ~> (\A p \in Peers : peer[p].state = "CLOSED")

-----------------------------------------------------------------------------
(* The channel as one account: refinement of module Ledger *)

\* The daemon a side stands for in the snapshots of p.
PartyOf(p, side) == IF side = OURS THEN p ELSE Other(p)

\* An HTLC of a snapshot as the account has it.
Entry(offerer, htlc) ==
    [offerer |-> offerer, id |-> htlc.id, msatoshis |-> htlc.msatoshis, rhash |-> htlc.rhash]

\* A snapshot of p as an account: what each daemon owns before the fee,
\* which the snapshot has taken from its funder.
AccountOf(p, cstate) ==
    [balance |-> [x \in Peers |->
                     LET side == IF x = p THEN OURS ELSE THEIRS
                     IN  cstate.pay[side]
                             + (IF cstate.funder = side THEN ExpectedFee(cstate) ELSE 0)],
     htlcs   |-> UNION {{Entry(PartyOf(p, side), htlc) : htlc \in cstate.htlcs[side]} :
                           side \in Sides},
     closed  |-> \E x \in Peers : peer[x].state = "CLOSED"]

\* The change an update packet asks for, as the receiver stages it.
Asked(pkt) ==
    CASE pkt.type = "PKT_UPDATE_ADD_HTLC" ->
            StageAdd([id |-> pkt.id, msatoshis |-> pkt.amount_msat, rhash |-> pkt.r_hash])
      [] pkt.type = "PKT_UPDATE_FULFILL_HTLC" -> StageFulfill(pkt.id, pkt.r)
      [] pkt.type = "PKT_UPDATE_FAIL_HTLC" -> StageFail(pkt.id)

(***************************************************************************)
(* The changes the other daemon has made that p's remote staging cstate    *)
(* lacks, oldest first: those p has received and will apply when it        *)
(* revokes (the unacked changes of its current local commitment; those of  *)
(* the commitments before it were applied in queue_pkt_revocation), then   *)
(* those still on the connection.                                          *)
(***************************************************************************)
Owed(p) ==
    LET coming == SelectSeq(Inbox(p), LAMBDA pkt : pkt.type \in {"PKT_UPDATE_ADD_HTLC",
                                                                 "PKT_UPDATE_FULFILL_HTLC",
                                                                 "PKT_UPDATE_FAIL_HTLC"})
    IN  Tip(peer[p].local).unacked_changes \o [i \in DOMAIN coming |-> Asked(coming[i])]

Acct == INSTANCE Accounts WITH Parties <- Peers

\* An account after a change that daemon by has made.
Changed(account, change, by) ==
    LET settled == Acct!Live(account, Other(by), change.id)
    IN  CASE change.type = "HTLC_ADD" -> Acct!Offered(account, Entry(by, change.htlc))
          [] settled = {} -> account
          [] change.type = "HTLC_FULFILL" ->
                Acct!Settled(account, CHOOSE htlc \in settled : TRUE, by)
          [] change.type = "HTLC_FAIL" ->
                Acct!Settled(account, CHOOSE htlc \in settled : TRUE, Other(by))

(***************************************************************************)
(* The channel as daemon p has it: its remote staging cstate, where its    *)
(* own changes are from the moment it makes them, with the changes of the  *)
(* other daemon it is still owed.  NULL before p has a first commitment.   *)
(***************************************************************************)
View(p) ==
    IF peer[p].remote.staging_cstate = NULL THEN NULL
    ELSE FoldLeft(LAMBDA account, change : Changed(account, change, Other(p)),
                  AccountOf(p, peer[p].remote.staging_cstate), Owed(p))

Views == {View(p) : p \in Peers} \ {NULL}

\* The account the two daemons keep between them, as the daemon has it
\* that funded the channel and so had it first (OneAccount below: the
\* other daemon, once it has one, has the same).
Account ==
    LET first == {p \in Peers : Funds(peer[p]) /\ peer[p].remote.staging_cstate # NULL}
    IN  IF first = {} THEN NULL ELSE View(CHOOSE p \in first : TRUE)

Ledger == INSTANCE Ledger WITH Parties <- Peers, ledger <- Account

(***************************************************************************)
(* The two daemons keep one account: whatever is staged, signed, revoked   *)
(* or in flight, the changes a daemon has made and those it is owed add up *)
(* to the same for both.  No change is lost or counted twice on its way    *)
(* from queue_pkt_htlc_add, _fulfill or _fail through the unacked changes  *)
(* to the apply_changeset of queue_pkt_revocation.                         *)
(***************************************************************************)
OneAccount == Cardinality(Views) <= 1

(***************************************************************************)
(* The channel implements the ledger: every step of a daemon either leaves *)
(* the account as it is (packets received, commitments signed and revoked, *)
(* the closing handshake up to its end) or is one funding, one offer of an *)
(* HTLC its offerer can pay for, one fulfilment or failure of an HTLC      *)
(* under way, or the close of an account without HTLCs.  So a change takes *)
(* effect when its command runs (queue_pkt_htlc_add, _fulfill, _fail), and *)
(* nothing the daemons exchange after it alters what was agreed.           *)
(***************************************************************************)
ImplementsLedger == Ledger!Spec

=============================================================================
