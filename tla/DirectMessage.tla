----------------------------- MODULE DirectMessage -----------------------------
(***************************************************************************)
(* Direct messages from one account to another: the sender core's durable  *)
(* acceptance store and its SenderMsgID counter, the retry loop that       *)
(* follows the recipient's binding, the recipient core's replay window and *)
(* mailbox, and the acknowledgements between them.                         *)
(*                                                                         *)
(* The recipient moves between cores; the sender leaves SenderCore and may *)
(* come back.  What it sends elsewhere is in another core's store with a   *)
(* counter of its own and is left out.  A routed envelope and an           *)
(* acknowledgement can be handled any number of times, in any order or     *)
(* never.  Accept and MarkAck run under the store's lock, so               *)
(* each is one step; handling an envelope is several, because the replay   *)
(* window, the mailbox and the acknowledgement are separate critical       *)
(* sections and two handlers can run for one message.  The acceptance      *)
(* store is an ffldb bucket: a crash takes it back to the last flush.      *)
(* Mailboxes are DKVS batches and survive.  Rate limits and retry-after    *)
(* delays decide when a step happens, not what it does, and show up as a   *)
(* step not taken or a delivery that fails.                                *)
(***************************************************************************)
EXTENDS Naturals, FiniteSets

CONSTANTS
    Cores,         \* CoreNodes
    SenderCore,    \* the core that keeps the records of the sender
    Messages,      \* MessageIDs the sender signs
    NoRecord,      \* no acceptance record
    Unsigned,      \* a MessageID not signed yet
    Plans          \* bounds explored together: messages sent, moves of the
                   \* recipient and of the sender, crashes of any core, expiries and evictions in
                   \* replay windows, deletions and expiries in mailboxes and
                   \* expiries in the acceptance store

(* Statuses an acknowledgement can carry, and the acceptance record.        *)
MessageAckStatus == {"OK", "RETRYABLE"}

acceptedMessage == [seq: Nat, target: Cores, final: BOOLEAN, status: MessageAckStatus \cup {"NONE"}]

ASSUME DirectAssumption ==
    /\ SenderCore \in Cores
    /\ NoRecord \notin acceptedMessage
    /\ Unsigned \notin Nat
    /\ Plans \subseteq [sends: Nat, moves: Nat, leaves: Nat, crashes: Nat, forgets: Nat, deletes: Nat, prunes: Nat]

VARIABLES
    signed,    \* SenderMsgID each message was signed with
    next,      \* next_sender_msg_id of the sender at its core
    accepted,  \* acceptance record of each message
    flushed,   \* <<next, accepted>> as last flushed
    scan,      \* records the current retry pass has still to handle
    routed,    \* envelopes handed to the network, [msg, core]
    acks,      \* acknowledgements handed to the network, [msg, core, status]
    window,    \* replay window: core -> message -> "none", "pending", "done"
    handlers,  \* deliveries being handled, [msg, core, step]
    mail,      \* mailbox records, [msg, core]
    stored,    \* history: mailbox records ever written
    home,      \* the recipient's core
    view,      \* each core's replica of that binding
    from,      \* the sender's core
    fromView,  \* each core's replica of that binding
    moves, leaves, crashes, forgets, deletes, prunes,
    plan       \* the bounds of this behaviour

sendVars == <<signed, next, accepted, flushed, scan>>
netVars  == <<routed, acks>>
recvVars == <<window, handlers, mail, stored>>
bindVars == <<home, view, from, fromView, moves, leaves>>
faultVars == <<crashes, forgets, deletes, prunes, plan>>
vars == <<signed, next, accepted, flushed, scan, routed, acks, window, handlers, mail, stored,
          bindVars, crashes, forgets, deletes, prunes, plan>>

Init ==
    /\ signed = [m \in Messages |-> Unsigned]
    /\ next = 0
    /\ accepted = [m \in Messages |-> NoRecord]
    /\ flushed = <<next, accepted>>
    /\ scan = {}
    /\ routed = {}
    /\ acks = {}
    /\ window = [c \in Cores |-> [m \in Messages |-> "none"]]
    /\ handlers = {}
    /\ mail = {}
    /\ stored = {}
    /\ home \in Cores
    /\ view = [c \in Cores |-> home]
    /\ from = SenderCore
    /\ fromView = [c \in Cores |-> from]
    /\ moves = 0
    /\ leaves = 0
    /\ crashes = 0
    /\ forgets = 0
    /\ deletes = 0
    /\ prunes = 0
    /\ plan \in Plans

-----------------------------------------------------------------------------
(* The sender core.                                                         *)

Packet(m, c) == [msg |-> m, core |-> c]

(* AccountBoundToCore, for the sender and its core.                         *)
SenderBoundHere == fromView[SenderCore] = SenderCore

(* The wallet asks for the next SenderMsgID and signs with the answer; two  *)
(* devices can be given the same one.                                       *)
GetNextSenderMsgID(m) ==
    /\ SenderBoundHere
    /\ signed[m] = Unsigned
    /\ Cardinality({n \in Messages : signed[n] # Unsigned}) < plan.sends
    /\ signed' = [signed EXCEPT ![m] = next]
    /\ UNCHANGED <<next, accepted, flushed, scan, netVars, recvVars, bindVars, faultVars>>

(* Seeded fault: a stale SenderMsgID is taken.                              *)
AcceptNewAnySeq(m, c) ==
    /\ accepted[m] = NoRecord
    /\ accepted' = [accepted EXCEPT ![m] = [seq |-> signed[m], target |-> c, final |-> FALSE, status |-> "NONE"]]
    /\ next' = next + 1

(* Accept of a message that has no record: only the expected SenderMsgID,   *)
(* and record and counter change together.                                  *)
AcceptNew(m, c) ==
    /\ accepted[m] = NoRecord
    /\ signed[m] = next
    /\ accepted' = [accepted EXCEPT ![m] = [seq |-> signed[m], target |-> c, final |-> FALSE, status |-> "NONE"]]
    /\ next' = next + 1

(* Accept of a message that has one: the target follows the binding until   *)
(* the record is final, the counter stays.                                  *)
AcceptAgain(m, c) ==
    /\ accepted[m] # NoRecord
    /\ accepted' = IF accepted[m].final THEN accepted ELSE [accepted EXCEPT ![m].target = c]
    /\ UNCHANGED next

(* SendDirectMessage: only for an account bound here; accept, then route    *)
(* unless a duplicate is final.                                             *)
SendDirectMessage(m) ==
    /\ signed[m] # Unsigned
    /\ SenderBoundHere
    /\ LET c == view[SenderCore] IN
         \/ AcceptNew(m, c) /\ routed' = routed \cup {Packet(m, c)}
         \/ /\ AcceptAgain(m, c)
            /\ routed' = IF accepted[m].final THEN routed ELSE routed \cup {Packet(m, c)}
    /\ UNCHANGED <<signed, flushed, scan, acks, recvVars, bindVars, faultVars>>

(* Seeded fault: a retry keeps the target of the first attempt.             *)
RetryPendingOldTarget(x) ==
    /\ scan' = scan \ {x}
    /\ routed' = routed \cup {Packet(x.msg, x.rec.target)}
    /\ UNCHANGED <<signed, next, accepted, flushed, acks, recvVars, bindVars, faultVars>>

(* RetryPendingResolved: a snapshot of the records that are not final, then *)
(* one at a time: keep or refresh the target, and route.  A record of the   *)
(* snapshot may since have become final or been retargeted; it is still     *)
(* there, because only this goroutine prunes, before it takes the snapshot. *)
StartRetry ==
    /\ scan = {}
    /\ scan' = {[msg |-> m, rec |-> accepted[m]] :
                  m \in {n \in Messages : accepted[n] # NoRecord /\ ~accepted[n].final}}
    /\ UNCHANGED <<signed, next, accepted, flushed, netVars, recvVars, bindVars, faultVars>>

RetryPending(x) ==
    /\ scan' = scan \ {x}
    /\ LET c == view[SenderCore] IN
         \/ /\ c = x.rec.target
            /\ routed' = routed \cup {Packet(x.msg, c)}
            /\ UNCHANGED <<next, accepted>>
         \/ /\ c # x.rec.target
            /\ AcceptAgain(x.msg, c)
            /\ routed' = routed \cup {Packet(x.msg, accepted'[x.msg].target)}
    /\ UNCHANGED <<signed, flushed, acks, recvVars, bindVars, faultVars>>

(* PruneExpiredDirect drops a record at the end of its lease, final or not. *)
PruneExpiredDirect(m) ==
    /\ prunes < plan.prunes
    /\ scan = {}
    /\ accepted[m] # NoRecord
    /\ accepted' = [accepted EXCEPT ![m] = NoRecord]
    /\ prunes' = prunes + 1
    /\ UNCHANGED <<signed, next, flushed, scan, netVars, recvVars, bindVars, crashes, forgets, deletes, plan>>

(* Seeded fault: any core's acknowledgement counts.                         *)
MarkAckAnyCore(k) ==
    /\ accepted[k.msg] # NoRecord
    /\ accepted' = [accepted EXCEPT ![k.msg].status = k.status, ![k.msg].final = (k.status = "OK")]
    /\ UNCHANGED <<signed, next, flushed, scan, netVars, recvVars, bindVars, faultVars>>

(* Seeded fault: an acknowledgement never finishes the record.              *)
MarkAckNeverFinal(k) ==
    /\ accepted[k.msg] # NoRecord
    /\ accepted[k.msg].target = k.core
    /\ accepted' = [accepted EXCEPT ![k.msg].status = k.status]
    /\ UNCHANGED <<signed, next, flushed, scan, netVars, recvVars, bindVars, faultVars>>

(* An acknowledgement counts only from the core the record now targets; the *)
(* last one to arrive decides, so a late RETRYABLE reopens a final record.  *)
MarkAck(k) ==
    /\ accepted[k.msg] # NoRecord
    /\ accepted[k.msg].target = k.core
    /\ accepted' = [accepted EXCEPT ![k.msg].status = k.status, ![k.msg].final = (k.status = "OK")]
    /\ UNCHANGED <<signed, next, flushed, scan, netVars, recvVars, bindVars, faultVars>>

-----------------------------------------------------------------------------
(* The recipient's core: handleIncomingDirect.                              *)

Ack(p, st) == [msg |-> p.msg, core |-> p.core, status |-> st]

Handler(p, step) == [msg |-> p.msg, core |-> p.core, step |-> step]

(* An envelope counts only from the core the sender is bound to; any other  *)
(* is dropped without an acknowledgement.                                   *)
validateAccountSource(p) == fromView[p.core] = SenderCore

(* The recipient is not bound here: told to retry.                          *)
RecipientMoved(p) ==
    /\ validateAccountSource(p)
    /\ view[p.core] # p.core
    /\ acks' = acks \cup {Ack(p, "RETRYABLE")}
    /\ UNCHANGED <<sendVars, routed, recvVars, bindVars, faultVars>>

(* Seeded fault: a message in the window counts as delivered at once.       *)
ReplayBeginPendingOK(p) ==
    /\ validateAccountSource(p)
    /\ view[p.core] = p.core
    /\ \/ /\ window[p.core][p.msg] # "none"
          /\ acks' = acks \cup {Ack(p, "OK")}
          /\ UNCHANGED <<window, handlers>>
       \/ /\ window[p.core][p.msg] = "none"
          /\ window' = [window EXCEPT ![p.core][p.msg] = "pending"]
          /\ handlers' = handlers \cup {Handler(p, "begun")}
          /\ UNCHANGED acks
    /\ UNCHANGED <<sendVars, routed, mail, stored, bindVars, faultVars>>

(* The replay window: a message it has committed is acknowledged, one that  *)
(* another handler is committing is told to retry, any other is reserved.   *)
ReplayBegin(p) ==
    /\ validateAccountSource(p)
    /\ view[p.core] = p.core
    /\ \/ /\ window[p.core][p.msg] = "done"
          /\ acks' = acks \cup {Ack(p, "OK")}
          /\ UNCHANGED <<window, handlers>>
       \/ /\ window[p.core][p.msg] = "pending"
          /\ acks' = acks \cup {Ack(p, "RETRYABLE")}
          /\ UNCHANGED <<window, handlers>>
       \/ /\ window[p.core][p.msg] = "none"
          /\ window' = [window EXCEPT ![p.core][p.msg] = "pending"]
          /\ handlers' = handlers \cup {Handler(p, "begun")}
          /\ UNCHANGED acks
    /\ UNCHANGED <<sendVars, routed, mail, stored, bindVars, faultVars>>

(* AppendDirectMessage: the same record again is a success without a write. *)
AppendDirectMessage(h) ==
    /\ h.step = "begun"
    /\ mail' = mail \cup {Packet(h.msg, h.core)}
    /\ stored' = stored \cup {Packet(h.msg, h.core)}
    /\ handlers' = (handlers \ {h}) \cup {Handler(h, "stored")}
    /\ UNCHANGED <<sendVars, netVars, window, bindVars, faultVars>>

(* The rate limiter or the mailbox refuses.                                 *)
AppendFails(h) ==
    /\ h.step = "begun"
    /\ handlers' = (handlers \ {h}) \cup {Handler(h, "failed")}
    /\ UNCHANGED <<sendVars, netVars, window, mail, stored, bindVars, faultVars>>

(* Seeded fault: the reservation is dropped whether or not it committed.    *)
ReplayFinishForgets(h) ==
    /\ h.step \in {"stored", "failed"}
    /\ window' = [window EXCEPT ![h.core][h.msg] = "none"]
    /\ acks' = acks \cup {Ack(h, IF h.step = "stored" THEN "OK" ELSE "RETRYABLE")}
    /\ handlers' = handlers \ {h}
    /\ UNCHANGED <<sendVars, routed, mail, stored, bindVars, faultVars>>

(* finish: the window keeps what was committed and forgets the rest; then   *)
(* the acknowledgement is sent.                                             *)
ReplayFinish(h) ==
    /\ h.step \in {"stored", "failed"}
    /\ window' = [window EXCEPT ![h.core][h.msg] = IF h.step = "stored" THEN "done" ELSE "none"]
    /\ acks' = acks \cup {Ack(h, IF h.step = "stored" THEN "OK" ELSE "RETRYABLE")}
    /\ handlers' = handlers \ {h}
    /\ UNCHANGED <<sendVars, routed, mail, stored, bindVars, faultVars>>

(* A committed entry leaves the window: its lease ends or the window is full. *)
ForgetReplay(c, m) ==
    /\ forgets < plan.forgets
    /\ window[c][m] = "done"
    /\ window' = [window EXCEPT ![c][m] = "none"]
    /\ forgets' = forgets + 1
    /\ UNCHANGED <<sendVars, netVars, handlers, mail, stored, bindVars, crashes, deletes, prunes, plan>>

(* The owner deletes a mailbox entry, or its lease ends; nothing is left.   *)
DeleteMail(p) ==
    /\ deletes < plan.deletes
    /\ mail' = mail \ {p}
    /\ deletes' = deletes + 1
    /\ UNCHANGED <<sendVars, netVars, window, handlers, stored, bindVars, crashes, forgets, prunes, plan>>

-----------------------------------------------------------------------------
(* Bindings, storage and crashes.                                           *)

Rebind(c) ==
    /\ moves < plan.moves
    /\ home # c
    /\ home' = c
    /\ moves' = moves + 1
    /\ UNCHANGED <<sendVars, netVars, recvVars, view, from, fromView, leaves, faultVars>>

RebindSender(c) ==
    /\ leaves < plan.leaves
    /\ from # c
    /\ from' = c
    /\ leaves' = leaves + 1
    /\ UNCHANGED <<sendVars, netVars, recvVars, home, view, fromView, moves, faultVars>>

SyncBinding(c) ==
    /\ view[c] # home
    /\ view' = [view EXCEPT ![c] = home]
    /\ UNCHANGED <<sendVars, netVars, recvVars, home, from, fromView, moves, leaves, faultVars>>

SyncSenderBinding(c) ==
    /\ fromView[c] # from
    /\ fromView' = [fromView EXCEPT ![c] = from]
    /\ UNCHANGED <<sendVars, netVars, recvVars, home, view, from, moves, leaves, faultVars>>

Flush ==
    /\ crashes < plan.crashes
    /\ flushed # <<next, accepted>>
    /\ flushed' = <<next, accepted>>
    /\ UNCHANGED <<signed, next, accepted, scan, netVars, recvVars, bindVars, faultVars>>

Crash(c) ==
    /\ crashes < plan.crashes
    /\ crashes' = crashes + 1
    /\ window' = [window EXCEPT ![c] = [m \in Messages |-> "none"]]
    /\ handlers' = {h \in handlers : h.core # c}
    /\ IF c = SenderCore
       THEN next' = flushed[1] /\ accepted' = flushed[2] /\ scan' = {}
       ELSE UNCHANGED <<next, accepted, scan>>
    /\ UNCHANGED <<signed, flushed, netVars, mail, stored, bindVars, forgets, deletes, prunes, plan>>

-----------------------------------------------------------------------------

Next ==
    \/ \E m \in Messages : GetNextSenderMsgID(m) \/ SendDirectMessage(m) \/ PruneExpiredDirect(m)
    \/ StartRetry
    \/ \E x \in scan : RetryPending(x)
    \/ \E k \in acks : MarkAck(k)
    \/ \E p \in routed : RecipientMoved(p) \/ ReplayBegin(p)
    \/ \E h \in handlers : AppendDirectMessage(h) \/ AppendFails(h) \/ ReplayFinish(h)
    \/ \E c \in Cores, m \in Messages : ForgetReplay(c, m)
    \/ \E p \in mail : DeleteMail(p)
    \/ \E c \in Cores : Rebind(c) \/ RebindSender(c) \/ SyncBinding(c) \/ SyncSenderBinding(c) \/ Crash(c)
    \/ Flush

Spec == Init /\ [][Next]_vars

(* The retry loop runs for ever, bindings replicate, an envelope that is    *)
(* routed again and again is handled, a mailbox that is tried again and     *)
(* again has room, and an OK that is sent again and again arrives.          *)
Fairness ==
    /\ WF_vars(StartRetry)
    /\ WF_vars(\E x \in scan : RetryPending(x))
    /\ \A c \in Cores : WF_vars(SyncBinding(c)) /\ WF_vars(SyncSenderBinding(c))
    /\ \A m \in Messages, c \in Cores :
         /\ SF_vars(Packet(m, c) \in routed /\ ReplayBegin(Packet(m, c)))
         /\ SF_vars(\E h \in handlers : h.msg = m /\ h.core = c /\ AppendDirectMessage(h))
         /\ WF_vars(\E h \in handlers : h.msg = m /\ h.core = c /\ ReplayFinish(h))
         /\ SF_vars(\E k \in acks : k.msg = m /\ k.core = c /\ k.status = "OK" /\ MarkAck(k))

FairSpec == Spec /\ Fairness

-----------------------------------------------------------------------------
(* Properties.                                                              *)

(* An OK acknowledgement of handleIncomingDirect means that the message was *)
(* committed to the mailbox of the core that sent it, also when two         *)
(* handlers of one message race.                                            *)
AckMeansStored ==
    \A k \in acks : k.status = "OK" => Packet(k.msg, k.core) \in stored

(* A record that MarkAck made final was committed to the mailbox at the     *)
(* core the record names, although acknowledgements of former cores of the  *)
(* recipient still arrive and Accept may retarget the record.               *)
FinalAtTarget ==
    \A m \in Messages : accepted[m] # NoRecord =>
        (accepted[m].final => Packet(m, accepted[m].target) \in stored)

(* The records and next_sender_msg_id agree: Accept numbers the messages    *)
(* 0, 1, ..., next - 1 without gap or repetition, also as read back after   *)
(* a crash, as long as no record has expired.                               *)
Contiguous ==
    LET kept == {m \in Messages : accepted[m] # NoRecord}
    IN  prunes = 0 => {accepted[m].seq : m \in kept} = 0 .. next - 1 /\ Cardinality(kept) = next

(* A SenderMsgID of the account at this core stands for one message: two    *)
(* different messages that were routed never carry the same one, whatever   *)
(* two devices of the account signed, while the core stays up.              *)
OneMessagePerSeq ==
    crashes = 0 => \A p, q \in routed : signed[p.msg] = signed[q.msg] => p.msg = q.msg

(* A mailbox entry that its owner deleted does not come back: while the     *)
(* replay window remembers a message, no retry or duplicate envelope is     *)
(* appended a second time at the same core.                                 *)
StoredOnce == [][crashes = 0 /\ forgets = 0 => \A p \in mail' \ mail : p \notin stored]_vars

(* Every message the sender core accepted is committed to a mailbox of the  *)
(* recipient, although the recipient moves and deliveries fail; until then  *)
(* the retry loop keeps following the binding.  While the sender is bound   *)
(* elsewhere validateAccountSource refuses them; when it comes back for     *)
(* good they are delivered, unless they already were.                       *)
Delivered ==
    \A m \in Messages :
        accepted[m] # NoRecord ~> (from # SenderCore \/ \E c \in Cores : Packet(m, c) \in stored)

(* Every accepted message's record becomes final once the sender is back    *)
(* for good: an OK of the core it targets arrives although the target       *)
(* changes under way.                                                       *)
Resolved ==
    \A m \in Messages :
        accepted[m] # NoRecord ~> (from # SenderCore \/ (accepted[m] # NoRecord => accepted[m].final))
=============================================================================
