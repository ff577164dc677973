----------------------------- MODULE TopicService -----------------------------
(***************************************************************************)
(* The Topic Service CoreNode and the cores it delivers to: membership      *)
(* commits that stage KeyPackage deliveries before they persist, published  *)
(* messages that are fanned out, the pending-delivery store, the retry loop *)
(* that re-resolves account bindings, mailboxes, acknowledgements, failed   *)
(* catalog writes and crashes.                                              *)
(*                                                                         *)
(* Locks.  Every membership operation runs under TopicManager.mu; a commit  *)
(* holds it from its checks to the catalog write (stage # {}), while        *)
(* the delivery store, which has a lock of its own, stays open to the retry *)
(* loop's snapshot and to acknowledgements.                                 *)
(*                                                                         *)
(* Storage.  The catalog and the mailboxes are DKVS batches, durable when   *)
(* written.  The delivery store is a bucket of the node's ffldb database,   *)
(* whose committed transactions stay in a memory cache until a periodic     *)
(* flush: pending is what the node sees, disk what a crash leaves of it.    *)
(*                                                                         *)
(* Network.  A routed envelope stays in routed for ever and may be handled  *)
(* any number of times, in any order or never: that is duplication,         *)
(* reordering, delay and loss.  Acknowledgements travel the same way; the   *)
(* RETRYABLE ones change nothing at the service and are left out.           *)
(***************************************************************************)
EXTENDS TopicRules

CONSTANTS
    Cores,            \* CoreNodes
    Host,             \* the Topic's ServiceCoreNode
    Messages,         \* MessageIDs of published messages
    NoMessage,        \* a MessageID not published yet
    MaxKeySeq,        \* bound: key sequences of any plan
    Plans             \* bounds explored together: key sequences, account moves,
                      \* failed catalog writes and crashes of the host

ASSUME ServiceAssumption ==
    /\ Host \in Cores
    /\ MaxKeySeq \in Nat
    /\ Plans \subseteq [keySeq: 0 .. MaxKeySeq, rebinds: Nat, persistFails: Nat, crashes: Nat]

VARIABLES
    topic,      \* the topic: the catalog record and its in-memory copy
    issued,     \* history: recipients of each key sequence's packages
    stage,      \* the commit that holds TopicManager.mu and its deliveries, if any
    pending,    \* delivery store as the node sees it: DeliveryID -> TargetCore
    disk,       \* delivery store as last flushed
    scan,       \* deliveries the current retry pass has still to handle
    routed,     \* delivery envelopes handed to the network
    acks,       \* OK acknowledgements handed to the network
    mail,       \* mailbox records
    pubs,       \* signed publish messages, by MessageID
    handling,   \* publishes between the membership read and SavePending
    acked,      \* history: recipients each OK-acknowledged publish was accepted for
    home,       \* account -> CoreNode binding
    view,       \* each core's replica of the bindings
    rebinds, persistFails, crashes,
    plan        \* the bounds of this behaviour

topicVars == <<topic, issued>>
storeVars == <<pending, disk, scan>>
netVars   == <<routed, acks, mail>>
pubVars   == <<pubs, handling, acked>>
bindVars  == <<home, view, rebinds>>
faultVars == <<persistFails, crashes, plan>>
vars == <<topic, issued, stage, pending, disk, scan, routed, acks, mail, pubs, handling, acked,
          home, view, rebinds, persistFails, crashes, plan>>

-----------------------------------------------------------------------------
(* Deliveries.  A DeliveryID is the hash of the unsigned payload, so the    *)
(* payload stands for it: what is sent (kind, key sequence, key or message) *)
(* and the recipient list, given by its members and by who comes before     *)
(* whom.  The target core is not part of it; the stored envelope, which is  *)
(* signed for its target, is fixed by both.                                 *)

Payload(kind, seq, tag, rcpts, order) ==
    [kind |-> kind, seq |-> seq, tag |-> tag, rcpts |-> rcpts, order |-> order]

(* The orders a list of S can come in.                                      *)
Orders(S) ==
    {r \in SUBSET (S \X S) :
        /\ \A a, b \in S : <<a, b>> \in r <=> (a # b /\ <<b, a>> \notin r)
        /\ \A a, b, c \in S : (<<a, b>> \in r /\ <<b, c>> \in r) => <<a, c>> \in r}

EmptyStore == [id \in {} |-> Host]

Deliveries(store) == {[id |-> id, core |-> store[id]] : id \in DOMAIN store}

AsStore(dlvs) == [id \in {d.id : d \in dlvs} |-> (CHOOSE d \in dlvs : d.id = id).core]

(* The recipients in S, in the order of the whole list.                     *)
Batch(id, S) == Payload(id.kind, id.seq, id.tag, id.rcpts \cap S, {p \in id.order : p[1] \in S /\ p[2] \in S})

(* Group the recipients of a payload by the core each is bound to, one      *)
(* batch per core.                                                          *)
Resolve(id, bind) ==
    {[id |-> Batch(id, {a \in id.rcpts : bind[a] = c}), core |-> c] : c \in {bind[a] : a \in id.rcpts}}

(* SavePending: all or nothing; the same delivery again is no change, a     *)
(* different envelope under a known DeliveryID is an error.                 *)
MaySavePending(store, dlvs) ==
    \A d \in dlvs : d.id \in DOMAIN store => store[d.id] = d.core

SavePending(store, dlvs) ==
    [id \in DOMAIN store \cup {d.id : d \in dlvs} |->
        IF id \in DOMAIN store THEN store[id] ELSE AsStore(dlvs)[id]]

Acknowledge(store, d) ==
    IF d.id \in DOMAIN store /\ store[d.id] = d.core
    THEN [id \in DOMAIN store \ {d.id} |-> store[id]]
    ELSE store

(* ReplacePending: refused unless the old job is still there for the same   *)
(* core and no other job conflicts with a replacement.                      *)
MayReplacePending(store, d, dlvs) ==
    /\ d.id \in DOMAIN store
    /\ store[d.id] = d.core
    /\ \A r \in dlvs : (r.id # d.id /\ r.id \in DOMAIN store) => store[r.id] = r.core

(* Seeded fault: recipients that moved to another core are dropped.         *)
ReplacePendingSameCore(store, d, dlvs) ==
    [id \in (DOMAIN store \ {d.id}) \cup {r.id : r \in {e \in dlvs : e.core = d.core}} |->
        IF \E r \in dlvs : r.id = id THEN AsStore(dlvs)[id] ELSE store[id]]

ReplacePending(store, d, dlvs) ==
    [id \in (DOMAIN store \ {d.id}) \cup {r.id : r \in dlvs} |->
        IF \E r \in dlvs : r.id = id THEN AsStore(dlvs)[id] ELSE store[id]]

-----------------------------------------------------------------------------
(* Membership operations, each under TopicManager.mu.                       *)

Unlocked == stage = {}

CreateTopic ==
    /\ Unlocked
    /\ ~Exists(topic)
    /\ topic' = CreatedTopic
    /\ issued' = <<{Owner}>>
    /\ UNCHANGED <<stage, storeVars, netVars, pubVars, bindVars, faultVars>>

(* Seeded fault: a join request does not take TopicManager.mu.              *)
RequestJoinNoLock(a) ==
    /\ MayRequestJoin(topic, a)
    /\ topic' = JoinRequested(topic, a)
    /\ UNCHANGED <<issued, stage, storeVars, netVars, pubVars, bindVars, faultVars>>

RequestJoin(a) ==
    /\ Unlocked
    /\ MayRequestJoin(topic, a)
    /\ topic' = JoinRequested(topic, a)
    /\ UNCHANGED <<issued, stage, storeVars, netVars, pubVars, bindVars, faultVars>>

RejectJoin(a) ==
    /\ Unlocked
    /\ MayRejectJoin(topic, a)
    /\ topic' = JoinRejected(topic, a)
    /\ UNCHANGED <<issued, stage, storeVars, netVars, pubVars, bindVars, faultVars>>

RequestLeave(a) ==
    /\ Unlocked
    /\ MayRequestLeave(topic, a)
    /\ topic' = LeaveRequested(topic, a)
    /\ UNCHANGED <<issued, stage, storeVars, netVars, pubVars, bindVars, faultVars>>

(* A client's commit on key sequence b, with the packages the change calls  *)
(* for.                                                                     *)
Offered(ch, i, g, b, k) ==
    LET c == [change |-> ch, issuer |-> i, target |-> g, base |-> b, new |-> b + 1, key |-> k, rcpts |-> {}]
    IN  [c EXCEPT !.rcpts = topicKeyHolderAccounts(Candidate(topic, c))]

(* They build on the current key sequence or on the one before it (a second *)
(* device, a late retry).                                                   *)
OfferedCommits ==
    {Offered(ch, i, g, b, k) :
        ch \in Changes, i \in Accounts, g \in Accounts \cup {NoAccount},
        b \in {n \in 0 .. topic.keySeq : n + 1 >= topic.keySeq}, k \in Keys}

(* Seeded fault: the packages go to the key holders before the change.      *)
KeyPayloadOldHolders(c) ==
    Payload("KEY", c.new, c.key, topicKeyHolderAccounts(topic), CHOOSE o \in Orders(topicKeyHolderAccounts(topic)) : TRUE)

KeyPayload(c) == Payload("KEY", c.new, c.key, c.rcpts, CHOOSE o \in Orders(c.rcpts) : TRUE)

(* CommitMembershipChange up to SavePending: the checks, the candidate and  *)
(* the KeyPackage deliveries, staged before the topic is written.           *)
StageCommit(c) ==
    /\ Unlocked
    /\ c.new <= plan.keySeq
    /\ CommitAllowed(topic, c)
    /\ LET dlvs == Resolve(KeyPayload(c), view[Host]) IN
         /\ MaySavePending(pending, dlvs)
         /\ pending' = SavePending(pending, dlvs)
         /\ stage' = {[commit |-> c, candidate |-> Candidate(topic, c), dlvs |-> dlvs]}
    /\ UNCHANGED <<topicVars, disk, scan, netVars, pubVars, bindVars, faultVars>>

(* The catalog write succeeds, the candidate is installed, the lock is      *)
(* released and the staged packages are routed.                             *)
PersistCommit ==
    /\ \E st \in stage :
         /\ topic' = st.candidate
         /\ issued' = Append(issued, st.commit.rcpts)
         /\ routed' = routed \cup st.dlvs
    /\ stage' = {}
    /\ UNCHANGED <<storeVars, acks, mail, pubVars, bindVars, faultVars>>

(* The catalog write fails: rollbackPreparedTopicDeliveries acknowledges    *)
(* every staged delivery away.                                              *)
PersistFails ==
    /\ persistFails < plan.persistFails
    /\ persistFails' = persistFails + 1
    /\ \E st \in stage :
         LET mine == {d.id : d \in {e \in st.dlvs : e.id \in DOMAIN pending /\ pending[e.id] = e.core}}
         IN  pending' = [id \in DOMAIN pending \ mine |-> pending[id]]
    /\ stage' = {}
    /\ UNCHANGED <<topicVars, disk, scan, netVars, pubVars, bindVars, crashes, plan>>

-----------------------------------------------------------------------------
(* Publishing.                                                              *)

(* A member signs a message under the key sequence it knows.                *)
SendTopicMessage(m, a) ==
    /\ pubs[m] = NoMessage
    /\ Exists(topic)
    /\ topicMemberHoldsCurrentKey(topic.members[a])
    /\ pubs' = [pubs EXCEPT ![m] = [sender |-> a, seq |-> topic.keySeq]]
    /\ UNCHANGED <<topicVars, stage, storeVars, netVars, handling, acked, bindVars, faultVars>>

(* Seeded fault: the publish's key sequence is not compared.                *)
MayPublishAnyKey(m) == topicMemberCanPublish(topic.members[pubs[m].sender])

MayPublish(m) ==
    /\ topicMemberCanPublish(topic.members[pubs[m].sender])
    /\ topic.keySeq = pubs[m].seq

(* handlePublish, first part: under the read lock it checks the sender and  *)
(* the key sequence and reads the recipients.  A publish can arrive again   *)
(* at any time; one that fails the checks is rejected without a change.     *)
ReadRecipients(m) ==
    /\ Unlocked
    /\ pubs[m] # NoMessage
    /\ MayPublish(m)
    /\ handling' = handling \cup
         {[msg |-> m, seq |-> pubs[m].seq,
           rcpts |-> {a \in Accounts \ {pubs[m].sender} : topic.members[a].status = "ACTIVE"}]}
    /\ UNCHANGED <<topicVars, stage, storeVars, netVars, pubs, acked, bindVars, faultVars>>

(* Second part, without the lock: group by core, store, acknowledge, route. *)
(* The recipients come out of a map, in any order.                          *)
SavePublish(h) ==
    /\ handling' = handling \ {h}
    /\ \E o \in Orders(h.rcpts) :
         LET dlvs == Resolve(Payload("MSG", h.seq, h.msg, h.rcpts, o), view[Host]) IN
         /\ MaySavePending(pending, dlvs)
         /\ pending' = SavePending(pending, dlvs)
         /\ routed' = routed \cup dlvs
    /\ acked' = [acked EXCEPT ![h.msg] = @ \cup h.rcpts]
    /\ UNCHANGED <<topicVars, stage, disk, scan, acks, mail, pubs, bindVars, faultVars>>

(* The store refuses the batch: the sender is told to retry.                *)
SavePublishFails(h) ==
    /\ \E o \in Orders(h.rcpts) :
         ~MaySavePending(pending, Resolve(Payload("MSG", h.seq, h.msg, h.rcpts, o), view[Host]))
    /\ handling' = handling \ {h}
    /\ UNCHANGED <<topicVars, stage, storeVars, netVars, pubs, acked, bindVars, faultVars>>

-----------------------------------------------------------------------------
(* The retry loop: RetryPendingResolved takes a snapshot of the store and   *)
(* then handles one delivery at a time.                                     *)

StartRetry ==
    /\ scan = {}
    /\ scan' = Deliveries(pending)
    /\ UNCHANGED <<topicVars, stage, pending, disk, netVars, pubVars, bindVars, faultVars>>

(* Seeded fault: a prepared commit's packages are retried like any other.   *)
HeldNever(d) == FALSE

(* Prepared membership commit: keep durable but do not expose a future key. *)
Held(d) == d.id.kind = "KEY" /\ d.id.seq > topic.keySeq

(* Seeded fault: a retry goes to the core the account was bound to first.   *)
RefreshPendingOldCore(d) ==
    /\ d.id.kind = "KEY" => Unlocked
    /\ scan' = scan \ {d}
    /\ routed' = IF Held(d) THEN routed ELSE routed \cup {d}
    /\ UNCHANGED <<topicVars, stage, pending, disk, acks, mail, pubVars, bindVars, faultVars>>

(* refreshPendingDelivery and the routing of what it returns.               *)
RefreshPending(d) ==
    /\ d.id.kind = "KEY" => Unlocked
    /\ scan' = scan \ {d}
    /\ LET dlvs == Resolve(d.id, view[Host]) IN
         \/ /\ ~Held(d)
            /\ dlvs = {d}
            /\ routed' = routed \cup {d}
            /\ UNCHANGED pending
         \/ /\ ~Held(d)
            /\ dlvs # {d}
            /\ MayReplacePending(pending, d, dlvs)
            /\ pending' = ReplacePending(pending, d, dlvs)
            /\ routed' = routed \cup dlvs
         \/ /\ Held(d) \/ (dlvs # {d} /\ ~MayReplacePending(pending, d, dlvs))
            /\ UNCHANGED <<pending, routed>>
    /\ UNCHANGED <<topicVars, stage, disk, acks, mail, pubVars, bindVars, faultVars>>

-----------------------------------------------------------------------------
(* Delivery: handleTopicFanout and handleTopicKeyFanout at the target core. *)

MailRecord(a, d) == [acct |-> a, core |-> d.core, kind |-> d.id.kind, seq |-> d.id.seq, tag |-> d.id.tag]

(* A mailbox key holds one immutable value: a key package is filed by its   *)
(* key sequence, a message by its MessageID.                                *)
Conflicts(r) == r.kind = "KEY" /\ \E x \in mail : [x EXCEPT !.tag = r.tag] = r /\ x.tag # r.tag

Writable(d) == {a \in d.id.rcpts : view[d.core][a] = d.core /\ ~Conflicts(MailRecord(a, d))}

(* Seeded fault: a batch with one delivered recipient is acknowledged.      *)
HandleFanoutPartialOK(d, room) ==
    LET stored == {a \in Writable(d) : a \in room \/ MailRecord(a, d) \in mail} IN
    /\ d \notin acks
    /\ mail' = mail \cup {MailRecord(a, d) : a \in stored}
    /\ acks' = IF stored # {} THEN acks \cup {d} ELSE acks
    /\ UNCHANGED <<topicVars, stage, storeVars, routed, pubVars, bindVars, faultVars>>

(* The recipients in room find space in their mailbox; what is already      *)
(* there needs none.  Only a complete batch is acknowledged with OK; once   *)
(* it is, handling the envelope again adds nothing.                         *)
HandleFanout(d, room) ==
    LET stored == {a \in Writable(d) : a \in room \/ MailRecord(a, d) \in mail} IN
    /\ d \notin acks
    /\ mail' = mail \cup {MailRecord(a, d) : a \in stored}
    /\ acks' = IF stored = d.id.rcpts THEN acks \cup {d} ELSE acks
    /\ UNCHANGED <<topicVars, stage, storeVars, routed, pubVars, bindVars, faultVars>>

handleDeliveryAck(d) ==
    /\ d \in Deliveries(pending)
    /\ pending' = Acknowledge(pending, d)
    /\ UNCHANGED <<topicVars, stage, disk, scan, netVars, pubVars, bindVars, faultVars>>

-----------------------------------------------------------------------------
(* Bindings, and the host's storage and crashes.                            *)

Rebind(a, c) ==
    /\ rebinds < plan.rebinds
    /\ home[a] # c
    /\ home' = [home EXCEPT ![a] = c]
    /\ rebinds' = rebinds + 1
    /\ UNCHANGED <<topicVars, stage, storeVars, netVars, pubVars, view, faultVars>>

SyncBinding(c, a) ==
    /\ view[c][a] # home[a]
    /\ view' = [view EXCEPT ![c][a] = home[a]]
    /\ UNCHANGED <<topicVars, stage, storeVars, netVars, pubVars, home, rebinds, faultVars>>

(* ffldb writes its cache to disk (followed only while a crash can come).   *)
Flush ==
    /\ crashes < plan.crashes
    /\ disk # pending
    /\ disk' = pending
    /\ UNCHANGED <<topicVars, stage, pending, scan, netVars, pubVars, bindVars, faultVars>>

Crash ==
    /\ crashes < plan.crashes
    /\ crashes' = crashes + 1
    /\ pending' = disk
    /\ stage' = {}
    /\ scan' = {}
    /\ handling' = {}
    /\ UNCHANGED <<topicVars, disk, netVars, pubs, acked, bindVars, persistFails, plan>>

-----------------------------------------------------------------------------

Init ==
    /\ topic = EmptyTopic
    /\ issued = <<>>
    /\ stage = {}
    /\ pending = EmptyStore
    /\ disk = EmptyStore
    /\ scan = {}
    /\ routed = {}
    /\ acks = {}
    /\ mail = {}
    /\ pubs = [m \in Messages |-> NoMessage]
    /\ handling = {}
    /\ acked = [m \in Messages |-> {}]
    /\ home = [a \in Accounts |-> Host]
    /\ view = [c \in Cores |-> home]
    /\ rebinds = 0
    /\ persistFails = 0
    /\ crashes = 0
    /\ plan \in Plans

Next ==
    \/ CreateTopic
    \/ \E a \in Accounts : RequestJoin(a) \/ RejectJoin(a) \/ RequestLeave(a)
    \/ \E c \in OfferedCommits : StageCommit(c)
    \/ PersistCommit
    \/ PersistFails
    \/ \E m \in Messages : ReadRecipients(m) \/ \E a \in Accounts : SendTopicMessage(m, a)
    \/ \E h \in handling : SavePublish(h) \/ SavePublishFails(h)
    \/ StartRetry
    \/ \E d \in scan : RefreshPending(d)
    \/ \E d \in routed : \E room \in SUBSET Writable(d) : HandleFanout(d, room)
    \/ \E d \in acks : handleDeliveryAck(d)
    \/ \E a \in Accounts, c \in Cores : Rebind(a, c) \/ SyncBinding(c, a)
    \/ Flush
    \/ Crash

Spec == Init /\ [][Next]_vars

(* The host's loops run and its catalog writes succeed, envelopes and       *)
(* acknowledgements get through if sent again and again, bindings replicate *)
(* and mailboxes find room: what the retry loop of message_retry.go counts  *)
(* on.  Membership operations, publishes and moves are never forced.        *)
Fairness ==
    /\ WF_vars(PersistCommit)
    /\ WF_vars(StartRetry)
    /\ WF_vars(\E d \in scan : RefreshPending(d))
    /\ WF_vars(\E d \in routed : HandleFanout(d, Writable(d)))
    /\ WF_vars(\E d \in acks : handleDeliveryAck(d))
    /\ WF_vars(\E a \in Accounts, c \in Cores : SyncBinding(c, a))

FairSpec == Spec /\ Fairness

-----------------------------------------------------------------------------
(* Properties.                                                              *)

(* A key package never reaches the network before the membership change it *)
(* belongs to is in the catalog: the retry loop, which runs while a commit *)
(* is staged and after a crash in the middle of one, holds it back.        *)
NoFutureKey == \A d \in routed : d.id.kind = "KEY" => d.id.seq <= topic.keySeq

(* The design's rule 20: no key sequence ever has two topic keys.          *)
SeqHasOneKey ==
    \A d, e \in routed :
        (d.id.kind = "KEY" /\ e.id.kind = "KEY" /\ d.id.seq = e.id.seq) => d.id.tag = e.id.tag

Undisturbed == persistFails = 0 /\ crashes = 0

(* Rule 20 as far as the code keeps it: rival commits, exact replays, the  *)
(* retry loop and moves never put two topic keys of one key sequence on    *)
(* the network while catalog writes succeed and the host stays up.         *)
OneKeyPerSeq == Undisturbed => SeqHasOneKey

HasMail(a, kind, seq, tag) == \E r \in mail : r.acct = a /\ r.kind = kind /\ r.seq = seq /\ r.tag = tag

Waiting(a, kind, tag) ==
    \E id \in DOMAIN pending : id.kind = kind /\ id.tag = tag /\ a \in id.rcpts

(* Once a membership change is committed, every account it issued the key  *)
(* to has the package in a mailbox or is a recipient of a pending delivery *)
(* of it: regrouping after a move, acknowledgements and the rollback of a  *)
(* failed commit lose nobody while the host stays up.                      *)
KeysCovered ==
    crashes = 0 => \A s \in 2 .. topic.keySeq : \A a \in issued[s] :
        \/ \E r \in mail : r.acct = a /\ r.kind = "KEY" /\ r.seq = s
        \/ \E id \in DOMAIN pending : id.kind = "KEY" /\ id.seq = s /\ a \in id.rcpts

(* A publish acknowledged with OK is, for every recipient it was accepted  *)
(* for, delivered or still the job of a pending delivery, while the host   *)
(* stays up.                                                               *)
AckedCovered ==
    crashes = 0 =>
        \A m \in Messages : \A a \in acked[m] : HasMail(a, "MSG", pubs[m].seq, m) \/ Waiting(a, "MSG", m)

(* A message reaches only accounts that the commit of its key sequence      *)
(* issued the key to: handlePublish reads the members under the lock and    *)
(* fans out after it, and the retry loop delivers later still.              *)
MessagesToHolders == \A r \in mail : r.kind = "MSG" => r.acct \in issued[r.seq]

(* A key package reaches only accounts in the holder set of the commit that *)
(* issued it, however late the retry loop delivers it (while no failed      *)
(* commit leaves a package behind).                                         *)
KeysToHolders == Undisturbed => \A r \in mail : r.kind = "KEY" => r.acct \in issued[r.seq]

Abstract == INSTANCE TopicMembership

(* Membership seen from outside is that of TopicMembership: the staged      *)
(* commit of CommitMembershipChange, its failure, the retry loop and        *)
(* crashes are invisible there.  This is Abstract!Spec, with the stuttering *)
(* steps told apart first.                                                  *)
AbstractStep == <<topic, issued>>' # <<topic, issued>> /\ Abstract!Next

Implements == Abstract!Init /\ [][AbstractStep]_<<topic, issued>>

(* Whoever a commit issued a key to gets it from the retry loop, however    *)
(* bindings move.                                                           *)
KeysArrive ==
    \A a \in Accounts, s \in 2 .. MaxKeySeq :
        (Len(issued) >= s /\ a \in issued[s]) ~> (\E r \in mail : r.acct = a /\ r.kind = "KEY" /\ r.seq = s)

(* Whoever handlePublish acknowledged a message for gets it from the retry  *)
(* loop.                                                                    *)
MessagesArrive ==
    \A m \in Messages, a \in Accounts : (a \in acked[m]) ~> (\E r \in mail : r.acct = a /\ r.tag = m)
=============================================================================
