-------------------------- MODULE TopicServiceProofs --------------------------
(***************************************************************************)
(* Membership commits, publishes and the delivery store of the Topic       *)
(* Service CoreNode, for any accounts, cores, keys and messages and any    *)
(* number of moves, failed catalog writes and crashes: the membership seen *)
(* from outside is TopicMembership's, no key package leaves early, one key *)
(* per sequence, nothing reaches an account without the key, and nobody    *)
(* that was promised a key or a message is forgotten.                      *)
(***************************************************************************)
EXTENDS TopicService, TLAPS

(* CreateTopic leaves a topic with the owner as its one key holder.         *)
LEMMA CreatedFacts ==
    ASSUME NEW u, u = CreatedTopic
    PROVE  u \in Topic /\ u.keySeq = 1 /\ topicKeyHolderAccounts(u) = {Owner}
<1> USE TopicAssumption
<1>1. u = [members |-> [a \in Accounts |-> IF a = Owner
                     THEN [status |-> "ACTIVE", role |-> "OWNER", joined |-> 1, left |-> 0]
                     ELSE NoMember],
            count |-> 1, keySeq |-> 1, last |-> NoCommit]
  BY Zenon  DEF CreatedTopic, EmptyTopic
<1>2. u \in Topic
  BY <1>1 DEF Topic, TopicMember, Statuses, NoMember
<1>3. topicKeyHolderAccounts(u) = {Owner}
  BY <1>1 DEF topicKeyHolderAccounts, topicMemberHoldsCurrentKey, NoMember
<1> QED
  BY <1>1, <1>2, <1>3

(* RequestJoin, RejectJoin and RequestLeave change neither the key sequence *)
(* nor who holds the key.                                                   *)
LEMMA RequestFacts ==
    ASSUME NEW t \in Topic, NEW a \in Accounts, NEW u,
           \/ MayRequestJoin(t, a) /\ u = JoinRequested(t, a)
           \/ MayRejectJoin(t, a) /\ u = JoinRejected(t, a)
           \/ MayRequestLeave(t, a) /\ u = LeaveRequested(t, a)
    PROVE  /\ u \in Topic
           /\ u.keySeq = t.keySeq
           /\ topicKeyHolderAccounts(u) = topicKeyHolderAccounts(t)
<1>1. t.members \in [Accounts -> TopicMember] /\ t.members[a] \in TopicMember
  BY Zenon DEF Topic
<1>2. PICK r \in TopicMember : /\ u = [t EXCEPT !.members[a] = r]
                               /\ topicMemberHoldsCurrentKey(r) <=> topicMemberHoldsCurrentKey(t.members[a])
  <2>1. CASE MayRequestJoin(t, a) /\ u = JoinRequested(t, a)
    <3> DEFINE m == [status |-> "PENDING_JOIN", role |-> "MEMBER", joined |-> 0, left |-> 0]
    <3>1. m \in TopicMember /\ u = [t EXCEPT !.members[a] = m]
      BY Zenon, <2>1 DEF TopicMember, Statuses, JoinRequested
    <3>2. ~topicMemberHoldsCurrentKey(m) /\ ~topicMemberHoldsCurrentKey(t.members[a])
      BY Zenon, <2>1 DEF topicMemberHoldsCurrentKey, MayRequestJoin
    <3> QED
      BY Zenon, <3>1, <3>2
  <2>2. CASE MayRejectJoin(t, a) /\ u = JoinRejected(t, a)
    <3>1. u = [t EXCEPT !.members[a] = [t.members[a] EXCEPT !.status = "LEFT"]]
      BY Zenon, <1>1, <2>2 DEF JoinRejected, Topic
    <3>2. [t.members[a] EXCEPT !.status = "LEFT"] \in TopicMember
      BY Zenon, <1>1 DEF TopicMember, Statuses
    <3>3. [t.members[a] EXCEPT !.status = "LEFT"].status = "LEFT"
      BY Zenon, <1>1 DEF TopicMember
    <3> QED
      BY Zenon, <2>2, <3>1, <3>2, <3>3 DEF MayRejectJoin, topicMemberHoldsCurrentKey
  <2>3. CASE MayRequestLeave(t, a) /\ u = LeaveRequested(t, a)
    <3> DEFINE st == IF t.members[a].status = "PENDING_JOIN" THEN "LEFT" ELSE "PENDING_LEAVE"
    <3>1. u = [t EXCEPT !.members[a] = [t.members[a] EXCEPT !.status = st]]
      BY Zenon, <1>1, <2>3 DEF LeaveRequested, Topic
    <3>2. [t.members[a] EXCEPT !.status = st] \in TopicMember
      BY Zenon, <1>1 DEF TopicMember, Statuses
    <3>3. [t.members[a] EXCEPT !.status = st].status = st
      BY Zenon, <1>1 DEF TopicMember
    <3> DEFINE m == [t.members[a] EXCEPT !.status = st]
    <3>4. topicMemberHoldsCurrentKey(m) <=> topicMemberHoldsCurrentKey(t.members[a])
      BY <2>3, <3>3 DEF MayRequestLeave, topicMemberHoldsCurrentKey
    <3> HIDE DEF m
    <3>5. m \in TopicMember /\ u = [t EXCEPT !.members[a] = m]
      BY Zenon, <3>1, <3>2 DEF m
    <3> QED
      BY Zenon, <3>4, <3>5
  <2> QED
    BY Zenon, <2>1, <2>2, <2>3
<1>3. u \in Topic /\ u.keySeq = t.keySeq
  BY Zenon, <1>2 DEF Topic
<1>4. \A b \in Accounts : u.members[b] = IF b = a THEN r ELSE t.members[b]
  BY Zenon, <1>1, <1>2 DEF Topic
<1> QED
  BY ZenonT(30), <1>2, <1>3, <1>4 DEF topicKeyHolderAccounts

(* A permitted commit leaves a topic with the next key sequence.            *)
LEMMA CandidateInTopic ==
    ASSUME NEW t \in Topic, NEW c \in Commit, ChangeAllowed(t, c), c.new = t.keySeq + 1
    PROVE  /\ Candidate(t, c) \in Topic
           /\ Candidate(t, c).keySeq = t.keySeq + 1
<1> USE TopicAssumption
<1>1. c.change \in Changes /\ c.target \in Accounts \cup {NoAccount} /\ c.new \in Nat /\ t.keySeq \in Nat
  BY Zenon DEF Commit, Topic
<1>2. ASSUME NEW m \in TopicMember PROVE ChangedMember(m, c) \in TopicMember
  BY Zenon, <1>1, <1>2 DEF TopicMember, ChangedMember, Statuses, Changes
<1>3. \A a \in Accounts : t.members[a] \in TopicMember
  BY Zenon DEF Topic
<1>4. Candidate(t, c).members \in [Accounts -> TopicMember]
  BY Zenon, <1>2, <1>3 DEF Candidate
<1>5. Candidate(t, c).count \in Nat
  <2>1. t.count \in Nat
    BY Zenon DEF Topic
  <2>2. c.change \in {"REMOVE", "KICK", "BAN"} => t.count > 1
    BY Zenon DEF ChangeAllowed, AddAllowed
  <2> QED
    BY <1>1, <2>1, <2>2 DEF Candidate, ChangedCount, Changes
<1>6. Candidate(t, c) \in Topic
  BY Zenon, <1>1, <1>4, <1>5 DEF Candidate, Topic
<1> QED
  BY Zenon, <1>1, <1>6 DEF Candidate

-----------------------------------------------------------------------------
(* Every DeliveryID the host or the network holds.                         *)
Ids == DOMAIN pending \cup DOMAIN disk \cup {d.id : d \in scan} \cup {d.id : d \in routed}
         \cup UNION {{d.id : d \in st.dlvs} : st \in stage}

(* The last key sequence was issued to its holders.                        *)
TopicInv ==
    /\ topic \in Topic
    /\ issued \in Seq(SUBSET Accounts)
    /\ Len(issued) = topic.keySeq
    /\ topic.keySeq # 0 => issued[topic.keySeq] = topicKeyHolderAccounts(topic)

(* While a commit holds TopicManager.mu its checks stay true.              *)
StageInv ==
    /\ plan \in Plans
    /\ persistFails \in Nat /\ crashes \in Nat
    /\ \A st, su \in stage : st = su
    /\ \A st \in stage :
         /\ st.commit \in Commit
         /\ st.commit.new <= MaxKeySeq
         /\ CommitAllowed(topic, st.commit)
         /\ st.candidate = Candidate(topic, st.commit)
         /\ \A d \in st.dlvs : d.id.kind = "KEY" /\ d.id.seq = st.commit.new

GivenKey(a, s) == s \in 1 .. Len(issued) /\ a \in issued[s]

(* A publish, or a part of it, as handlePublish accepted it.               *)
Accepted(m, seq, rcpts) ==
    /\ m \in Messages
    /\ pubs[m] # NoMessage
    /\ seq = pubs[m].seq
    /\ \A a \in rcpts : GivenKey(a, seq)

PublishInv ==
    /\ pubs \in [Messages -> [sender: Accounts, seq: Nat] \cup {NoMessage}]
    /\ \A m \in Messages : pubs[m] # NoMessage => pubs[m].seq \in 1 .. Len(issued)
    /\ \A h \in handling : Accepted(h.msg, h.seq, h.rcpts)
    /\ \A i \in Ids : i.kind = "MSG" => Accepted(i.tag, i.seq, i.rcpts)
    /\ \A r \in mail : r.kind = "MSG" => GivenKey(r.acct, r.seq)

(* A key package of a committed change, and one of the staged commit.      *)
Released(i) == i.seq \in 1 .. Len(issued) /\ i.rcpts \subseteq issued[i.seq]

Prepared(i) ==
    \E st \in stage : i.seq = st.commit.new /\ i.tag = st.commit.key /\ i.rcpts \subseteq st.commit.rcpts

KeyInv ==
    /\ NoFutureKey
    /\ \A i \in Ids : i.kind = "KEY" => i.seq \in Nat
    /\ Undisturbed =>
         /\ \A i \in Ids : i.kind = "KEY" => Released(i) \/ Prepared(i)
         /\ \A i, j \in Ids : (i.kind = "KEY" /\ j.kind = "KEY" /\ i.seq = j.seq) => i.tag = j.tag
         /\ \A r \in mail : r.kind = "KEY" => GivenKey(r.acct, r.seq)

KeyHeld(a, s) ==
    \/ \E r \in mail : r.acct = a /\ r.kind = "KEY" /\ r.seq = s
    \/ \E id \in DOMAIN pending : id.kind = "KEY" /\ id.seq = s /\ a \in id.rcpts

(* An acknowledged delivery is in every mailbox; the staged commit covers  *)
(* its holders before it persists.                                         *)
CoverInv ==
    /\ \A d \in acks : \A a \in d.id.rcpts : HasMail(a, d.id.kind, d.id.seq, d.id.tag)
    /\ crashes = 0 => \A st \in stage : \A a \in st.commit.rcpts : KeyHeld(a, st.commit.new)
    /\ KeysCovered
    /\ acked \in [Messages -> SUBSET Accounts]
    /\ \A m \in Messages : acked[m] # {} => pubs[m] # NoMessage
    /\ AckedCovered

IInv == TopicInv /\ StageInv /\ PublishInv /\ KeyInv /\ CoverInv

-----------------------------------------------------------------------------
(* Payloads and the store.                                                 *)

(* The same item for some of the same accounts.                            *)
Part(i, j) == i.kind = j.kind /\ i.seq = j.seq /\ i.tag = j.tag /\ i.rcpts \subseteq j.rcpts

LEMMA PartReflexive == ASSUME NEW i PROVE Part(i, i)
BY Zenon DEF Part

(* Grouping by core makes parts of the payload, and leaves nobody out.     *)
LEMMA ResolveParts ==
    ASSUME NEW id, NEW bind, NEW d \in Resolve(id, bind)
    PROVE  Part(d.id, id)
BY DEF Resolve, Batch, Payload, Part

LEMMA ResolveCovers ==
    ASSUME NEW id, NEW bind, NEW a \in id.rcpts
    PROVE  \E d \in Resolve(id, bind) : a \in d.id.rcpts
<1> DEFINE d == [id |-> Batch(id, {b \in id.rcpts : bind[b] = bind[a]}), core |-> bind[a]]
<1>1. d \in Resolve(id, bind)
  BY Zenon  DEF Resolve
<1>2. a \in d.id.rcpts
  BY Zenon DEF Batch, Payload
<1> QED
  BY ZenonT(60), <1>1, <1>2

LEMMA StoreDomains ==
    ASSUME NEW store, NEW d, NEW dlvs
    PROVE  /\ DOMAIN SavePending(store, dlvs) = DOMAIN store \cup {e.id : e \in dlvs}
           /\ DOMAIN ReplacePending(store, d, dlvs) = (DOMAIN store \ {d.id}) \cup {e.id : e \in dlvs}
           /\ DOMAIN Acknowledge(store, d) \subseteq DOMAIN store
           /\ DOMAIN store \subseteq DOMAIN Acknowledge(store, d) \cup {d.id}
BY Zenon DEF SavePending, ReplacePending, Acknowledge

-----------------------------------------------------------------------------
(* The topic.                                                              *)

LEMMA OfferedFacts ==
    ASSUME TopicInv, NEW c \in OfferedCommits
    PROVE  c \in Commit /\ c.new = c.base + 1
<1>1. ASSUME NEW ch \in Changes, NEW i \in Accounts, NEW g \in Accounts \cup {NoAccount},
             NEW b \in 0 .. topic.keySeq, NEW k \in Keys
      PROVE  Offered(ch, i, g, b, k) \in Commit /\ Offered(ch, i, g, b, k).new = Offered(ch, i, g, b, k).base + 1
  <2> DEFINE d == [change |-> ch, issuer |-> i, target |-> g, base |-> b, new |-> b + 1, key |-> k, rcpts |-> {}]
             R == topicKeyHolderAccounts(Candidate(topic, d))
  <2>1. R \subseteq Accounts
    BY Zenon DEF topicKeyHolderAccounts
  <2>2. Offered(ch, i, g, b, k) = [d EXCEPT !.rcpts = R]
    BY ZenonT(60) DEF Offered
  <2> HIDE DEF R
  <2> QED
    BY SMTT(60), <1>1, <2>1, <2>2 DEF Commit
<1> QED
  BY <1>1 DEF OfferedCommits

LEMMA PersistFacts ==
    ASSUME TopicInv, StageInv, NEW st \in stage
    PROVE  /\ st.candidate \in Topic
           /\ st.candidate.keySeq = topic.keySeq + 1
           /\ st.commit.new = topic.keySeq + 1
           /\ st.commit.rcpts = topicKeyHolderAccounts(st.candidate)
           /\ st.commit.rcpts \subseteq Accounts
<1>1. st.commit \in Commit /\ CommitAllowed(topic, st.commit) /\ st.candidate = Candidate(topic, st.commit)
  BY Zenon DEF StageInv
<1>2. ChangeAllowed(topic, st.commit) /\ st.commit.new = topic.keySeq + 1 /\ topic \in Topic
  BY Zenon, <1>1 DEF CommitAllowed, TopicInv
<1> QED
  BY SMTT(60), <1>1, <1>2, CandidateInTopic DEF CommitAllowed, Commit

(* What a step may do to the topic: nothing, or one of these.              *)
TopicKept == UNCHANGED <<topic, issued>>

Requested ==
    /\ stage = {} /\ stage' = {}
    /\ issued' = issued
    /\ \E a \in Accounts :
         \/ MayRequestJoin(topic, a) /\ topic' = JoinRequested(topic, a)
         \/ MayRejectJoin(topic, a) /\ topic' = JoinRejected(topic, a)
         \/ MayRequestLeave(topic, a) /\ topic' = LeaveRequested(topic, a)

LEMMA TopicMoves ==
    ASSUME Next \/ UNCHANGED vars
    PROVE  CreateTopic \/ Requested \/ PersistCommit \/ TopicKept
BY ZenonT(60) DEF Next, vars, Requested, TopicKept, topicVars, Unlocked, RequestJoin, RejectJoin, RequestLeave, StageCommit,
       PersistFails, ReadRecipients, SendTopicMessage, SavePublish, SavePublishFails, StartRetry, RefreshPending,
       HandleFanout, handleDeliveryAck, Rebind, SyncBinding, Flush, Crash

LEMMA TopicStep ==
    ASSUME TopicInv, StageInv, Next \/ UNCHANGED vars
    PROVE  /\ TopicInv'
           /\ topic'.keySeq >= topic.keySeq
           /\ \A s \in 1 .. Len(issued) : s \in 1 .. Len(issued') /\ issued'[s] = issued[s]
<1>0. /\ topic \in Topic /\ issued \in Seq(SUBSET Accounts) /\ Len(issued) = topic.keySeq
      /\ topic.keySeq \in Nat
  BY Zenon DEF TopicInv, Topic
<1>1. CASE CreateTopic
  <2>1. topic'.keySeq = 1 /\ topic' \in Topic /\ topicKeyHolderAccounts(topic') = {Owner}
    BY ZenonT(60), <1>1, CreatedFacts DEF CreateTopic
  <2>2. issued' = <<{Owner}>> /\ Owner \in Accounts /\ topic.keySeq = 0
    BY ZenonT(60), <1>1, TopicAssumption DEF CreateTopic, Exists
  <2> QED
    BY SMTT(60), <1>0, <2>1, <2>2 DEF TopicInv
<1>2. CASE Requested
  <2>1. topic' \in Topic /\ topic'.keySeq = topic.keySeq
        /\ topicKeyHolderAccounts(topic') = topicKeyHolderAccounts(topic)
    BY ZenonT(60), <1>0, <1>2, RequestFacts DEF Requested
  <2> QED
    BY SMTT(60), <1>0, <1>2, <2>1 DEF TopicInv, Requested
<1>3. CASE PersistCommit
  <2>1. PICK st \in stage : topic' = st.candidate /\ issued' = Append(issued, st.commit.rcpts)
    BY Zenon, <1>3 DEF PersistCommit
  <2>2. /\ topic' \in Topic /\ topic'.keySeq = topic.keySeq + 1
        /\ st.commit.rcpts = topicKeyHolderAccounts(topic')
        /\ st.commit.rcpts \subseteq Accounts
    BY ZenonT(60), <2>1, PersistFacts
  <2> QED
    BY SMTT(60), <1>0, <2>1, <2>2 DEF TopicInv
<1>4. CASE TopicKept
  BY SMTT(60), <1>0, <1>4 DEF TopicKept, TopicInv
<1> QED
  BY Zenon, <1>1, <1>2, <1>3, <1>4, TopicMoves

-----------------------------------------------------------------------------
(* The commit in preparation, and the faults.                              *)

(* persistFails and crashes only grow, and each stands for its action.     *)
LEMMA FaultStep ==
    ASSUME StageInv, Next \/ UNCHANGED vars
    PROVE  /\ plan' = plan
           /\ persistFails' \in Nat /\ crashes' \in Nat
           /\ crashes' = 0 => crashes = 0 /\ ~Crash
           /\ Undisturbed' => Undisturbed /\ ~Crash /\ ~PersistFails
<1>0. persistFails \in Nat /\ crashes \in Nat
  BY Zenon DEF StageInv
<1>1. CASE Crash
  BY SMTT(60), <1>0, <1>1 DEF Crash, Undisturbed
<1>2. CASE PersistFails
  BY SMTT(60), <1>0, <1>2 DEF PersistFails, Undisturbed, Crash
<1>3. CASE ~Crash /\ ~PersistFails
  <2>1. UNCHANGED faultVars
    BY ZenonT(60), SMTT(30), <1>3 DEF Next, vars, faultVars, CreateTopic, RequestJoin, RejectJoin, RequestLeave, StageCommit, PersistCommit,
         ReadRecipients, SendTopicMessage, SavePublish, SavePublishFails, StartRetry, RefreshPending,
         HandleFanout, handleDeliveryAck, Rebind, SyncBinding, Flush
  <2> QED
    BY ZenonT(60), SMTT(30), <1>0, <1>3, <2>1 DEF faultVars, Undisturbed
<1> QED
  BY ZenonT(60), <1>1, <1>2, <1>3

LEMMA StageMoves ==
    ASSUME Next \/ UNCHANGED vars
    PROVE  \/ \E c \in OfferedCommits : StageCommit(c)
           \/ stage' = {}
           \/ UNCHANGED <<stage, topic, issued>>
BY ZenonT(60) DEF Next, vars, topicVars, Unlocked, CreateTopic, RequestJoin, RejectJoin, RequestLeave, PersistCommit,
       PersistFails, ReadRecipients, SendTopicMessage, SavePublish, SavePublishFails, StartRetry, RefreshPending,
       HandleFanout, handleDeliveryAck, Rebind, SyncBinding, Flush, Crash

LEMMA StageStep ==
    ASSUME TopicInv, StageInv, Next \/ UNCHANGED vars
    PROVE  StageInv'
<1>0. plan' \in Plans /\ persistFails' \in Nat /\ crashes' \in Nat
  BY ZenonT(60), SMTT(30), FaultStep DEF StageInv
<1>1. ASSUME NEW c \in OfferedCommits, StageCommit(c) PROVE StageInv'
  <2> DEFINE dlvs == Resolve(KeyPayload(c), view[Host])
             st == [commit |-> c, candidate |-> Candidate(topic, c), dlvs |-> dlvs]
  <2>1. stage' = {st} /\ topic' = topic /\ CommitAllowed(topic, c) /\ c.new <= plan.keySeq
    BY ZenonT(60), <1>1 DEF StageCommit, topicVars
  <2>2. \A d \in dlvs : d.id.kind = "KEY" /\ d.id.seq = c.new
    BY SMTT(60), ResolveParts DEF KeyPayload, Payload, Part
  <2>3. c.new <= MaxKeySeq
    <3>1. plan.keySeq \in 0 .. MaxKeySeq /\ MaxKeySeq \in Nat
      BY ZenonT(60), ServiceAssumption DEF StageInv
    <3>2. c.new \in Nat
      BY ZenonT(30), OfferedFacts DEF Commit
    <3> QED
      BY SMTT(60), <2>1, <3>1, <3>2
  <2> HIDE DEF dlvs
  <2> QED
    BY SMTT(60), <1>0, <2>1, <2>2, <2>3, OfferedFacts DEF StageInv
<1>2. CASE stage' = {}
  BY ZenonT(30), <1>0, <1>2 DEF StageInv
<1>3. CASE UNCHANGED <<stage, topic, issued>>
  BY ZenonT(30), <1>0, <1>3 DEF StageInv
<1> QED
  BY ZenonT(30), <1>1, <1>2, <1>3, StageMoves

-----------------------------------------------------------------------------
(* Where DeliveryIDs come from.                                            *)

(* A commit, a publish, or the parts of what is there already.             *)
Derived == \A i \in Ids' : \E j \in Ids : Part(i, j)

StagedIds(c) == \A i \in Ids' : i \in Ids \/ Part(i, KeyPayload(c))

PublishedIds(h) ==
    \A i \in Ids' : i \in Ids \/ (i.kind = "MSG" /\ i.tag = h.msg /\ i.seq = h.seq /\ i.rcpts \subseteq h.rcpts)

LEMMA StageCommitIds ==
    ASSUME NEW c, StageCommit(c)
    PROVE  StagedIds(c)
<1> DEFINE dlvs == Resolve(KeyPayload(c), view[Host])
<1>1. /\ pending' = SavePending(pending, dlvs)
      /\ stage' = {[commit |-> c, candidate |-> Candidate(topic, c), dlvs |-> dlvs]}
      /\ disk' = disk /\ scan' = scan /\ routed' = routed
  BY Zenon DEF StageCommit, netVars
<1>2. \A d \in dlvs : Part(d.id, KeyPayload(c))
  BY ZenonT(60), ResolveParts
<1> HIDE DEF dlvs
<1>3. DOMAIN pending' = DOMAIN pending \cup {d.id : d \in dlvs}
  BY ZenonT(60), <1>1, StoreDomains
<1> QED
  BY SMTT(60), <1>1, <1>2, <1>3 DEF StagedIds, Ids

LEMMA SavePublishIds ==
    ASSUME NEW h, SavePublish(h)
    PROVE  PublishedIds(h)
<1>1. PICK o \in Orders(h.rcpts) :
        LET dlvs == Resolve(Payload("MSG", h.seq, h.msg, h.rcpts, o), view[Host]) IN
        pending' = SavePending(pending, dlvs) /\ routed' = routed \cup dlvs
  BY Zenon DEF SavePublish
<1> DEFINE P == Payload("MSG", h.seq, h.msg, h.rcpts, o)
           dlvs == Resolve(P, view[Host])
<1>2. \A d \in dlvs : Part(d.id, P)
  BY ZenonT(60), ResolveParts
<1>3. P.kind = "MSG" /\ P.tag = h.msg /\ P.seq = h.seq /\ P.rcpts = h.rcpts
  BY Zenon DEF Payload
<1>4. pending' = SavePending(pending, dlvs) /\ routed' = routed \cup dlvs
  BY ZenonT(30), <1>1
<1> HIDE DEF dlvs, P
<1>5. DOMAIN pending' = DOMAIN pending \cup {d.id : d \in dlvs}
  BY ZenonT(30), <1>4, StoreDomains
<1>6. disk' = disk /\ scan' = scan /\ stage' = stage
  BY ZenonT(30) DEF SavePublish
<1>7. \A d \in dlvs : d.id.kind = "MSG" /\ d.id.tag = h.msg /\ d.id.seq = h.seq /\ d.id.rcpts \subseteq h.rcpts
  BY ZenonT(30), <1>2, <1>3 DEF Part
<1> QED
  BY SMTT(60), <1>4, <1>5, <1>6, <1>7 DEF PublishedIds, Ids

LEMMA RefreshIds ==
    ASSUME NEW d \in scan, RefreshPending(d)
    PROVE  Derived
<1> DEFINE dlvs == Resolve(d.id, view[Host])
<1>1. /\ scan' = scan \ {d} /\ disk' = disk /\ stage' = stage
      /\ \/ pending' = pending /\ routed' = routed \cup {d}
         \/ pending' = ReplacePending(pending, d, dlvs) /\ routed' = routed \cup dlvs
         \/ UNCHANGED <<pending, routed>>
  BY Zenon DEF RefreshPending
<1>2. \A e \in dlvs : Part(e.id, d.id)
  BY ZenonT(30), ResolveParts
<1> HIDE DEF dlvs
<1>3. d.id \in Ids /\ Part(d.id, d.id)
  BY ZenonT(30), PartReflexive DEF Ids
<1>4. \A i \in Ids' : i \in Ids \/ i = d.id \/ \E e \in dlvs : i = e.id
  <2>1. CASE pending' = pending /\ routed' = routed \cup {d}
    BY ZenonT(30), <1>1, <2>1 DEF Ids
  <2>2. CASE pending' = ReplacePending(pending, d, dlvs) /\ routed' = routed \cup dlvs
    <3>1. DOMAIN pending' = (DOMAIN pending \ {d.id}) \cup {e.id : e \in dlvs}
      BY ZenonT(60), <2>2, StoreDomains
    <3> QED
      BY ZenonT(30), <1>1, <2>2, <3>1 DEF Ids
  <2>3. CASE UNCHANGED <<pending, routed>>
    BY Zenon, <1>1, <2>3 DEF Ids
  <2> QED
    BY ZenonT(30), <1>1, <2>1, <2>2, <2>3
<1> QED
  BY ZenonT(30), <1>2, <1>3, <1>4, PartReflexive DEF Derived

LEMMA IdMoves ==
    ASSUME Next \/ UNCHANGED vars
    PROVE  \/ \E c \in OfferedCommits : StageCommit(c) /\ StagedIds(c)
           \/ \E h \in handling : SavePublish(h) /\ PublishedIds(h)
           \/ Derived
<1>0. SUFFICES ASSUME ~\E c \in OfferedCommits : StageCommit(c),
                      ~\E h \in handling : SavePublish(h),
                      ~\E d \in scan : RefreshPending(d)
               PROVE  Ids' \subseteq Ids
  BY ZenonT(30), StageCommitIds, SavePublishIds, RefreshIds, PartReflexive DEF Derived
<1>1. CASE PersistCommit
  <2>1. PICK st \in stage : routed' = routed \cup st.dlvs
    BY ZenonT(60), <1>1 DEF PersistCommit
  <2>2. UNCHANGED <<pending, disk, scan>> /\ stage' = {}
    BY ZenonT(60), <1>1 DEF PersistCommit, storeVars
  <2> QED
    BY SMTT(60), <2>1, <2>2 DEF Ids
<1>2. CASE PersistFails
  <2>1. PICK st \in stage :
          LET mine == {d.id : d \in {e \in st.dlvs : e.id \in DOMAIN pending /\ pending[e.id] = e.core}}
          IN  pending' = [id \in DOMAIN pending \ mine |-> pending[id]]
    BY ZenonT(30), <1>2 DEF PersistFails
  <2>2. UNCHANGED <<disk, scan, routed>> /\ stage' = {}
    BY ZenonT(30), <1>2 DEF PersistFails, netVars
  <2>3. DOMAIN pending' \subseteq DOMAIN pending
    BY ZenonT(30), <2>1
  <2> QED
    BY ZenonT(30), <2>2, <2>3 DEF Ids
<1>3. CASE StartRetry
  <2>1. scan' = {[id |-> id, core |-> pending[id]] : id \in DOMAIN pending}
        /\ UNCHANGED <<pending, disk, routed, stage>>
    BY ZenonT(60), <1>3 DEF StartRetry, Deliveries, netVars
  <2> QED
    BY SMTT(60), <2>1 DEF Ids
<1>4. ASSUME NEW d \in acks, handleDeliveryAck(d) PROVE Ids' \subseteq Ids
  <2>1. pending' = Acknowledge(pending, d) /\ UNCHANGED <<disk, scan, routed, stage>>
    BY ZenonT(30), <1>4 DEF handleDeliveryAck, netVars
  <2>2. DOMAIN pending' \subseteq DOMAIN pending
    BY ZenonT(30), <2>1, StoreDomains
  <2> QED
    BY ZenonT(60), <2>1, <2>2 DEF Ids
<1>5. CASE Flush
  BY ZenonT(30), <1>5 DEF Flush, Ids, netVars
<1>6. CASE Crash
  BY ZenonT(30), <1>6 DEF Crash, Ids, netVars
<1>7. CASE UNCHANGED <<pending, disk, scan, routed, stage>>
  BY ZenonT(30), <1>7 DEF Ids
<1> QED
  BY ZenonT(30), <1>0, <1>1, <1>2, <1>3, <1>4, <1>5, <1>6, <1>7
  DEF Next, vars, storeVars, netVars, CreateTopic, RequestJoin, RejectJoin, RequestLeave, ReadRecipients,
      SendTopicMessage, SavePublishFails, HandleFanout, Rebind, SyncBinding

-----------------------------------------------------------------------------
(* Publishes.                                                              *)

(* A signed message keeps its sender and its key sequence.                 *)
LEMMA PubsKept ==
    ASSUME PublishInv, Next \/ UNCHANGED vars
    PROVE  \A m \in Messages : pubs[m] # NoMessage => pubs'[m] = pubs[m]
<1>1. ASSUME NEW m \in Messages, NEW a \in Accounts, SendTopicMessage(m, a)
      PROVE  \A k \in Messages : pubs[k] # NoMessage => pubs'[k] = pubs[k]
  BY ZenonT(30), <1>1 DEF SendTopicMessage, PublishInv
<1>2. (\E m \in Messages, a \in Accounts : SendTopicMessage(m, a)) \/ pubs' = pubs
  BY ZenonT(30) DEF Next, vars, pubVars, CreateTopic, RequestJoin, RejectJoin, RequestLeave, StageCommit, PersistCommit,
       PersistFails, ReadRecipients, SavePublish, SavePublishFails, StartRetry, RefreshPending,
       HandleFanout, handleDeliveryAck, Rebind, SyncBinding, Flush, Crash
<1> QED
  BY ZenonT(30), <1>1, <1>2

LEMMA PubsStep ==
    ASSUME TopicInv, StageInv, PublishInv, Next \/ UNCHANGED vars
    PROVE  /\ pubs' \in [Messages -> [sender: Accounts, seq: Nat] \cup {NoMessage}]
           /\ \A m \in Messages : pubs'[m] # NoMessage => pubs'[m].seq \in 1 .. Len(issued')
<1>0. \A s \in 1 .. Len(issued) : s \in 1 .. Len(issued')
  BY ZenonT(30), TopicStep
<1>1. ASSUME NEW m \in Messages, NEW a \in Accounts, SendTopicMessage(m, a)
      PROVE  /\ pubs' \in [Messages -> [sender: Accounts, seq: Nat] \cup {NoMessage}]
             /\ \A k \in Messages : pubs'[k] # NoMessage => pubs'[k].seq \in 1 .. Len(issued')
  <2>1. topic.keySeq \in Nat /\ topic.keySeq # 0 /\ Len(issued) = topic.keySeq
    BY ZenonT(60), <1>1 DEF SendTopicMessage, Exists, TopicInv, Topic
  <2>2. pubs' = [pubs EXCEPT ![m] = [sender |-> a, seq |-> topic.keySeq]]
    BY ZenonT(30), <1>1 DEF SendTopicMessage
  <2>3. topic.keySeq \in 1 .. Len(issued)
    BY SMTT(60), <2>1
  <2>4. pubs \in [Messages -> [sender: Accounts, seq: Nat] \cup {NoMessage}]
        /\ \A k \in Messages : pubs[k] # NoMessage => pubs[k].seq \in 1 .. Len(issued)
    BY ZenonT(30) DEF PublishInv
  <2>5. pubs' \in [Messages -> [sender: Accounts, seq: Nat] \cup {NoMessage}]
    BY ZenonT(30), <2>1, <2>2, <2>4
  <2>6. \A k \in Messages : pubs'[k] = IF k = m THEN [sender |-> a, seq |-> topic.keySeq] ELSE pubs[k]
    BY ZenonT(60), SMTT(30), <2>2, <2>4
  <2> QED
    BY SMTT(60), <1>0, <2>3, <2>4, <2>5, <2>6
<1>2. (\E m \in Messages, a \in Accounts : SendTopicMessage(m, a)) \/ pubs' = pubs
  BY ZenonT(60), SMTT(30) DEF Next, vars, pubVars, CreateTopic, RequestJoin, RejectJoin, RequestLeave, StageCommit, PersistCommit,
       PersistFails, ReadRecipients, SavePublish, SavePublishFails, StartRetry, RefreshPending,
       HandleFanout, handleDeliveryAck, Rebind, SyncBinding, Flush, Crash
<1>3. CASE pubs' = pubs
  BY ZenonT(30), <1>0, <1>3 DEF PublishInv
<1> QED
  BY ZenonT(30), SMTT(30), <1>1, <1>2, <1>3

LEMMA GivenKept ==
    ASSUME TopicInv, StageInv, Next \/ UNCHANGED vars, NEW a, NEW s, GivenKey(a, s)
    PROVE  s \in 1 .. Len(issued') /\ a \in issued'[s]
BY ZenonT(30), TopicStep DEF GivenKey

LEMMA AcceptedKept ==
    ASSUME TopicInv, StageInv, PublishInv, Next \/ UNCHANGED vars,
           NEW m, NEW seq, NEW R, NEW S, S \subseteq R, Accepted(m, seq, R)
    PROVE  Accepted(m, seq, S)'
<1>1. \A a \in R : GivenKey(a, seq)
  BY ZenonT(30) DEF Accepted
<1>2. m \in Messages /\ pubs'[m] # NoMessage /\ seq = pubs'[m].seq
  BY ZenonT(30), PubsKept DEF Accepted
<1> QED
  BY ZenonT(30), <1>1, <1>2, GivenKept DEF Accepted, GivenKey

(* A mailbox record comes from a routed delivery.                          *)
LEMMA MailMoves ==
    ASSUME Next \/ UNCHANGED vars
    PROVE  /\ mail \subseteq mail'
           /\ \A r \in mail' : r \in mail \/ \E d \in routed : \E a \in d.id.rcpts : r = MailRecord(a, d)
<1>1. ASSUME NEW d \in routed, NEW room, HandleFanout(d, room)
      PROVE  /\ mail \subseteq mail'
             /\ \A r \in mail' : r \in mail \/ \E a \in d.id.rcpts : r = MailRecord(a, d)
  BY ZenonT(60), SMTT(30), <1>1 DEF HandleFanout, Writable
<1>2. (\E d \in routed : \E room \in SUBSET Writable(d) : HandleFanout(d, room)) \/ mail' = mail
  BY ZenonT(60), SMTT(30) DEF Next, vars, netVars, CreateTopic, RequestJoin, RejectJoin, RequestLeave, StageCommit, PersistCommit,
       PersistFails, ReadRecipients, SendTopicMessage, SavePublish, SavePublishFails, StartRetry, RefreshPending,
       handleDeliveryAck, Rebind, SyncBinding, Flush, Crash
<1> QED
  BY ZenonT(30), <1>1, <1>2

(* handlePublish reads the members under the key sequence the message was  *)
(* signed for, so every recipient was given that key.                      *)
LEMMA ReadAccepted ==
    ASSUME TopicInv, PublishInv, NEW m \in Messages, ReadRecipients(m),
           NEW h \in handling' \ handling
    PROVE  Accepted(h.msg, h.seq, h.rcpts)
<1> DEFINE R == {a \in Accounts \ {pubs[m].sender} : topic.members[a].status = "ACTIVE"}
<1>1. h = [msg |-> m, seq |-> pubs[m].seq, rcpts |-> R]
  BY ZenonT(30), SMTT(30) DEF ReadRecipients
<1>2. pubs[m] # NoMessage /\ topic.keySeq = pubs[m].seq
  BY ZenonT(30), SMTT(30) DEF ReadRecipients, MayPublish
<1>3. pubs[m].seq \in 1 .. Len(issued)
  BY ZenonT(30), <1>2 DEF PublishInv
<1>4. issued[topic.keySeq] = topicKeyHolderAccounts(topic)
  BY SMTT(60), <1>2, <1>3 DEF TopicInv
<1>5. R \subseteq topicKeyHolderAccounts(topic)
  BY ZenonT(30), SMTT(30) DEF topicKeyHolderAccounts, topicMemberHoldsCurrentKey
<1> HIDE DEF R
<1> QED
  BY ZenonT(60), <1>1, <1>2, <1>3, <1>4, <1>5 DEF Accepted, GivenKey

LEMMA PublishStep ==
    ASSUME TopicInv, StageInv, PublishInv, Next \/ UNCHANGED vars
    PROVE  PublishInv'
<1>1. \A h \in handling' : h \in handling \/ \E m \in Messages : ReadRecipients(m)
  BY ZenonT(30)  DEF Next, vars, pubVars, CreateTopic, RequestJoin, RejectJoin, RequestLeave, StageCommit, PersistCommit,
       PersistFails, SendTopicMessage, SavePublish, SavePublishFails, StartRetry, RefreshPending,
       HandleFanout, handleDeliveryAck, Rebind, SyncBinding, Flush, Crash
<1>2. ASSUME NEW h \in handling' PROVE Accepted(h.msg, h.seq, h.rcpts)'
  <2>1. Accepted(h.msg, h.seq, h.rcpts)
    BY ZenonT(30), <1>1, ReadAccepted DEF PublishInv
  <2> QED
    BY ZenonT(30), SMTT(30), <2>1, AcceptedKept
<1>3. ASSUME NEW i \in Ids', i.kind = "MSG" PROVE Accepted(i.tag, i.seq, i.rcpts)'
  <2>1. CASE \E c \in OfferedCommits : StageCommit(c) /\ StagedIds(c)
    <3>1. \A c : KeyPayload(c).kind = "KEY"
      BY Zenon DEF KeyPayload, Payload
    <3>2. i \in Ids
      BY ZenonT(30), <1>3, <2>1, <3>1 DEF StagedIds, Part
    <3>3. Accepted(i.tag, i.seq, i.rcpts)
      BY ZenonT(30), <1>3, <3>2 DEF PublishInv
    <3> QED
      BY ZenonT(30), <3>3, AcceptedKept
  <2>2. CASE \E h \in handling : SavePublish(h) /\ PublishedIds(h)
    <3>1. PICK h \in handling : PublishedIds(h)
      BY ZenonT(60), <2>2
    <3>2. CASE i \in Ids
      <4>1. Accepted(i.tag, i.seq, i.rcpts)
        BY ZenonT(30), <1>3, <3>2 DEF PublishInv
      <4> QED
        BY ZenonT(60), <4>1, AcceptedKept
    <3>3. CASE i.tag = h.msg /\ i.seq = h.seq /\ i.rcpts \subseteq h.rcpts
      <4>1. Accepted(h.msg, h.seq, h.rcpts)
        BY Zenon DEF PublishInv
      <4> QED
        BY ZenonT(30), <3>3, <4>1, AcceptedKept
    <3> QED
      BY ZenonT(30), <3>1, <3>2, <3>3 DEF PublishedIds
  <2>3. CASE Derived
    <3>1. PICK j \in Ids : Part(i, j)
      BY ZenonT(60), <2>3 DEF Derived
    <3>2. Accepted(j.tag, j.seq, j.rcpts)
      BY ZenonT(60), <1>3, <3>1 DEF PublishInv, Part
    <3> QED
      BY ZenonT(30), <3>1, <3>2, AcceptedKept DEF Part
  <2> QED
    BY ZenonT(30), <2>1, <2>2, <2>3, IdMoves
<1>4. ASSUME NEW r \in mail', r.kind = "MSG" PROVE GivenKey(r.acct, r.seq)'
  <2>1. GivenKey(r.acct, r.seq)
    <3>1. CASE r \in mail
      BY ZenonT(30), <1>4, <3>1 DEF PublishInv
    <3>2. ASSUME NEW d \in routed, NEW a \in d.id.rcpts, r = MailRecord(a, d) PROVE GivenKey(r.acct, r.seq)
      <4>1. r.acct = a /\ r.kind = d.id.kind /\ r.seq = d.id.seq
        BY ZenonT(60), <3>2 DEF MailRecord
      <4>2. d.id \in Ids
        BY Zenon DEF Ids
      <4> QED
        BY ZenonT(30), <1>4, <4>1, <4>2 DEF PublishInv, Accepted
    <3> QED
      BY ZenonT(30), <3>1, <3>2, MailMoves
  <2> QED
    BY ZenonT(60), <2>1, GivenKept DEF GivenKey
<1> QED
  BY ZenonT(60), <1>2, <1>3, <1>4, PubsStep DEF PublishInv

-----------------------------------------------------------------------------
(* Key packages.                                                           *)

LEMMA KeyPayloadFacts ==
    ASSUME NEW c
    PROVE  /\ KeyPayload(c).kind = "KEY" /\ KeyPayload(c).seq = c.new
           /\ KeyPayload(c).tag = c.key /\ KeyPayload(c).rcpts = c.rcpts
BY ZenonT(60) DEF KeyPayload, Payload

(* A key package comes from an earlier one or from the commit being staged.*)
LEMMA KeyIdMoves ==
    ASSUME Next \/ UNCHANGED vars
    PROVE  \/ \E c \in OfferedCommits :
                 /\ StageCommit(c)
                 /\ \A i \in Ids' : i.kind = "KEY" => i \in Ids \/ Part(i, KeyPayload(c))
           \/ /\ \A i \in Ids' : i.kind = "KEY" => \E j \in Ids : Part(i, j)
              /\ ~\E c \in OfferedCommits : StageCommit(c)
<1>1. CASE \E c \in OfferedCommits : StageCommit(c)
  BY ZenonT(30), <1>1, StageCommitIds DEF StagedIds
<1>2. CASE ~\E c \in OfferedCommits : StageCommit(c)
  <2>1. CASE \E h \in handling : PublishedIds(h)
    BY ZenonT(30), <1>2, <2>1, PartReflexive DEF PublishedIds
  <2>2. CASE Derived
    BY ZenonT(60), <1>2, <2>2 DEF Derived
  <2> QED
    BY ZenonT(60), SMTT(30), <1>2, <2>1, <2>2, IdMoves
<1> QED
  BY ZenonT(60), <1>1, <1>2

(* The retry loop holds a prepared package back; the commit that owns it   *)
(* routes it.                                                              *)
LEMMA NoFutureKeyStep ==
    ASSUME TopicInv, StageInv, KeyInv, Next \/ UNCHANGED vars
    PROVE  NoFutureKey'
<1>0. topic'.keySeq >= topic.keySeq /\ topic.keySeq \in Nat /\ topic'.keySeq \in Nat
  BY ZenonT(60), TopicStep DEF TopicInv, Topic
<1>1. ASSUME NEW d \in routed, d.id.kind = "KEY" PROVE d.id.seq <= topic'.keySeq
  <2>1. d.id.seq \in Nat /\ d.id.seq <= topic.keySeq
    BY Zenon, ZenonT(60), <1>1 DEF KeyInv, NoFutureKey, Ids
  <2> QED
    BY SMTT(60), <1>0, <2>1
<1>2. CASE PersistCommit
  <2>1. PICK st \in stage : topic' = st.candidate /\ routed' = routed \cup st.dlvs
    BY ZenonT(60), SMTT(30), <1>2 DEF PersistCommit
  <2>2. \A d \in st.dlvs : d.id.seq = topic'.keySeq
    BY ZenonT(60), SMTT(30), <2>1, PersistFacts DEF StageInv
  <2> QED
    BY SMTT(30), <1>0, <1>1, <2>1, <2>2 DEF NoFutureKey
<1>3. ASSUME NEW h \in handling, SavePublish(h) PROVE NoFutureKey'
  <2>1. PICK o \in Orders(h.rcpts) :
          routed' = routed \cup Resolve(Payload("MSG", h.seq, h.msg, h.rcpts, o), view[Host])
    BY ZenonT(30), SMTT(30), <1>3 DEF SavePublish
  <2>2. \A d \in Resolve(Payload("MSG", h.seq, h.msg, h.rcpts, o), view[Host]) : d.id.kind = "MSG"
    BY SMTT(60), ResolveParts DEF Payload, Part
  <2> QED
    BY ZenonT(60), SMTT(30), <1>1, <2>1, <2>2 DEF NoFutureKey
<1>4. ASSUME NEW d \in scan, RefreshPending(d) PROVE NoFutureKey'
  <2>1. CASE Held(d)
    BY ZenonT(60), <1>1, <1>4, <2>1 DEF RefreshPending, NoFutureKey
  <2>2. CASE ~Held(d)
    <3>1. d.id.kind = "KEY" => d.id.seq \in Nat /\ d.id.seq <= topic'.keySeq
      <4>1. d.id \in Ids
        BY Zenon DEF Ids
      <4>2. d.id.kind = "KEY" => d.id.seq \in Nat
        BY ZenonT(30), <4>1 DEF KeyInv
      <4> QED
        BY SMTT(30), <1>0, <2>2, <4>2 DEF Held
    <3>2. \A e \in Resolve(d.id, view[Host]) : e.id.kind = d.id.kind /\ e.id.seq = d.id.seq
      BY ZenonT(30), SMTT(30), ResolveParts DEF Part
    <3>3. \A e \in routed' : e \in routed \/ e = d \/ e \in Resolve(d.id, view[Host])
      BY ZenonT(30), <1>4 DEF RefreshPending
    <3> QED
      BY ZenonT(60), SMTT(30), <1>1, <3>1, <3>2, <3>3 DEF NoFutureKey
  <2> QED
    BY ZenonT(60), <2>1, <2>2
<1>5. CASE routed' = routed
  BY ZenonT(60), SMTT(30), <1>1, <1>5 DEF NoFutureKey
<1> QED
  BY ZenonT(60), <1>2, <1>3, <1>4, <1>5
  DEF Next, vars, netVars, CreateTopic, RequestJoin, RejectJoin, RequestLeave, StageCommit, PersistFails,
      ReadRecipients, SendTopicMessage, SavePublishFails, StartRetry, HandleFanout, handleDeliveryAck, Rebind,
      SyncBinding, Flush, Crash

(* Without faults a commit is staged until it persists.                    *)
LEMMA StageKept ==
    ASSUME StageInv, Next \/ UNCHANGED vars, Undisturbed'
    PROVE  stage' = stage \/ PersistCommit \/ \E c \in OfferedCommits : StageCommit(c)
<1>1. ~Crash /\ ~PersistFails
  BY ZenonT(30), FaultStep
<1> QED
  BY ZenonT(60), <1>1
  DEF Next, vars, CreateTopic, RequestJoin, RejectJoin, RequestLeave,
      ReadRecipients, SendTopicMessage, SavePublish, SavePublishFails, StartRetry, RefreshPending, HandleFanout,
      handleDeliveryAck, Rebind, SyncBinding, Flush

LEMMA ReleasedKept ==
    ASSUME TopicInv, StageInv, Next \/ UNCHANGED vars, NEW i, NEW j, Part(i, j), Released(j)
    PROVE  Released(i)'
BY ZenonT(30), TopicStep DEF Released, Part

LEMMA PreparedKept ==
    ASSUME TopicInv, StageInv, Next \/ UNCHANGED vars, Undisturbed',
           ~\E c \in OfferedCommits : StageCommit(c), NEW i, NEW j, Part(i, j), Prepared(j)
    PROVE  Released(i)' \/ Prepared(i)'
<1>1. CASE stage' = stage
  BY ZenonT(30), SMTT(30), <1>1 DEF Prepared, Part
<1>2. CASE PersistCommit
  <2>1. PICK su \in stage : issued' = Append(issued, su.commit.rcpts)
    BY ZenonT(30), <1>2 DEF PersistCommit
  <2>2. PICK st \in stage : j.seq = st.commit.new /\ j.rcpts \subseteq st.commit.rcpts
    BY ZenonT(30), SMTT(30) DEF Prepared
  <2>3. st = su
    BY ZenonT(30) DEF StageInv
  <2>4. st.commit.new = Len(issued) + 1 /\ issued \in Seq(SUBSET Accounts) /\ st.commit.rcpts \subseteq Accounts
    BY ZenonT(30), ZenonT(30), PersistFacts DEF TopicInv
  <2>5. Len(issued') = Len(issued) + 1 /\ issued'[Len(issued) + 1] = st.commit.rcpts
    BY SMTT(60), <2>1, <2>3, <2>4
  <2> QED
    BY SMTT(60), <2>2, <2>4, <2>5 DEF Released, Part
<1> QED
  BY ZenonT(30), <1>1, <1>2, StageKept

(* While nothing fails, a prepared package has a sequence of its own.      *)
LEMMA KeyIdStep ==
    ASSUME TopicInv, StageInv, KeyInv, Next \/ UNCHANGED vars, Undisturbed'
    PROVE  /\ \A i \in Ids' : i.kind = "KEY" => Released(i)' \/ Prepared(i)'
           /\ \A i, j \in Ids' : (i.kind = "KEY" /\ j.kind = "KEY" /\ i.seq = j.seq) => i.tag = j.tag
<1>0. /\ \A i \in Ids : i.kind = "KEY" => Released(i) \/ Prepared(i)
      /\ \A i, j \in Ids : (i.kind = "KEY" /\ j.kind = "KEY" /\ i.seq = j.seq) => i.tag = j.tag
  BY ZenonT(60), FaultStep DEF KeyInv
<1>1. ASSUME NEW c \in OfferedCommits, StageCommit(c),
             \A i \in Ids' : i.kind = "KEY" => i \in Ids \/ Part(i, KeyPayload(c))
      PROVE  /\ \A i \in Ids' : i.kind = "KEY" => Released(i)' \/ Prepared(i)'
             /\ \A i, j \in Ids' : (i.kind = "KEY" /\ j.kind = "KEY" /\ i.seq = j.seq) => i.tag = j.tag
  <2>1. stage = {} /\ c.new = topic.keySeq + 1 /\ issued' = issued
    BY ZenonT(30), <1>1 DEF StageCommit, Unlocked, CommitAllowed, topicVars
  <2>2. \E st \in stage' : st.commit = c
    BY ZenonT(30), <1>1 DEF StageCommit
  <2>3. \A i \in Ids : i.kind = "KEY" => Released(i)
    BY ZenonT(30), <1>0, <2>1 DEF Prepared
  <2>4. \A i : Released(i) => i.seq # c.new
    BY SMTT(60), <2>1 DEF Released, TopicInv, Topic
  <2>5. ASSUME NEW i \in Ids', i.kind = "KEY" PROVE Released(i)' \/ Prepared(i)'
    <3>1. CASE i \in Ids
      BY ZenonT(30), <2>3, <2>5, <3>1, ReleasedKept, PartReflexive
    <3>2. CASE Part(i, KeyPayload(c))
      BY SMTT(60), <2>2, <3>2, KeyPayloadFacts DEF Part, Prepared
    <3> QED
      BY ZenonT(30), <1>1, <2>5, <3>1, <3>2
  <2>6. ASSUME NEW i \in Ids', NEW j \in Ids', i.kind = "KEY", j.kind = "KEY", i.seq = j.seq PROVE i.tag = j.tag
    <3>1. \A k \in {i, j} : k \in Ids \/ (k.seq = c.new /\ k.tag = c.key)
      BY ZenonT(30), <1>1, <2>6, KeyPayloadFacts DEF Part
    <3> QED
      BY ZenonT(60), <1>0, <2>3, <2>4, <2>6, <3>1
  <2> QED
    BY ZenonT(30), <2>5, <2>6
<1>2. ASSUME \A i \in Ids' : i.kind = "KEY" => \E j \in Ids : Part(i, j),
             ~\E c \in OfferedCommits : StageCommit(c)
      PROVE  /\ \A i \in Ids' : i.kind = "KEY" => Released(i)' \/ Prepared(i)'
             /\ \A i, j \in Ids' : (i.kind = "KEY" /\ j.kind = "KEY" /\ i.seq = j.seq) => i.tag = j.tag
  <2>1. ASSUME NEW i \in Ids', i.kind = "KEY" PROVE Released(i)' \/ Prepared(i)'
    <3>1. PICK j \in Ids : Part(i, j) /\ j.kind = "KEY"
      BY ZenonT(30), <1>2, <2>1 DEF Part
    <3> QED
      BY ZenonT(60), <1>0, <1>2, <3>1, ReleasedKept, PreparedKept
  <2>2. ASSUME NEW i \in Ids', NEW j \in Ids', i.kind = "KEY", j.kind = "KEY", i.seq = j.seq PROVE i.tag = j.tag
    BY SMTT(60), <1>0, <1>2, <2>2 DEF Part
  <2> QED
    BY ZenonT(30), <2>1, <2>2
<1> QED
  BY ZenonT(30), <1>1, <1>2, KeyIdMoves

LEMMA KeyStep ==
    ASSUME TopicInv, StageInv, KeyInv, Next \/ UNCHANGED vars
    PROVE  KeyInv'
<1>1. ASSUME NEW i \in Ids', i.kind = "KEY" PROVE i.seq \in Nat
  <2>1. CASE \E c \in OfferedCommits : Part(i, KeyPayload(c))
    BY ZenonT(60), SMTT(30), <2>1, OfferedFacts, KeyPayloadFacts DEF Part, Commit
  <2>2. CASE \E j \in Ids : Part(i, j)
    BY ZenonT(60), <1>1, <2>2 DEF KeyInv, Part
  <2> QED
    BY ZenonT(60), <1>1, <2>1, <2>2, KeyIdMoves, PartReflexive
<1>2. ASSUME Undisturbed', NEW r \in mail', r.kind = "KEY" PROVE GivenKey(r.acct, r.seq)'
  <2>1. GivenKey(r.acct, r.seq)
    <3>1. CASE r \in mail
      BY ZenonT(30), SMTT(30), <1>2, <3>1, FaultStep DEF KeyInv
    <3>2. ASSUME NEW d \in routed, NEW a \in d.id.rcpts, r = MailRecord(a, d) PROVE GivenKey(r.acct, r.seq)
      <4>1. r.acct = a /\ d.id.kind = "KEY" /\ r.seq = d.id.seq
        BY ZenonT(30), SMTT(30), <1>2, <3>2 DEF MailRecord
      <4>2. Released(d.id) \/ Prepared(d.id)
        BY ZenonT(30), SMTT(30), <1>2, <4>1, FaultStep DEF KeyInv, Ids
      <4>3. d.id.seq <= topic.keySeq /\ topic.keySeq \in Nat
        BY ZenonT(30), <4>1 DEF KeyInv, NoFutureKey, TopicInv, Topic
      <4>4. ~Prepared(d.id)
        BY SMTT(60), <4>3, PersistFacts DEF Prepared
      <4> QED
        BY ZenonT(30), SMTT(30), <4>1, <4>2, <4>4 DEF Released, GivenKey
    <3> QED
      BY Zenon, <3>1, <3>2, MailMoves
  <2> QED
    BY Zenon, <2>1, GivenKept DEF GivenKey
<1> QED
  BY ZenonT(60), <1>1, <1>2, NoFutureKeyStep, KeyIdStep DEF KeyInv

-----------------------------------------------------------------------------
(* Nobody is forgotten.                                                    *)

(* What is pending for an account stays pending for it, in some batch, or  *)
(* has been delivered to it.                                               *)
Delivered(a, i) == \E r \in mail : r.acct = a /\ r.kind = i.kind /\ r.seq = i.seq /\ r.tag = i.tag

Kept(i) ==
    \A a \in i.rcpts :
        \/ Delivered(a, i)'
        \/ \E j \in DOMAIN pending' : Part(j, i) /\ a \in j.rcpts

LEMMA AckStep ==
    ASSUME CoverInv, NEW d \in acks, handleDeliveryAck(d)
    PROVE  \A i \in DOMAIN pending : Kept(i)
<1>1. pending' = Acknowledge(pending, d) /\ mail' = mail
  BY ZenonT(30), SMTT(30) DEF handleDeliveryAck, netVars
<1>2. \A a \in d.id.rcpts : Delivered(a, d.id)'
  BY ZenonT(30), <1>1 DEF CoverInv, HasMail, Delivered
<1>3. \A i \in DOMAIN pending : i = d.id \/ i \in DOMAIN pending'
  <2>1. DOMAIN pending \subseteq DOMAIN Acknowledge(pending, d) \cup {d.id}
    BY ZenonT(30), StoreDomains
  <2> QED
    BY ZenonT(30), SMTT(30), <1>1, <2>1
<1> QED
  BY ZenonT(30), <1>2, <1>3, PartReflexive DEF Kept

LEMMA RefreshStep ==
    ASSUME NEW d \in scan, RefreshPending(d)
    PROVE  \A i \in DOMAIN pending : Kept(i)
<1>1. CASE pending' = pending
  BY ZenonT(30), <1>1, PartReflexive DEF Kept
<1>2. CASE pending' = ReplacePending(pending, d, Resolve(d.id, view[Host]))
  <2> DEFINE dlvs == Resolve(d.id, view[Host])
  <2>1. \A e \in dlvs : Part(e.id, d.id)
    BY Zenon, ResolveParts
  <2>2. \A a \in d.id.rcpts : \E e \in dlvs : a \in e.id.rcpts
    BY ZenonT(30), ResolveCovers
  <2>0. pending' = ReplacePending(pending, d, dlvs)
    BY ZenonT(30), <1>2
  <2> HIDE DEF dlvs
  <2>3. DOMAIN pending' = (DOMAIN pending \ {d.id}) \cup {e.id : e \in dlvs}
    BY ZenonT(60), <2>0, StoreDomains
  <2> QED
    BY ZenonT(60), <2>1, <2>2, <2>3, PartReflexive DEF Kept
<1> QED
  BY ZenonT(30), <1>1, <1>2 DEF RefreshPending

(* Only a crash, and the rollback of the staged packages, drop deliveries. *)
LEMMA PendingKept ==
    ASSUME CoverInv, Next \/ UNCHANGED vars, ~Crash
    PROVE  \A i \in DOMAIN pending : Kept(i) \/ (PersistFails /\ \E st \in stage : \E d \in st.dlvs : i = d.id)
<1>1. ASSUME NEW c \in OfferedCommits, StageCommit(c) PROVE DOMAIN pending \subseteq DOMAIN pending'
  <2>1. PICK dlvs : pending' = SavePending(pending, dlvs)
    BY ZenonT(30), SMTT(30), <1>1 DEF StageCommit
  <2>2. DOMAIN SavePending(pending, dlvs) = DOMAIN pending \cup {e.id : e \in dlvs}
    BY ZenonT(30), ZenonT(30), StoreDomains
  <2> QED
    BY ZenonT(30), <2>1, <2>2
<1>2. ASSUME NEW h \in handling, SavePublish(h) PROVE DOMAIN pending \subseteq DOMAIN pending'
  <2>1. PICK dlvs : pending' = SavePending(pending, dlvs)
    BY ZenonT(30), <1>2 DEF SavePublish
  <2>2. DOMAIN SavePending(pending, dlvs) = DOMAIN pending \cup {e.id : e \in dlvs}
    BY ZenonT(30), StoreDomains
  <2> QED
    BY ZenonT(30), <2>1, <2>2
<1>3. CASE PersistFails
  <2>1. PICK st \in stage :
          LET mine == {d.id : d \in {e \in st.dlvs : e.id \in DOMAIN pending /\ pending[e.id] = e.core}}
          IN  pending' = [id \in DOMAIN pending \ mine |-> pending[id]]
    BY ZenonT(60), <1>3 DEF PersistFails
  <2>2. \A i \in DOMAIN pending : i \in DOMAIN pending' \/ \E d \in st.dlvs : i = d.id
    BY ZenonT(30), <2>1
  <2> QED
    BY ZenonT(30), <1>3, <2>2, PartReflexive DEF Kept
<1>4. CASE DOMAIN pending \subseteq DOMAIN pending'
  BY ZenonT(60), <1>4, PartReflexive DEF Kept
<1>5. \/ \E c \in OfferedCommits : StageCommit(c)
      \/ \E h \in handling : SavePublish(h)
      \/ \E d \in acks : handleDeliveryAck(d)
      \/ \E d \in scan : RefreshPending(d)
      \/ PersistFails
      \/ pending' = pending
  BY ZenonT(60) DEF Next, vars, storeVars, CreateTopic, RequestJoin, RejectJoin, RequestLeave, PersistCommit, ReadRecipients,
       SendTopicMessage, SavePublishFails, StartRetry, HandleFanout, Rebind, SyncBinding, Flush
<1> QED
  BY Zenon, SMTT(30), <1>1, <1>2, <1>3, <1>4, <1>5, AckStep, RefreshStep

LEMMA KeyHeldKept ==
    ASSUME StageInv, CoverInv, Next \/ UNCHANGED vars, ~Crash, NEW a, NEW s, KeyHeld(a, s),
           PersistFails => \A st \in stage : st.commit.new # s
    PROVE  KeyHeld(a, s)'
<1>1. CASE \E r \in mail : r.acct = a /\ r.kind = "KEY" /\ r.seq = s
  BY ZenonT(30), <1>1, MailMoves DEF KeyHeld
<1>2. ASSUME NEW i \in DOMAIN pending, i.kind = "KEY", i.seq = s, a \in i.rcpts PROVE KeyHeld(a, s)'
  <2>1. Kept(i)
    BY ZenonT(60), SMTT(30), <1>2, PendingKept DEF StageInv
  <2> QED
    BY ZenonT(30), SMTT(30), <1>2, <2>1 DEF Kept, Delivered, Part, KeyHeld
<1> QED
  BY ZenonT(30), SMTT(30), <1>1, <1>2 DEF KeyHeld

MsgHeld(a, m) == HasMail(a, "MSG", pubs[m].seq, m) \/ Waiting(a, "MSG", m)

LEMMA MsgHeldKept ==
    ASSUME StageInv, PublishInv, CoverInv, Next \/ UNCHANGED vars, ~Crash,
           NEW a, NEW m \in Messages, pubs[m] # NoMessage, MsgHeld(a, m)
    PROVE  MsgHeld(a, m)'
<1>0. pubs'[m] = pubs[m]
  BY Zenon, SMTT(30), PubsKept
<1>1. CASE HasMail(a, "MSG", pubs[m].seq, m)
  BY Zenon, SMTT(30), <1>0, <1>1, MailMoves DEF MsgHeld, HasMail
<1>2. ASSUME NEW i \in DOMAIN pending, i.kind = "MSG", i.tag = m, a \in i.rcpts PROVE MsgHeld(a, m)'
  <2>1. Kept(i)
    BY ZenonT(60), <1>2, PendingKept DEF StageInv
  <2>2. i.seq = pubs'[m].seq
    BY ZenonT(60), <1>0, <1>2 DEF PublishInv, Accepted, Ids
  <2> QED
    BY ZenonT(30), <1>2, <2>1, <2>2 DEF Kept, Delivered, Part, MsgHeld, HasMail, Waiting
<1> QED
  BY Zenon, <1>1, <1>2 DEF MsgHeld, Waiting

(* HandleFanout acknowledges a batch when all of it is in mailboxes.       *)
LEMMA AcksStep ==
    ASSUME CoverInv, Next \/ UNCHANGED vars
    PROVE  \A d \in acks' : \A a \in d.id.rcpts : HasMail(a, d.id.kind, d.id.seq, d.id.tag)'
<1>1. ASSUME NEW d \in routed, NEW room, HandleFanout(d, room), NEW e \in acks', e \notin acks,
             NEW a \in e.id.rcpts
      PROVE  HasMail(a, e.id.kind, e.id.seq, e.id.tag)'
  <2>1. e = d /\ MailRecord(a, d) \in mail'
    BY ZenonT(60), <1>1 DEF HandleFanout
  <2> QED
    BY ZenonT(60), <2>1 DEF HasMail, MailRecord
<1>2. (\E d \in routed : \E room \in SUBSET Writable(d) : HandleFanout(d, room)) \/ acks' = acks
  BY ZenonT(60)  DEF Next, vars, netVars, CreateTopic, RequestJoin, RejectJoin, RequestLeave, StageCommit, PersistCommit,
       PersistFails, ReadRecipients, SendTopicMessage, SavePublish, SavePublishFails, StartRetry, RefreshPending,
       handleDeliveryAck, Rebind, SyncBinding, Flush, Crash
<1>3. ASSUME NEW e \in acks, NEW a \in e.id.rcpts PROVE HasMail(a, e.id.kind, e.id.seq, e.id.tag)'
  BY ZenonT(60), <1>3, MailMoves DEF CoverInv, HasMail
<1> QED
  BY ZenonT(60), <1>1, <1>2, <1>3

LEMMA StagedCovered ==
    ASSUME StageInv, CoverInv, Next \/ UNCHANGED vars, crashes' = 0,
           NEW st \in stage', NEW a \in st.commit.rcpts
    PROVE  KeyHeld(a, st.commit.new)'
<1>0. crashes = 0 /\ ~Crash
  BY ZenonT(60), FaultStep
<1>1. ASSUME NEW c \in OfferedCommits, StageCommit(c) PROVE KeyHeld(a, st.commit.new)'
  <2> DEFINE dlvs == Resolve(KeyPayload(c), view[Host])
  <2>1. st.commit = c /\ pending' = SavePending(pending, dlvs)
    BY SMTT(30), <1>1 DEF StageCommit
  <2>2. PICK d \in dlvs : a \in d.id.rcpts
    BY ZenonT(60), <2>1, ResolveCovers, KeyPayloadFacts
  <2>3. d.id.kind = "KEY" /\ d.id.seq = c.new
    BY SMTT(30), ResolveParts, KeyPayloadFacts DEF Part
  <2> HIDE DEF dlvs
  <2>4. DOMAIN SavePending(pending, dlvs) = DOMAIN pending \cup {e.id : e \in dlvs}
    BY Zenon, ZenonT(60), StoreDomains
  <2> QED
    BY ZenonT(60), SMTT(30), <2>1, <2>2, <2>3, <2>4 DEF KeyHeld
<1>2. CASE UNCHANGED <<stage, topic, issued>>
  <2>1. ~PersistFails
    BY ZenonT(60), <1>2 DEF PersistFails
  <2>2. KeyHeld(a, st.commit.new)
    BY ZenonT(30), <1>0, <1>2 DEF CoverInv
  <2> QED
    BY ZenonT(60), SMTT(30), <1>0, <2>1, <2>2, KeyHeldKept
<1> QED
  BY Zenon, <1>1, <1>2, StageMoves

LEMMA KeysCoveredStep ==
    ASSUME TopicInv, StageInv, CoverInv, Next \/ UNCHANGED vars
    PROVE  KeysCovered'
<1> SUFFICES ASSUME crashes' = 0, NEW s \in 2 .. topic'.keySeq, NEW a \in issued'[s] PROVE KeyHeld(a, s)'
  BY Zenon DEF KeysCovered, KeyHeld
<1>0. crashes = 0 /\ ~Crash
  BY ZenonT(60), FaultStep
<1>1. topic.keySeq \in Nat /\ Len(issued) = topic.keySeq /\ issued \in Seq(SUBSET Accounts)
  BY Zenon DEF TopicInv, Topic
<1>2. ASSUME s \in 2 .. topic.keySeq, issued'[s] = issued[s] PROVE KeyHeld(a, s)'
  <2>1. KeyHeld(a, s)
    BY ZenonT(30), <1>0, <1>2 DEF CoverInv, KeysCovered, KeyHeld
  <2>2. \A st \in stage : st.commit.new # s
    BY SMTT(60), <1>1, <1>2, PersistFacts
  <2> QED
    BY ZenonT(60), SMTT(30), <1>0, <2>1, <2>2, KeyHeldKept
<1>3. CASE CreateTopic
  BY SMTT(60), <1>3, CreatedFacts DEF CreateTopic
<1>4. CASE Requested
  <2>1. topic'.keySeq = topic.keySeq
    BY SMTT(60), <1>4, RequestFacts DEF Requested, TopicInv
  <2> QED
    BY ZenonT(60), <1>2, <1>4, <2>1 DEF Requested
<1>5. CASE TopicKept
  BY ZenonT(60), SMTT(30), <1>2, <1>5 DEF TopicKept
<1>6. CASE PersistCommit
  <2>1. PICK st \in stage : topic' = st.candidate /\ issued' = Append(issued, st.commit.rcpts)
    BY ZenonT(60), SMTT(30), <1>6 DEF PersistCommit
  <2>2. topic'.keySeq = topic.keySeq + 1 /\ st.commit.new = topic.keySeq + 1
    BY ZenonT(30), <2>1, PersistFacts
  <2>3. CASE s \in 2 .. topic.keySeq
    BY SMTT(60), <1>1, <1>2, <2>1, <2>3
  <2>4. CASE s = topic.keySeq + 1
    <3>1. a \in st.commit.rcpts
      BY SMTT(30), <1>1, <2>1, <2>4
    <3>2. KeyHeld(a, s)
      BY ZenonT(60), <1>0, <2>2, <2>4, <3>1 DEF CoverInv
    <3>3. mail' = mail /\ pending' = pending
      BY ZenonT(30), <1>6 DEF PersistCommit, storeVars
    <3> QED
      BY ZenonT(60), SMTT(30), <3>2, <3>3 DEF KeyHeld
  <2> QED
    BY SMTT(30), <1>1, <2>2, <2>3, <2>4
<1> QED
  BY ZenonT(60), <1>3, <1>4, <1>5, <1>6, TopicMoves

LEMMA AckedStep ==
    ASSUME TopicInv, StageInv, PublishInv, CoverInv, Next \/ UNCHANGED vars
    PROVE  /\ acked' \in [Messages -> SUBSET Accounts]
           /\ \A m \in Messages : acked'[m] # {} => pubs'[m] # NoMessage
           /\ AckedCovered'
<1>0. /\ acked \in [Messages -> SUBSET Accounts]
      /\ \A m \in Messages : acked[m] # {} => pubs[m] # NoMessage
      /\ crashes' = 0 => crashes = 0 /\ ~Crash
  BY ZenonT(30), FaultStep DEF CoverInv
<1>1. ASSUME NEW m \in Messages, NEW a \in acked[m], crashes' = 0 PROVE MsgHeld(a, m)'
  <2>1. MsgHeld(a, m) /\ pubs[m] # NoMessage
    BY ZenonT(30), SMTT(30), <1>0, <1>1 DEF CoverInv, AckedCovered, MsgHeld
  <2> QED
    BY ZenonT(60), SMTT(30), <1>0, <1>1, <2>1, MsgHeldKept
<1>2. CASE acked' = acked
  BY ZenonT(60), <1>0, <1>1, <1>2, PubsKept DEF AckedCovered, MsgHeld
<1>3. ASSUME NEW h \in handling, SavePublish(h)
      PROVE  /\ acked' \in [Messages -> SUBSET Accounts]
             /\ \A m \in Messages : acked'[m] # {} => pubs'[m] # NoMessage
             /\ AckedCovered'
  <2>1. Accepted(h.msg, h.seq, h.rcpts)
    BY ZenonT(30) DEF PublishInv
  <2>2. h.msg \in Messages /\ pubs[h.msg] # NoMessage
    BY ZenonT(30), <2>1 DEF Accepted
  <2>3. h.rcpts \subseteq Accounts
    BY SMTT(60), <2>1 DEF Accepted, GivenKey, TopicInv
  <2>4. acked' = [acked EXCEPT ![h.msg] = @ \cup h.rcpts]
    BY ZenonT(30), <1>3 DEF SavePublish
  <2>5. \A m \in Messages : acked'[m] = IF m = h.msg THEN acked[m] \cup h.rcpts ELSE acked[m]
    BY ZenonT(30), <1>0, <2>4
  <2>6. ASSUME NEW a \in h.rcpts PROVE Waiting(a, "MSG", h.msg)'
    <3>1. PICK o \in Orders(h.rcpts) :
            pending' = SavePending(pending, Resolve(Payload("MSG", h.seq, h.msg, h.rcpts, o), view[Host]))
      BY ZenonT(30), ZenonT(30), <1>3 DEF SavePublish
    <3> DEFINE P == Payload("MSG", h.seq, h.msg, h.rcpts, o)
               dlvs == Resolve(P, view[Host])
    <3>2. P.kind = "MSG" /\ P.tag = h.msg /\ P.rcpts = h.rcpts
      BY ZenonT(30) DEF Payload
    <3> HIDE DEF P
    <3>3. PICK d \in dlvs : a \in d.id.rcpts
      BY ZenonT(60), SMTT(30), <3>2, ResolveCovers
    <3>4. d.id.kind = "MSG" /\ d.id.tag = h.msg
      BY ZenonT(30), SMTT(30), <3>2, ResolveParts DEF Part
    <3>5. pending' = SavePending(pending, dlvs)
      BY ZenonT(30), SMTT(30), <3>1 DEF P
    <3> HIDE DEF dlvs
    <3>6. DOMAIN SavePending(pending, dlvs) = DOMAIN pending \cup {e.id : e \in dlvs}
      BY ZenonT(30), StoreDomains
    <3> QED
      BY ZenonT(60), <3>3, <3>4, <3>5, <3>6 DEF Waiting
  <2>7. acked' \in [Messages -> SUBSET Accounts]
    BY ZenonT(60), <1>0, <2>2, <2>3, <2>4
  <2>8. \A m \in Messages : acked'[m] # {} => pubs'[m] # NoMessage
    BY ZenonT(60), <1>0, <2>2, <2>5, PubsKept
  <2>9. AckedCovered'
    BY ZenonT(60), <1>1, <2>2, <2>5, <2>6 DEF AckedCovered, MsgHeld
  <2> QED
    BY ZenonT(60), SMTT(30), <2>7, <2>8, <2>9
<1>4. (\E h \in handling : SavePublish(h)) \/ acked' = acked
  BY ZenonT(60) DEF Next, vars, pubVars, CreateTopic, RequestJoin, RejectJoin, RequestLeave, StageCommit, PersistCommit,
       PersistFails, ReadRecipients, SendTopicMessage, SavePublishFails, StartRetry, RefreshPending,
       HandleFanout, handleDeliveryAck, Rebind, SyncBinding, Flush, Crash
<1> QED
  BY ZenonT(60), SMTT(30), <1>2, <1>3, <1>4

LEMMA CoverStep ==
    ASSUME TopicInv, StageInv, PublishInv, CoverInv, Next \/ UNCHANGED vars
    PROVE  CoverInv'
BY ZenonT(60), AcksStep, StagedCovered, KeysCoveredStep, AckedStep DEF CoverInv

-----------------------------------------------------------------------------

LEMMA InitInv == Init => IInv
<1> SUFFICES ASSUME Init PROVE IInv
  BY ZenonT(30)
<1> USE TopicAssumption
<1>1. TopicInv
  <2>1. topic = EmptyTopic /\ issued = <<>>
    BY ZenonT(30), SMTT(30) DEF Init
  <2>2. topic \in Topic /\ topic.keySeq = 0
    BY ZenonT(30), SMTT(30), <2>1 DEF EmptyTopic, Topic, TopicMember, Statuses, NoMember
  <2> QED
    BY SMTT(60), <2>1, <2>2 DEF TopicInv
<1>2. StageInv
  BY ZenonT(30), SMTT(30) DEF Init, StageInv
<1>3. Ids = {}
  BY ZenonT(30), SMTT(30) DEF Init, Ids, EmptyStore
<1>4. PublishInv
  BY ZenonT(30), SMTT(30), <1>3 DEF Init, PublishInv
<1>5. KeyInv
  BY ZenonT(60), SMTT(30), <1>3 DEF Init, KeyInv, NoFutureKey
<1>6. KeysCovered
  BY SMTT(60) DEF Init, KeysCovered, EmptyTopic
<1>7. CoverInv
  BY ZenonT(60), <1>6 DEF Init, CoverInv, AckedCovered
<1> QED
  BY ZenonT(60), <1>1, <1>2, <1>4, <1>5, <1>7 DEF IInv

LEMMA NextInv == IInv /\ [Next]_vars => IInv'
BY ZenonT(60), TopicStep, StageStep, PublishStep, KeyStep, CoverStep DEF IInv

(* Every reachable state of the service satisfies the invariant.           *)
THEOREM InvariantHolds == Spec => []IInv
BY InitInv, NextInv, PTL DEF Spec

(* NoFutureKey: no key package is on the network before the membership     *)
(* change it belongs to is in the catalog, although the retry loop and the *)
(* next life of a crashed host see the packages of a staged commit.        *)
THEOREM AlwaysNoFutureKey == Spec => []NoFutureKey
<1>1. IInv => NoFutureKey
  BY ZenonT(60) DEF IInv, KeyInv
<1> QED
  BY <1>1, InvariantHolds, PTL

(* OneKeyPerSeq: while catalog writes succeed and the host stays up, no    *)
(* two topic keys of one key sequence are on the network, however commits  *)
(* race and deliveries are regrouped.                                      *)
THEOREM AlwaysOneKeyPerSeq == Spec => []OneKeyPerSeq
<1>1. IInv => OneKeyPerSeq
  BY ZenonT(60)  DEF IInv, KeyInv, OneKeyPerSeq, SeqHasOneKey, Ids
<1> QED
  BY <1>1, InvariantHolds, PTL

(* KeysToHolders: a key package is filed only for accounts the commit of   *)
(* its sequence named as key holders.                                      *)
THEOREM AlwaysKeysToHolders == Spec => []KeysToHolders
<1>1. IInv => KeysToHolders
  BY ZenonT(60), SMTT(30) DEF IInv, KeyInv, KeysToHolders, GivenKey
<1> QED
  BY <1>1, InvariantHolds, PTL

(* MessagesToHolders: a message is filed only for accounts that were given *)
(* the key it was published under, whatever fails, crashes or moves        *)
(* between handlePublish's read of the members and the delivery.           *)
THEOREM AlwaysMessagesToHolders == Spec => []MessagesToHolders
<1>1. IInv => MessagesToHolders
  BY ZenonT(60) DEF IInv, PublishInv, MessagesToHolders, GivenKey
<1> QED
  BY <1>1, InvariantHolds, PTL

(* KeysCovered: whoever a committed change issued the key to has it in a   *)
(* mailbox or in a pending delivery, through regroupings, acknowledgements *)
(* and rollbacks, while the host stays up.                                 *)
THEOREM AlwaysKeysCovered == Spec => []KeysCovered
<1>1. IInv => KeysCovered
  BY ZenonT(30) DEF IInv, CoverInv
<1> QED
  BY <1>1, InvariantHolds, PTL

(* AckedCovered: the same for the recipients of every publish that was     *)
(* acknowledged with OK.                                                   *)
THEOREM AlwaysAckedCovered == Spec => []AckedCovered
<1>1. IInv => AckedCovered
  BY ZenonT(30), SMTT(30) DEF IInv, CoverInv
<1> QED
  BY <1>1, InvariantHolds, PTL

(* The rules of the abstract level are the rules of this one.              *)
LEMMA SameRules ==
    ASSUME NEW t, NEW a, NEW c
    PROVE  /\ Abstract!EmptyTopic = EmptyTopic /\ Abstract!CreatedTopic = CreatedTopic
           /\ Abstract!Exists(t) <=> Exists(t)
           /\ Abstract!MayRequestJoin(t, a) <=> MayRequestJoin(t, a)
           /\ Abstract!MayRejectJoin(t, a) <=> MayRejectJoin(t, a)
           /\ Abstract!MayRequestLeave(t, a) <=> MayRequestLeave(t, a)
           /\ Abstract!JoinRequested(t, a) = JoinRequested(t, a)
           /\ Abstract!JoinRejected(t, a) = JoinRejected(t, a)
           /\ Abstract!LeaveRequested(t, a) = LeaveRequested(t, a)
           /\ Abstract!Candidate(t, c) = Candidate(t, c)
           /\ Abstract!CommitAllowed(t, c) <=> CommitAllowed(t, c)
<1>1. Abstract!EmptyTopic = EmptyTopic
  BY ZenonT(30)  DEF Abstract!EmptyTopic, EmptyTopic, Abstract!NoMember, NoMember
<1>2. Abstract!CreatedTopic = CreatedTopic
  BY ZenonT(30), <1>1 DEF Abstract!CreatedTopic, CreatedTopic
<1>3. Abstract!Exists(t) <=> Exists(t)
  BY ZenonT(30)  DEF Abstract!Exists, Exists
<1>4. /\ Abstract!MayRequestJoin(t, a) <=> MayRequestJoin(t, a)
      /\ Abstract!MayRejectJoin(t, a) <=> MayRejectJoin(t, a)
      /\ Abstract!MayRequestLeave(t, a) <=> MayRequestLeave(t, a)
  BY ZenonT(30), <1>3 DEF Abstract!MayRequestJoin, MayRequestJoin, Abstract!MayRejectJoin, MayRejectJoin,
       Abstract!MayRequestLeave, MayRequestLeave
<1>5. /\ Abstract!JoinRequested(t, a) = JoinRequested(t, a)
      /\ Abstract!JoinRejected(t, a) = JoinRejected(t, a)
      /\ Abstract!LeaveRequested(t, a) = LeaveRequested(t, a)
  BY ZenonT(30)  DEF Abstract!JoinRequested, JoinRequested, Abstract!JoinRejected, JoinRejected,
       Abstract!LeaveRequested, LeaveRequested
<1>6. Abstract!Candidate(t, c) = Candidate(t, c)
  BY ZenonT(30)  DEF Abstract!Candidate, Candidate, Abstract!ChangedMember, ChangedMember, Abstract!ChangedCount, ChangedCount
<1>7. ASSUME NEW u PROVE Abstract!topicKeyHolderAccounts(u) = topicKeyHolderAccounts(u)
  BY ZenonT(30)  DEF Abstract!topicKeyHolderAccounts, topicKeyHolderAccounts, Abstract!topicMemberHoldsCurrentKey,
       topicMemberHoldsCurrentKey
<1>8. Abstract!ChangeAllowed(t, c) <=> ChangeAllowed(t, c)
  BY ZenonT(30)  DEF Abstract!ChangeAllowed, ChangeAllowed, Abstract!AddAllowed, AddAllowed,
       Abstract!topicMemberHoldsCurrentKey, topicMemberHoldsCurrentKey
<1>9. Abstract!CommitAllowed(t, c) <=> CommitAllowed(t, c)
  <2>1. Abstract!topicKeyHolderAccounts(Abstract!Candidate(t, c)) = topicKeyHolderAccounts(Candidate(t, c))
    BY ZenonT(30), <1>6, <1>7
  <2>2. Abstract!IsExactReplay(t, c) <=> IsExactReplay(t, c)
    BY ZenonT(30)  DEF Abstract!IsExactReplay, IsExactReplay
  <2>3. \A S : Abstract!Cardinality(S) = Cardinality(S)
    BY ZenonT(30) DEF Abstract!Cardinality, Cardinality
  <2> QED
    BY ZenonT(60), <1>3, <1>6, <1>8, <2>1, <2>2, <2>3 DEF Abstract!CommitAllowed, CommitAllowed
<1> QED
  BY ZenonT(60), <1>1, <1>2, <1>3, <1>4, <1>5, <1>6, <1>9

(* The service implements TopicMembership: a staged commit, its rollback,  *)
(* deliveries and crashes are stuttering steps there, and a persisted      *)
(* commit is CommitMembershipChange.                                       *)
LEMMA AbstractNext ==
    ASSUME IInv, Next \/ UNCHANGED vars
    PROVE  AbstractStep \/ UNCHANGED <<topic, issued>>
<1>1. CASE CreateTopic
  <2>1. Abstract!CreateTopic
    BY ZenonT(60), <1>1, SameRules DEF CreateTopic, Abstract!CreateTopic
  <2> QED
    BY ZenonT(30), SMTT(30), <2>1 DEF AbstractStep, Abstract!Next
<1>2. CASE Requested
  <2>1. \E a \in Accounts : Abstract!RequestJoin(a) \/ Abstract!RejectJoin(a) \/ Abstract!RequestLeave(a)
    BY ZenonT(30), <1>2, SameRules DEF Requested, Abstract!RequestJoin, Abstract!RejectJoin, Abstract!RequestLeave
  <2> QED
    BY SMTT(30), <2>1 DEF AbstractStep, Abstract!Next
<1>3. CASE PersistCommit
  <2>1. PICK st \in stage : topic' = st.candidate /\ issued' = Append(issued, st.commit.rcpts)
    BY ZenonT(30), SMTT(30), <1>3 DEF PersistCommit
  <2> DEFINE c == st.commit
  <2>2. c \in Commit /\ c.new <= MaxKeySeq /\ CommitAllowed(topic, c) /\ st.candidate = Candidate(topic, c)
    BY ZenonT(30) DEF IInv, StageInv
  <2>3. c.new = topic.keySeq + 1 /\ c.base = topic.keySeq /\ topic.keySeq \in Nat /\ MaxKeySeq \in Nat
    BY ZenonT(30), <2>2, ServiceAssumption DEF CommitAllowed, IInv, TopicInv, Topic
  <2>4. c = [change |-> c.change, issuer |-> c.issuer, target |-> c.target, base |-> c.base, new |-> c.base + 1,
             key |-> c.key, rcpts |-> c.rcpts]
    BY ZenonT(60), <2>2, <2>3 DEF Commit
  <2>5. c.base \in 0 .. MaxKeySeq
    BY SMTT(60), <2>2, <2>3
  <2>6. c \in Abstract!SignedCommits
    BY SMTT(60), <2>2, <2>4, <2>5 DEF Abstract!SignedCommits, Abstract!Changes, Changes, Commit
  <2>7. Abstract!CommitMembershipChange(c)
    BY SMTT(60), <2>1, <2>2, <2>3, SameRules DEF Abstract!CommitMembershipChange
  <2> QED
    BY ZenonT(60), SMTT(30), <2>6, <2>7 DEF AbstractStep, Abstract!Next
<1>4. CASE TopicKept
  BY ZenonT(30), <1>4 DEF TopicKept
<1> QED
  BY ZenonT(60), <1>1, <1>2, <1>3, <1>4, TopicMoves

(* Implements: membership seen from outside the service is TopicMembership *)
(* with every operation one atomic step.                                   *)
THEOREM RefinesMembership == Spec => Implements
<1>1. Init => Abstract!Init
  BY ZenonT(30), SMTT(30), SameRules DEF Init, Abstract!Init
<1>2. IInv /\ [Next]_vars => [AbstractStep]_<<topic, issued>>
  BY ZenonT(30), AbstractNext
<1> QED
  BY <1>1, <1>2, InvariantHolds, PTL DEF Spec, Implements
=============================================================================
