---------------------------- MODULE TopicMembership ----------------------------
(***************************************************************************)
(* What a Topic's Service CoreNode promises about membership and keys, with *)
(* every operation of TopicManager one atomic step: the abstract level that *)
(* TopicService implements.  issued is a history variable: issued[s] is the *)
(* set of accounts the commit of key sequence s carried a key package for.  *)
(***************************************************************************)
EXTENDS TopicRules

CONSTANT MaxKeySeq    \* bound: commits explored

ASSUME MaxKeySeqAssumption == MaxKeySeq \in Nat

VARIABLES
    topic,     \* the managed topic, EmptyTopic before CreateTopic
    issued     \* history: recipients of each key sequence's packages

vars == <<topic, issued>>

(* The topic has its type, and every key sequence it went through was issued *)
(* by exactly one commit: KeySeq counts CommitMembershipChange's successes.  *)
TypeOK ==
    /\ topic \in Topic
    /\ issued \in Seq(SUBSET Accounts)
    /\ Len(issued) = topic.keySeq

Init ==
    /\ topic = EmptyTopic
    /\ issued = <<>>

-----------------------------------------------------------------------------

CreateTopic ==
    /\ ~Exists(topic)
    /\ topic' = CreatedTopic
    /\ issued' = <<{Owner}>>

RequestJoin(a) ==
    /\ MayRequestJoin(topic, a)
    /\ topic' = JoinRequested(topic, a)
    /\ UNCHANGED issued

RejectJoin(a) ==
    /\ MayRejectJoin(topic, a)
    /\ topic' = JoinRejected(topic, a)
    /\ UNCHANGED issued

RequestLeave(a) ==
    /\ MayRequestLeave(topic, a)
    /\ topic' = LeaveRequested(topic, a)
    /\ UNCHANGED issued

CommitMembershipChange(c) ==
    /\ topic.keySeq < MaxKeySeq
    /\ CommitAllowed(topic, c)
    /\ topic' = Candidate(topic, c)
    /\ issued' = Append(issued, c.rcpts)

(* A signed commit always has new = base + 1: the signing hash refuses any  *)
(* other.                                                                   *)
SignedCommits ==
    {[change |-> ch, issuer |-> i, target |-> g, base |-> b, new |-> b + 1, key |-> k, rcpts |-> r] :
        ch \in Changes, i \in Accounts, g \in Accounts \cup {NoAccount},
        b \in 0 .. MaxKeySeq, k \in Keys, r \in SUBSET Accounts}

(* The owner has a commit of this change that the service would accept.      *)
CanCommit(change, target) ==
    \E k \in Keys, r \in SUBSET Accounts :
        CommitAllowed(topic, [change |-> change, issuer |-> Owner, target |-> target,
                              base |-> topic.keySeq, new |-> topic.keySeq + 1, key |-> k, rcpts |-> r])

Next ==
    \/ CreateTopic
    \/ \E a \in Accounts : RequestJoin(a) \/ RejectJoin(a) \/ RequestLeave(a)
    \/ \E c \in SignedCommits : CommitMembershipChange(c)

Spec == Init /\ [][Next]_vars

-----------------------------------------------------------------------------
(* Properties.                                                              *)

(* A saved topic can always be loaded again: validateTopicSnapshot, which   *)
(* recounts the key holders at restart and fails the whole catalog when one *)
(* topic disagrees with its MemberCount, accepts every topic the operations *)
(* can produce.                                                             *)
SnapshotLoads == Exists(topic) => validateTopicSnapshot(topic)

(* However joins, rejections, leaves and commits follow one another, the    *)
(* number of key holders never exceeds MaxMembers, although RequestJoin     *)
(* lets more accounts wait than there is room for.                          *)
MembersBounded == Cardinality(topicKeyHolderAccounts(topic)) <= MaxMembers

(* Forward and backward secrecy as the membership records state it: a       *)
(* current key holder was given every key since JoinedSeq and not the one   *)
(* before it, and a removed member was given no key from LeftSeq on.        *)
KeyIntervals ==
    \A a \in Accounts : LET m == topic.members[a] IN
        /\ topicMemberHoldsCurrentKey(m) =>
             /\ m.joined \in 1 .. topic.keySeq
             /\ \A s \in m.joined .. topic.keySeq : a \in issued[s]
             /\ m.joined > 1 => a \notin issued[m.joined - 1]
        /\ (m.status \in {"LEFT", "BANNED"} /\ m.left # 0) =>
             \A s \in m.left .. topic.keySeq : a \notin issued[s]

(* Only a membership commit changes who holds the key, and it raises the    *)
(* key sequence by one: no join, rejection, leave or rejoin slips through.  *)
HolderStep ==
    topicKeyHolderAccounts(topic') # topicKeyHolderAccounts(topic)
        => topic'.keySeq = topic.keySeq + 1 /\ issued' = Append(issued, topicKeyHolderAccounts(topic'))

HoldersChangeByCommit == [][HolderStep]_vars

(* No request is left hanging for want of a commit that would be accepted:  *)
(* the owner can always rotate the key, remove a member that asked to leave *)
(* and, while there is room, add one that asked to join.  The recount of    *)
(* key holders in CommitMembershipChange never refuses such a commit.       *)
RequestsCanBeCommitted ==
    (Exists(topic) /\ Keys # {}) =>
        \A a \in Accounts :
            /\ CanCommit("ROTATE", NoAccount)
            /\ topic.members[a].status = "PENDING_LEAVE" => CanCommit("REMOVE", a)
            /\ (topic.members[a].status = "PENDING_JOIN" /\ topic.count < MaxMembers)
                 => CanCommit("ADD", a)

(* A ban is for ever: no sequence of requests and commits brings a banned   *)
(* account back.                                                            *)
BanStep ==
    \A a \in Accounts : topic.members[a].status = "BANNED" => topic'.members[a].status = "BANNED"

BannedForever == [][BanStep]_vars
=============================================================================
