------------------------------ MODULE TopicRules ------------------------------
(***************************************************************************)
(* The membership rules of one Topic, as TopicManager applies them.  A     *)
(* topic is the record the Service CoreNode keeps in memory and saves to   *)
(* its DKVS catalog: the members, the member counter, the key sequence and *)
(* the last membership commit.  Every rule is an operator on that record;  *)
(* TopicMembership gives the rules one atomic step each, TopicService runs *)
(* them over the delivery store, the network and restarts.                 *)
(*                                                                         *)
(* TopicManager.topics holds independent topics under one lock, so one     *)
(* topic is modelled.  Status of a topic is "ACTIVE" from creation on      *)
(* (nothing in the code changes it); the paid-service authorizer that can  *)
(* refuse any operation leaves the topic as it was, so a refusal is a step *)
(* that does not happen.                                                   *)
(***************************************************************************)
EXTENDS Naturals, Sequences, FiniteSets

CONSTANTS
    Accounts,    \* account identifiers
    Owner,       \* TopicMeta.OwnerAccount
    MaxMembers,  \* TopicMeta.MaxMembers (0 in the request means 1024)
    Keys,        \* the TopicKeys a commit can carry (opaque to the service)
    NoAccount,   \* the empty TargetAccount of a rotation
    NoCommit     \* the empty LastCommitHash

ASSUME TopicAssumption ==
    /\ IsFiniteSet(Accounts)
    /\ Owner \in Accounts
    /\ NoAccount \notin Accounts
    /\ MaxMembers \in Nat \ {0}

-----------------------------------------------------------------------------
(* Members and topics.  "NONE" stands for an account without a record.      *)

Statuses == {"NONE", "PENDING_JOIN", "ACTIVE", "PENDING_LEAVE", "LEFT", "BANNED"}

TopicMember == [status: Statuses, role: {"NONE", "MEMBER", "OWNER"}, joined: Nat, left: Nat]

NoMember == [status |-> "NONE", role |-> "NONE", joined |-> 0, left |-> 0]

Changes == {"ADD", "REMOVE", "KICK", "BAN", "ROTATE"}

(* LastCommitHash is a hash of the whole signed commit, so the commit       *)
(* itself stands for it; the key packages are their recipients and the key. *)
Commit == [change: Changes, issuer: Accounts, target: Accounts \cup {NoAccount},
           base: Nat, new: Nat, key: Keys, rcpts: SUBSET Accounts]

Topic == [members: [Accounts -> TopicMember], count: Nat, keySeq: Nat,
          last: Commit \cup {NoCommit}]

EmptyTopic == [members |-> [a \in Accounts |-> NoMember], count |-> 0, keySeq |-> 0,
               last |-> NoCommit]

Exists(t) == t.keySeq # 0

topicMemberHoldsCurrentKey(m) == m.status \in {"ACTIVE", "PENDING_LEAVE"}

topicMemberCanPublish(m) == m.status = "ACTIVE"

topicKeyHolderAccounts(t) == {a \in Accounts : topicMemberHoldsCurrentKey(t.members[a])}

(* What SetCatalogStore demands of a saved topic when a node starts; one    *)
(* topic that fails it makes the whole message service fail to load.        *)
validateTopicSnapshot(t) ==
    /\ t.keySeq # 0
    /\ t.members[Owner].status = "ACTIVE"
    /\ t.members[Owner].role = "OWNER"
    /\ t.count = Cardinality(topicKeyHolderAccounts(t))

-----------------------------------------------------------------------------
(* The operations: a guard (the code's early returns) and the new topic.    *)

CreatedTopic ==
    [EmptyTopic EXCEPT
        !.members[Owner] = [status |-> "ACTIVE", role |-> "OWNER", joined |-> 1, left |-> 0],
        !.count = 1,
        !.keySeq = 1]

(* Seeded fault: the BANNED case of the status switch is missing.           *)
MayRequestJoinBanned(t, a) ==
    /\ Exists(t)
    /\ t.members[a].status \in {"NONE", "LEFT", "BANNED"}
    /\ t.count < MaxMembers

(* RequestJoin: members and pending members are answered without a change,  *)
(* a banned account is refused, and so is everyone while the topic is full. *)
MayRequestJoin(t, a) ==
    /\ Exists(t)
    /\ t.members[a].status \in {"NONE", "LEFT"}
    /\ t.count < MaxMembers

JoinRequested(t, a) ==
    [t EXCEPT !.members[a] = [status |-> "PENDING_JOIN", role |-> "MEMBER", joined |-> 0, left |-> 0]]

MayRejectJoin(t, a) == Exists(t) /\ t.members[a].status = "PENDING_JOIN"

JoinRejected(t, a) == [t EXCEPT !.members[a].status = "LEFT"]

(* RequestLeave withdraws a pending join at once; an active member keeps    *)
(* the key until a commit removes it.  The owner cannot leave.              *)
MayRequestLeave(t, a) ==
    /\ Exists(t)
    /\ t.members[a].role # "OWNER"
    /\ t.members[a].status \in {"PENDING_JOIN", "ACTIVE"}

(* Seeded fault: an active member leaves without a commit.                  *)
LeaveRequestedAtOnce(t, a) == [t EXCEPT !.members[a].status = "LEFT"]

LeaveRequested(t, a) ==
    [t EXCEPT !.members[a].status = IF @ = "PENDING_JOIN" THEN "LEFT" ELSE "PENDING_LEAVE"]

-----------------------------------------------------------------------------
(* CommitMembershipChange.                                                  *)

IsExactReplay(t, c) == c.new = t.keySeq /\ c = t.last

(* Seeded fault: the capacity check at the join request is trusted.         *)
AddAllowedWhenFull(t, c) ==
    /\ c.change = "ADD"
    /\ c.issuer = Owner
    /\ c.target \in Accounts
    /\ t.members[c.target].status = "PENDING_JOIN"

(* The permission each change type asks for.                                *)
AddAllowed(t, c) ==
    /\ c.change = "ADD"
    /\ c.issuer = Owner
    /\ c.target \in Accounts
    /\ t.members[c.target].status = "PENDING_JOIN"
    /\ t.count < MaxMembers

ChangeAllowed(t, c) ==
    \/ AddAllowed(t, c)
    \/ /\ c.change = "REMOVE"
       /\ c.target \in Accounts \ {c.issuer}
       /\ t.members[c.target].role # "OWNER"
       /\ t.members[c.target].status = "PENDING_LEAVE"
       /\ t.count > 1
    \/ /\ c.change \in {"KICK", "BAN"}
       /\ c.issuer = Owner
       /\ c.target \in Accounts
       /\ t.members[c.target].role # "OWNER"
       /\ topicMemberHoldsCurrentKey(t.members[c.target])
       /\ t.count > 1
    \/ /\ c.change = "ROTATE"
       /\ c.issuer = Owner
       /\ c.target = NoAccount

(* Seeded fault: JoinedSeq is taken from BaseKeySeq.                        *)
ChangedMemberFromBase(m, c) ==
    CASE c.change = "ADD" -> [status |-> "ACTIVE", role |-> "MEMBER", joined |-> c.base, left |-> 0]
      [] c.change = "BAN" -> [m EXCEPT !.status = "BANNED", !.left = c.new]
      [] OTHER            -> [m EXCEPT !.status = "LEFT", !.left = c.new]

ChangedMember(m, c) ==
    CASE c.change = "ADD" -> [status |-> "ACTIVE", role |-> "MEMBER", joined |-> c.new, left |-> 0]
      [] c.change = "BAN" -> [m EXCEPT !.status = "BANNED", !.left = c.new]
      [] OTHER            -> [m EXCEPT !.status = "LEFT", !.left = c.new]

(* Seeded fault: a voluntary removal does not lower MemberCount.            *)
ChangedCountRemoveKept(n, c) ==
    CASE c.change = "ADD"             -> n + 1
      [] c.change \in {"KICK", "BAN"} -> n - 1
      [] OTHER                        -> n

ChangedCount(n, c) ==
    CASE c.change = "ADD"    -> n + 1
      [] c.change = "ROTATE" -> n
      [] OTHER               -> n - 1

(* The candidate topic: membership, counter, key sequence and commit change *)
(* together.                                                                *)
Candidate(t, c) ==
    [members |-> [a \in Accounts |-> IF a = c.target THEN ChangedMember(t.members[a], c)
                                                     ELSE t.members[a]],
     count   |-> ChangedCount(t.count, c),
     keySeq  |-> c.new,
     last    |-> c]

(* Seeded fault: the base key sequence of a commit is not compared.         *)
CommitAllowedAnyBase(t, c) ==
    /\ Exists(t)
    /\ ~IsExactReplay(t, c)
    /\ t.members[c.issuer].status = "ACTIVE"
    /\ ChangeAllowed(t, c)
    /\ Cardinality(topicKeyHolderAccounts(Candidate(t, c))) = Candidate(t, c).count
    /\ c.rcpts = topicKeyHolderAccounts(Candidate(t, c))

(* A commit must build on the current key sequence, be issued by an active  *)
(* member and carry one key package for each key holder it leaves behind.   *)
CommitAllowed(t, c) ==
    /\ Exists(t)
    /\ ~IsExactReplay(t, c)
    /\ c.base = t.keySeq
    /\ c.new = t.keySeq + 1
    /\ t.members[c.issuer].status = "ACTIVE"
    /\ ChangeAllowed(t, c)
    /\ Cardinality(topicKeyHolderAccounts(Candidate(t, c))) = Candidate(t, c).count
    /\ c.rcpts = topicKeyHolderAccounts(Candidate(t, c))
=============================================================================
