------------------------- MODULE TopicMembershipProofs -------------------------
(***************************************************************************)
(* The safety properties of TopicMembership hold for any finite set of     *)
(* accounts, any MaxMembers and any number of commits.                     *)
(***************************************************************************)
EXTENDS TopicMembership, FiniteSetTheorems, TLAPS

(* The shape of the topic a permitted commit leaves behind.                 *)
LEMMA CandidateFacts ==
    ASSUME NEW t \in Topic, NEW c \in Commit, ChangeAllowed(t, c), c.new = t.keySeq + 1
    PROVE  /\ Candidate(t, c) \in Topic
           /\ Candidate(t, c).keySeq = t.keySeq + 1
           /\ \A a \in Accounts \ {c.target} : Candidate(t, c).members[a] = t.members[a]
           /\ c.target \in Accounts =>
                Candidate(t, c).members[c.target] = ChangedMember(t.members[c.target], c)
<1> USE TopicAssumption
<1>1. c.change \in Changes /\ c.target \in Accounts \cup {NoAccount} /\ c.new \in Nat /\ t.keySeq \in Nat
  BY Zenon DEF Commit, Topic
<1>2. ASSUME NEW m \in TopicMember PROVE ChangedMember(m, c) \in TopicMember
  BY Zenon, <1>1, <1>2 DEF TopicMember, ChangedMember, Statuses, Changes
<1>3. \A a \in Accounts : t.members[a] \in TopicMember
  BY Zenon DEF Topic
<1>4. Candidate(t, c).members \in [Accounts -> TopicMember]
  BY Zenon, <1>2, <1>3 DEF Candidate
<1>5. Candidate(t, c).count \in Nat
  <2>1. t.count \in Nat
    BY Zenon DEF Topic
  <2>2. c.change \in {"REMOVE", "KICK", "BAN"} => t.count > 1
    BY Zenon DEF ChangeAllowed, AddAllowed
  <2> QED
    BY <1>1, <2>1, <2>2 DEF Candidate, ChangedCount, Changes
<1>6. Candidate(t, c) \in Topic
  BY Zenon, <1>1, <1>4, <1>5 DEF Candidate, Topic
<1> QED
  BY Zenon, <1>1, <1>6 DEF Candidate

(* The member counter follows the key holders through any permitted change, *)
(* so the recount in CommitMembershipChange never refuses one.              *)
LEMMA RecountAgrees ==
    ASSUME NEW t \in Topic, NEW c \in Commit, ChangeAllowed(t, c), c.new = t.keySeq + 1,
           t.count = Cardinality(topicKeyHolderAccounts(t))
    PROVE  Cardinality(topicKeyHolderAccounts(Candidate(t, c))) = Candidate(t, c).count
<1> DEFINE H == topicKeyHolderAccounts(t)
           d == Candidate(t, c)
           G == topicKeyHolderAccounts(d)
<1> USE TopicAssumption
<1>1. IsFiniteSet(H)
  <2>1. H \subseteq Accounts
    BY Zenon DEF topicKeyHolderAccounts
  <2> QED
    BY Zenon, <2>1, FS_Subset
<1>2. /\ \A a \in Accounts \ {c.target} : d.members[a] = t.members[a]
      /\ c.target \in Accounts => d.members[c.target] = ChangedMember(t.members[c.target], c)
  BY Zenon, CandidateFacts
<1>3. d.count = ChangedCount(t.count, c) /\ c.change \in Changes /\ t.count \in Nat
  BY Zenon DEF Candidate, Commit, Topic
<1>4. CASE c.change = "ADD"
  <2>1. c.target \in Accounts /\ c.target \notin H
    BY Zenon, <1>4 DEF ChangeAllowed, AddAllowed, topicKeyHolderAccounts, topicMemberHoldsCurrentKey
  <2>2. G = H \cup {c.target}
    BY <1>2, <1>4, <2>1 DEF topicKeyHolderAccounts, topicMemberHoldsCurrentKey, ChangedMember
  <2>3. d.count = t.count + 1
    BY Zenon, <1>3, <1>4 DEF ChangedCount
  <2>4. Cardinality(H \cup {c.target}) = Cardinality(H) + 1
    BY Zenon, <1>1, <2>1, FS_AddElement
  <2> QED
    BY Zenon, <2>2, <2>3, <2>4
<1>5. CASE c.change \in {"REMOVE", "KICK", "BAN"}
  <2>1. c.target \in H
    BY Zenon, <1>5 DEF ChangeAllowed, AddAllowed, topicKeyHolderAccounts, topicMemberHoldsCurrentKey
  <2>2. d.members[c.target].status \in {"LEFT", "BANNED"}
    <3>1. t.members[c.target] \in TopicMember /\ c.target \in Accounts
      BY Zenon, <2>1 DEF Topic, topicKeyHolderAccounts
    <3> QED
      BY ZenonT(30), <1>2, <1>5, <3>1 DEF ChangedMember, TopicMember
  <2>3. G = H \ {c.target}
    BY Zenon, <1>2, <2>1, <2>2 DEF topicKeyHolderAccounts, topicMemberHoldsCurrentKey
  <2>4. d.count = t.count - 1
    BY Zenon, <1>3, <1>5 DEF ChangedCount
  <2> QED
    <3>1. Cardinality(H \ {c.target}) = Cardinality(H) - 1
      BY Zenon, <1>1, <2>1, FS_RemoveElement
    <3> QED
      BY Zenon, <2>3, <2>4, <3>1
<1>6. CASE c.change = "ROTATE"
  <2>1. c.target \notin Accounts
    BY Zenon, <1>6 DEF ChangeAllowed, AddAllowed
  <2>2. G = H
    BY Zenon, <1>2, <2>1 DEF topicKeyHolderAccounts
  <2> QED
    BY Zenon, <1>3, <1>6, <2>2 DEF ChangedCount
<1> QED
  BY Zenon, <1>3, <1>4, <1>5, <1>6 DEF Changes
-----------------------------------------------------------------------------
(* The inductive invariant.  Beyond the properties themselves it needs that *)
(* the last issued set is the current key-holder set (which carries the key *)
(* intervals through a commit), that only the owner has the owner role (or  *)
(* a commit could remove it), that a waiting account carries no LeftSeq and *)
(* that the counter, not the recount, is bounded.                           *)
IInv ==
    /\ TypeOK
    /\ ~Exists(topic) => topic = EmptyTopic
    /\ Exists(topic) =>
         /\ validateTopicSnapshot(topic)
         /\ topic.count <= MaxMembers
         /\ \A a \in Accounts \ {Owner} : topic.members[a].role # "OWNER"
         /\ \A a \in Accounts : topic.members[a].status = "PENDING_JOIN" => topic.members[a].left = 0
         /\ issued[topic.keySeq] = topicKeyHolderAccounts(topic)
         /\ KeyIntervals

LEMMA SignedCommitsType == SignedCommits \subseteq Commit
BY MaxKeySeqAssumption DEF SignedCommits, Commit

(* CreateTopic establishes the invariant.                                   *)
LEMMA CreateTopicInv == IInv /\ CreateTopic => IInv'
<1> SUFFICES ASSUME IInv, CreateTopic PROVE IInv'
  BY Zenon
<1> USE TopicAssumption
<1>1. topic = EmptyTopic
  BY Zenon DEF IInv, CreateTopic
<1>2. topic' = [members |-> [a \in Accounts |-> IF a = Owner
                               THEN [status |-> "ACTIVE", role |-> "OWNER", joined |-> 1, left |-> 0]
                               ELSE NoMember],
                count |-> 1, keySeq |-> 1, last |-> NoCommit]
  BY Zenon  DEF CreateTopic, CreatedTopic, EmptyTopic
<1>3. issued' = <<{Owner}>>
  BY Zenon DEF CreateTopic
<1>4. TypeOK'
  BY <1>2, <1>3 DEF TypeOK, Topic, TopicMember, Statuses, NoMember
<1>5. topicKeyHolderAccounts(topic') = {Owner}
  BY Zenon, <1>2 DEF topicKeyHolderAccounts, topicMemberHoldsCurrentKey, NoMember
<1>6. Cardinality({Owner}) = 1
  BY Zenon, FS_Singleton
<1>7. validateTopicSnapshot(topic') /\ topic'.count <= MaxMembers
  BY <1>2, <1>5, <1>6 DEF validateTopicSnapshot
<1>8. KeyIntervals'
  BY <1>2, <1>3 DEF KeyIntervals, topicMemberHoldsCurrentKey, NoMember
<1>9. /\ \A a \in Accounts \ {Owner} : topic'.members[a].role # "OWNER"
      /\ \A a \in Accounts : topic'.members[a].status = "PENDING_JOIN" => topic'.members[a].left = 0
      /\ issued'[topic'.keySeq] = topicKeyHolderAccounts(topic')
  BY Zenon, <1>2, <1>3, <1>5 DEF NoMember
<1> QED
  BY SMTT(60), <1>2, <1>4, <1>7, <1>8, <1>9 DEF IInv, Exists

(* RequestJoin, RejectJoin and RequestLeave change one record, in a way     *)
(* that leaves the set of key holders, and each holder's JoinedSeq, alone.  *)
LEMMA RequestInv ==
    ASSUME IInv, NEW a \in Accounts, RequestJoin(a) \/ RejectJoin(a) \/ RequestLeave(a)
    PROVE  IInv'
<1> USE TopicAssumption
<1>1. topic \in Topic /\ Exists(topic) /\ issued' = issued
  BY Zenon DEF IInv, TypeOK, RequestJoin, RejectJoin, RequestLeave, MayRequestJoin, MayRejectJoin, MayRequestLeave
<1>2. PICK m \in TopicMember :
        /\ topic' = [topic EXCEPT !.members[a] = m]
        /\ a # Owner
        /\ m.role # "OWNER"
        /\ topicMemberHoldsCurrentKey(m) <=> topicMemberHoldsCurrentKey(topic.members[a])
        /\ topicMemberHoldsCurrentKey(m) => m.joined = topic.members[a].joined
        /\ m.status \in {"PENDING_JOIN", "LEFT", "BANNED"} => m.left = 0
  <2>1. CASE RequestJoin(a)
    <3> DEFINE m == [status |-> "PENDING_JOIN", role |-> "MEMBER", joined |-> 0, left |-> 0]
    <3>1. m \in TopicMember
      BY Zenon DEF TopicMember, Statuses
    <3>2. topic' = [topic EXCEPT !.members[a] = m]
      BY Zenon, <2>1 DEF RequestJoin, JoinRequested
    <3>3. a # Owner /\ ~topicMemberHoldsCurrentKey(topic.members[a])
      BY Zenon, <2>1 DEF RequestJoin, MayRequestJoin, IInv, validateTopicSnapshot, topicMemberHoldsCurrentKey
    <3> QED
      BY Zenon, <3>1, <3>2, <3>3 DEF topicMemberHoldsCurrentKey
  <2>2. CASE RejectJoin(a)
    <3> DEFINE m == [topic.members[a] EXCEPT !.status = "LEFT"]
    <3>0. topic.members[a] \in TopicMember
      BY Zenon, <1>1 DEF Topic
    <3>1. m \in TopicMember
      BY Zenon, <3>0 DEF TopicMember, Statuses
    <3>2. topic' = [topic EXCEPT !.members[a] = m]
      BY Zenon, <2>2 DEF RejectJoin, JoinRejected
    <3>3. topic.members[a].status = "PENDING_JOIN"
      BY Zenon, <2>2 DEF RejectJoin, MayRejectJoin
    <3>4. a # Owner /\ topic.members[a].role # "OWNER"
      BY Zenon, <1>1, <3>3 DEF IInv, validateTopicSnapshot
    <3>5. topic.members[a].status = "PENDING_JOIN" => topic.members[a].left = 0
      BY Zenon, <1>1 DEF IInv
    <3> QED
      BY Zenon, <3>0, <3>1, <3>2, <3>3, <3>4, <3>5 DEF topicMemberHoldsCurrentKey, TopicMember
  <2>3. CASE RequestLeave(a)
    <3> DEFINE st == IF topic.members[a].status = "PENDING_JOIN" THEN "LEFT" ELSE "PENDING_LEAVE"
               m  == [topic.members[a] EXCEPT !.status = st]
    <3>0. topic.members[a] \in TopicMember
      BY Zenon, <1>1 DEF Topic
    <3>1. m \in TopicMember
      BY Zenon, <3>0 DEF TopicMember, Statuses
    <3>2. topic' = [topic EXCEPT !.members[a] = m]
      BY Zenon, <2>3 DEF RequestLeave, LeaveRequested
    <3>3. topic.members[a].status \in {"PENDING_JOIN", "ACTIVE"} /\ topic.members[a].role # "OWNER"
      BY Zenon, <2>3 DEF RequestLeave, MayRequestLeave
    <3>4. a # Owner
      BY Zenon, <1>1, <3>3 DEF IInv, validateTopicSnapshot
    <3>5. topic.members[a].status = "PENDING_JOIN" => topic.members[a].left = 0
      BY Zenon, <1>1 DEF IInv
    <3> QED
      BY ZenonT(60), <3>0, <3>1, <3>2, <3>3, <3>4, <3>5 DEF topicMemberHoldsCurrentKey, TopicMember
  <2> QED
    BY Zenon, <2>1, <2>2, <2>3
<1>3. /\ topic' \in Topic
      /\ topic'.keySeq = topic.keySeq /\ topic'.count = topic.count
      /\ topic'.members = [topic.members EXCEPT ![a] = m]
  BY Zenon, <1>1, <1>2 DEF Topic
<1>4. TypeOK'
  BY Zenon, <1>1, <1>3 DEF IInv, TypeOK
<1>5. topicKeyHolderAccounts(topic') = topicKeyHolderAccounts(topic)
  BY Zenon, <1>1, <1>2, <1>3 DEF topicKeyHolderAccounts, Topic
<1>6. validateTopicSnapshot(topic') /\ topic'.count <= MaxMembers
  BY Zenon, <1>1, <1>2, <1>3, <1>5 DEF IInv, validateTopicSnapshot, Topic
<1>7. /\ \A b \in Accounts \ {Owner} : topic'.members[b].role # "OWNER"
      /\ \A b \in Accounts : topic'.members[b].status = "PENDING_JOIN" => topic'.members[b].left = 0
  BY ZenonT(60), <1>1, <1>2, <1>3 DEF IInv, Topic
<1>8. issued'[topic'.keySeq] = topicKeyHolderAccounts(topic')
  BY Zenon, <1>1, <1>3, <1>5 DEF IInv
<1>9. KeyIntervals'
  <2> SUFFICES ASSUME NEW b \in Accounts
               PROVE  /\ topicMemberHoldsCurrentKey(topic'.members[b]) =>
                          /\ topic'.members[b].joined \in 1 .. topic'.keySeq
                          /\ \A s \in topic'.members[b].joined .. topic'.keySeq : b \in issued'[s]
                          /\ topic'.members[b].joined > 1 => b \notin issued'[topic'.members[b].joined - 1]
                      /\ (topic'.members[b].status \in {"LEFT", "BANNED"} /\ topic'.members[b].left # 0) =>
                          \A s \in topic'.members[b].left .. topic'.keySeq : b \notin issued'[s]
    BY Zenon DEF KeyIntervals
  <2>1. CASE b = a
    BY ZenonT(60), <1>1, <1>2, <1>3, <2>1 DEF IInv, KeyIntervals, Topic, topicMemberHoldsCurrentKey
  <2>2. CASE b # a
    BY ZenonT(60), <1>1, <1>3, <2>2 DEF IInv, KeyIntervals, Topic
  <2> QED
    BY Zenon, <2>1, <2>2
<1> QED
  BY Zenon, <1>1, <1>3, <1>4, <1>6, <1>7, <1>8, <1>9 DEF IInv, Exists

(* CommitMembershipChange: the guard's recount gives the loadable snapshot, *)
(* and the recipients, being exactly the new key holders, extend every key  *)
(* interval by one.                                                         *)
LEMMA CommitInv ==
    ASSUME IInv, NEW c \in Commit, CommitMembershipChange(c)
    PROVE  IInv'
<1> USE TopicAssumption
<1> DEFINE K == topic.keySeq
<1>1. /\ topic \in Topic /\ Exists(topic) /\ K \in Nat \ {0}
      /\ issued \in Seq(SUBSET Accounts) /\ Len(issued) = K
  BY Zenon DEF IInv, TypeOK, CommitMembershipChange, CommitAllowed, Exists, Topic
<1>2. /\ ChangeAllowed(topic, c) /\ c.new = K + 1
      /\ topic' = Candidate(topic, c)
      /\ topic'.count = Cardinality(topicKeyHolderAccounts(topic'))
      /\ c.rcpts = topicKeyHolderAccounts(topic')
      /\ issued' = Append(issued, c.rcpts)
  BY Zenon DEF CommitMembershipChange, CommitAllowed
<1>3. /\ topic' \in Topic /\ topic'.keySeq = K + 1
      /\ \A a \in Accounts \ {c.target} : topic'.members[a] = topic.members[a]
      /\ c.target \in Accounts =>
           topic'.members[c.target] = ChangedMember(topic.members[c.target], c)
  BY Zenon, <1>1, <1>2, CandidateFacts
<1>4. /\ issued' \in Seq(SUBSET Accounts) /\ Len(issued') = K + 1
      /\ \A s \in 1 .. K : issued'[s] = issued[s]
      /\ issued'[K + 1] = topicKeyHolderAccounts(topic')
  <2>1. c.rcpts \in SUBSET Accounts
    BY Zenon DEF Commit
  <2> QED
    BY <1>1, <1>2, <2>1
<1>5. c.change \in Changes /\ c.target \in Accounts \cup {NoAccount}
  BY Zenon DEF Commit
<1>6. c.target # Owner
  BY Zenon, <1>1, <1>2 DEF IInv, validateTopicSnapshot, ChangeAllowed, AddAllowed
<1>7. validateTopicSnapshot(topic')
  BY <1>1, <1>2, <1>3, <1>6 DEF IInv, validateTopicSnapshot
<1>8. topic'.count <= MaxMembers
  <2>1. topic'.count = ChangedCount(topic.count, c)
    BY Zenon, <1>2 DEF Candidate
  <2>2. topic.count \in Nat /\ topic.count <= MaxMembers
    BY Zenon, <1>1 DEF IInv, Topic
  <2>3. c.change = "ADD" => topic.count < MaxMembers
    BY Zenon, <1>2 DEF ChangeAllowed, AddAllowed
  <2> QED
    BY <1>5, <2>1, <2>2, <2>3 DEF ChangedCount, Changes
<1>9. ASSUME NEW a \in Accounts, a = c.target
      PROVE  /\ topic'.members[a].role # "OWNER"
             /\ topic'.members[a].status \in {"ACTIVE", "LEFT", "BANNED"}
             /\ topic'.members[a].status = "ACTIVE" =>
                  topic'.members[a].joined = K + 1 /\ ~topicMemberHoldsCurrentKey(topic.members[a])
             /\ topic'.members[a].status # "ACTIVE" => topic'.members[a].left = K + 1
  <2>1. topic'.members[a] = ChangedMember(topic.members[a], c) /\ topic.members[a] \in TopicMember
    BY Zenon, <1>1, <1>3, <1>9 DEF Topic
  <2>2. topic.members[a].role # "OWNER" /\ c.change # "ROTATE"
    BY Zenon, <1>1, <1>2, <1>6, <1>9 DEF IInv, ChangeAllowed, AddAllowed
  <2>3. c.change = "ADD" => topic.members[a].status = "PENDING_JOIN"
    BY Zenon, <1>2, <1>9 DEF ChangeAllowed, AddAllowed
  <2> QED
    BY SMTT(60), <1>2, <1>5, <2>1, <2>2, <2>3 DEF ChangedMember, TopicMember, topicMemberHoldsCurrentKey, Changes
<1>10. /\ \A a \in Accounts \ {Owner} : topic'.members[a].role # "OWNER"
       /\ \A a \in Accounts : topic'.members[a].status = "PENDING_JOIN" => topic'.members[a].left = 0
  BY Zenon, <1>1, <1>3, <1>9 DEF IInv
<1>11. KeyIntervals'
  <2> SUFFICES ASSUME NEW a \in Accounts
               PROVE  /\ topicMemberHoldsCurrentKey(topic'.members[a]) =>
                          /\ topic'.members[a].joined \in 1 .. topic'.keySeq
                          /\ \A s \in topic'.members[a].joined .. topic'.keySeq : a \in issued'[s]
                          /\ topic'.members[a].joined > 1 => a \notin issued'[topic'.members[a].joined - 1]
                      /\ (topic'.members[a].status \in {"LEFT", "BANNED"} /\ topic'.members[a].left # 0) =>
                          \A s \in topic'.members[a].left .. topic'.keySeq : a \notin issued'[s]
    BY Zenon DEF KeyIntervals
  <2>1. a \in issued'[K + 1] <=> topicMemberHoldsCurrentKey(topic'.members[a])
    BY Zenon, <1>4 DEF topicKeyHolderAccounts
  <2>2. a \in issued[K] <=> topicMemberHoldsCurrentKey(topic.members[a])
    BY Zenon, <1>1 DEF IInv, topicKeyHolderAccounts
  <2>3. CASE a = c.target
    <3>1. topicMemberHoldsCurrentKey(topic'.members[a]) => topic'.members[a].status = "ACTIVE"
      BY Zenon, <1>9, <2>3 DEF topicMemberHoldsCurrentKey
    <3>2. ASSUME topicMemberHoldsCurrentKey(topic'.members[a])
          PROVE  topic'.members[a].joined = K + 1 /\ a \in issued'[K + 1] /\ a \notin issued'[K]
      <4>1. topic'.members[a].joined = K + 1 /\ ~topicMemberHoldsCurrentKey(topic.members[a])
        BY Zenon, <1>9, <2>3, <3>1, <3>2
      <4>2. K \in 1 .. K
        BY <1>1
      <4>3. issued'[K] = issued[K]
        BY Zenon, <1>4, <4>2
      <4> QED
        BY Zenon, <2>1, <2>2, <3>2, <4>1, <4>3
    <3>3. ASSUME topic'.members[a].status \in {"LEFT", "BANNED"}
          PROVE  topic'.members[a].left = K + 1 /\ a \notin issued'[K + 1]
      BY Zenon, <1>9, <2>1, <2>3, <3>1, <3>3
    <3> QED
      BY SMTT(60), <1>1, <1>3, <3>2, <3>3
  <2>4. CASE a # c.target
    <3>1. topic'.members[a] = topic.members[a] /\ topic.members[a].joined \in Nat /\ topic.members[a].left \in Nat
      BY Zenon, <1>1, <1>3, <2>4 DEF Topic, TopicMember
    <3>2. topicMemberHoldsCurrentKey(topic.members[a]) =>
             /\ topic.members[a].joined \in 1 .. K
             /\ \A s \in topic.members[a].joined .. K : a \in issued[s]
             /\ topic.members[a].joined > 1 => a \notin issued[topic.members[a].joined - 1]
      BY Zenon, <1>1 DEF IInv, KeyIntervals
    <3>3. (topic.members[a].status \in {"LEFT", "BANNED"} /\ topic.members[a].left # 0) =>
             \A s \in topic.members[a].left .. K : a \notin issued[s]
      BY Zenon, <1>1 DEF IInv, KeyIntervals
    <3>4. topic.members[a].status \in {"LEFT", "BANNED"} => ~topicMemberHoldsCurrentKey(topic.members[a])
      BY Zenon DEF topicMemberHoldsCurrentKey
    <3>5. ASSUME topicMemberHoldsCurrentKey(topic'.members[a])
          PROVE  /\ topic'.members[a].joined \in 1 .. topic'.keySeq
                 /\ \A s \in topic'.members[a].joined .. topic'.keySeq : a \in issued'[s]
                 /\ topic'.members[a].joined > 1 => a \notin issued'[topic'.members[a].joined - 1]
      <4> DEFINE j == topic.members[a].joined
      <4>1. j \in 1 .. K /\ topic'.members[a].joined = j
        BY ZenonT(60), <3>1, <3>2, <3>5
      <4>2. \A s \in j .. K : s \in 1 .. K /\ a \in issued[s]
        BY SMTT(60), <1>1, <3>1, <3>2, <3>5, <4>1
      <4>3. \A s \in j .. K + 1 : s \in j .. K \/ s = K + 1
        BY <1>1, <4>1
      <4>4. \A s \in j .. K + 1 : a \in issued'[s]
        BY ZenonT(60), <1>4, <2>1, <3>5, <4>2, <4>3
      <4>5. j > 1 => a \notin issued'[j - 1]
        <5>1. j > 1 => j - 1 \in 1 .. K
          BY SMTT(60), <1>1, <4>1
        <5> QED
          BY ZenonT(60), <1>4, <3>1, <3>2, <3>5, <5>1
      <4>6. j \in 1 .. K + 1
        BY <1>1, <4>1
      <4> QED
        BY Zenon, <1>3, <4>1, <4>4, <4>5, <4>6
    <3>6. ASSUME topic'.members[a].status \in {"LEFT", "BANNED"}, topic'.members[a].left # 0,
                 NEW s \in topic'.members[a].left .. topic'.keySeq
          PROVE  a \notin issued'[s]
      <4>1. s = K + 1 \/ (s \in topic.members[a].left .. K /\ s \in 1 .. K)
        BY SMTT(60), <1>1, <1>3, <3>1, <3>6
      <4>2. s \in topic.members[a].left .. K => a \notin issued[s]
        BY Zenon, <3>1, <3>3, <3>6
      <4> QED
        BY ZenonT(60), <1>4, <2>1, <3>1, <3>4, <3>6, <4>1, <4>2
    <3> QED
      BY Zenon, <3>5, <3>6
  <2> QED
    BY Zenon, <2>3, <2>4
<1>12. TypeOK'
  BY Zenon, <1>3, <1>4 DEF TypeOK
<1> QED
  BY <1>1, <1>3, <1>4, <1>7, <1>8, <1>10, <1>11, <1>12 DEF IInv, Exists

(* IInv is an invariant of TopicMembership.                                 *)
THEOREM MembershipInvariant == Spec => []IInv
<1>1. Init => IInv
  <2> SUFFICES ASSUME Init PROVE IInv
    BY Zenon
  <2>1. TypeOK
    BY TopicAssumption DEF Init, TypeOK, EmptyTopic, Topic, TopicMember, Statuses, NoMember
  <2> QED
    BY Zenon, <2>1 DEF Init, IInv, EmptyTopic, Exists
<1>2. IInv /\ [Next]_vars => IInv'
  <2> SUFFICES ASSUME IInv, [Next]_vars PROVE IInv'
    BY Zenon
  <2>1. CASE CreateTopic
    BY Zenon, <2>1, CreateTopicInv
  <2>2. CASE \E a \in Accounts : RequestJoin(a) \/ RejectJoin(a) \/ RequestLeave(a)
    BY Zenon, <2>2, RequestInv
  <2>3. CASE \E c \in SignedCommits : CommitMembershipChange(c)
    BY Zenon, <2>3, CommitInv, SignedCommitsType
  <2>4. CASE UNCHANGED vars
    BY Zenon, <2>4 DEF vars, IInv, TypeOK, KeyIntervals
  <2> QED
    BY Zenon, <2>1, <2>2, <2>3, <2>4 DEF Next
<1> QED
  BY <1>1, <1>2, PTL DEF Spec

-----------------------------------------------------------------------------

(* Every saved topic passes validateTopicSnapshot, so a restart can load    *)
(* the catalog that CreateTopic, the requests and the commits leave.        *)
THEOREM SnapshotAlwaysLoads == Spec => []SnapshotLoads
<1>1. IInv => SnapshotLoads
  BY Zenon DEF IInv, SnapshotLoads
<1> QED
  BY <1>1, MembershipInvariant, PTL

(* No interleaving of joins and commits exceeds MaxMembers key holders.     *)
THEOREM MembersAlwaysBounded == Spec => []MembersBounded
<1>1. IInv => MembersBounded
  <2> SUFFICES ASSUME IInv PROVE MembersBounded
    BY Zenon
  <2>1. CASE Exists(topic)
    BY Zenon, <2>1 DEF IInv, MembersBounded, validateTopicSnapshot
  <2>2. CASE ~Exists(topic)
    <3>1. topicKeyHolderAccounts(topic) = {}
      BY SMTT(60), <2>2 DEF IInv, EmptyTopic, NoMember, topicKeyHolderAccounts, topicMemberHoldsCurrentKey
    <3> QED
      BY SMTT(60), <3>1, FS_EmptySet, TopicAssumption DEF MembersBounded
  <2> QED
    BY Zenon, <2>1, <2>2
<1> QED
  BY <1>1, MembershipInvariant, PTL

(* JoinedSeq and LeftSeq delimit exactly the keys a member was given: none  *)
(* from before it joined, none from its removal on.                         *)
THEOREM KeyIntervalsHold == Spec => []KeyIntervals
<1>1. IInv => KeyIntervals
  BY SMTT(60) DEF IInv, KeyIntervals, EmptyTopic, NoMember, topicMemberHoldsCurrentKey
<1> QED
  BY <1>1, MembershipInvariant, PTL

(* The key holders change only by a commit that raises KeySeq by one and    *)
(* carries a package for each holder it leaves.                             *)
THEOREM HoldersChangeOnlyByCommit == Spec => HoldersChangeByCommit
<1>1. IInv /\ [Next]_vars => [HolderStep]_vars
  <2> SUFFICES ASSUME IInv, Next PROVE HolderStep
    BY Zenon
  <2>1. CASE CreateTopic
    <3>1. topic = EmptyTopic /\ issued = <<>>
      <4>1. topic = EmptyTopic
        BY Zenon, <2>1 DEF IInv, CreateTopic
      <4>2. Len(issued) = 0 /\ issued \in Seq(SUBSET Accounts)
        BY Zenon, <4>1 DEF IInv, TypeOK, EmptyTopic
      <4> QED
        BY <4>1, <4>2
    <3>2. /\ topic'.keySeq = 1
          /\ topic'.members = [a \in Accounts |-> IF a = Owner
                 THEN [status |-> "ACTIVE", role |-> "OWNER", joined |-> 1, left |-> 0]
                 ELSE NoMember]
      BY Zenon, <2>1, TopicAssumption DEF CreateTopic, CreatedTopic, EmptyTopic
    <3>3. topicKeyHolderAccounts(topic') = {Owner}
      BY <3>2, TopicAssumption DEF topicKeyHolderAccounts, topicMemberHoldsCurrentKey, NoMember
    <3>4. topic.keySeq = 0 /\ Append(issued, {Owner}) = <<{Owner}>>
      BY <3>1 DEF EmptyTopic
    <3> QED
      BY SMTT(60), <2>1, <3>2, <3>3, <3>4 DEF CreateTopic, HolderStep
  <2>2. ASSUME NEW a \in Accounts, RequestJoin(a) \/ RejectJoin(a) \/ RequestLeave(a) PROVE HolderStep
    <3>1. topic \in Topic
      BY Zenon DEF IInv, TypeOK
    <3>2. \A b \in Accounts : topicMemberHoldsCurrentKey(topic'.members[b])
                               <=> topicMemberHoldsCurrentKey(topic.members[b])
      <4>1. CASE RequestJoin(a)
        BY Zenon, <3>1, <4>1 DEF RequestJoin, MayRequestJoin, JoinRequested, topicMemberHoldsCurrentKey, Topic, TopicMember
      <4>2. CASE RejectJoin(a)
        BY ZenonT(30), <3>1, <4>2 DEF RejectJoin, MayRejectJoin, JoinRejected, topicMemberHoldsCurrentKey, Topic, TopicMember
      <4>3. CASE RequestLeave(a)
        BY ZenonT(60), <3>1, <4>3 DEF RequestLeave, MayRequestLeave, LeaveRequested, topicMemberHoldsCurrentKey, Topic, TopicMember
      <4> QED
        BY Zenon, <2>2, <4>1, <4>2, <4>3
    <3> QED
      BY Zenon, <3>2 DEF topicKeyHolderAccounts, HolderStep
  <2>3. ASSUME NEW c \in SignedCommits, CommitMembershipChange(c) PROVE HolderStep
    BY Zenon, <2>3 DEF CommitMembershipChange, CommitAllowed, Candidate, HolderStep
  <2> QED
    BY Zenon, <2>1, <2>2, <2>3 DEF Next
<1> QED
  BY <1>1, MembershipInvariant, PTL DEF Spec, HoldersChangeByCommit

(* No request and no commit ever takes a ban back.                          *)
THEOREM BanIsForever == Spec => BannedForever
<1>1. IInv /\ [Next]_vars => [BanStep]_vars
  <2> SUFFICES ASSUME IInv, Next, NEW a \in Accounts, topic.members[a].status = "BANNED"
               PROVE  topic'.members[a].status = "BANNED"
    BY Zenon DEF BanStep
  <2>0. topic \in Topic
    BY Zenon DEF IInv, TypeOK
  <2>1. CASE CreateTopic
    BY <2>1 DEF IInv, CreateTopic, EmptyTopic, NoMember
  <2>2. ASSUME NEW b \in Accounts, RequestJoin(b) \/ RejectJoin(b) \/ RequestLeave(b)
        PROVE  topic'.members[a].status = "BANNED"
    <3>1. CASE RequestJoin(b)
      BY Zenon, <2>0, <3>1 DEF RequestJoin, MayRequestJoin, JoinRequested, Topic
    <3>2. CASE RejectJoin(b)
      BY Zenon, <2>0, <3>2 DEF RejectJoin, MayRejectJoin, JoinRejected, Topic
    <3>3. CASE RequestLeave(b)
      BY Zenon, <2>0, <3>3 DEF RequestLeave, MayRequestLeave, LeaveRequested, Topic
    <3> QED
      BY Zenon, <2>2, <3>1, <3>2, <3>3
  <2>3. ASSUME NEW c \in SignedCommits, CommitMembershipChange(c)
        PROVE  topic'.members[a].status = "BANNED"
    <3>1. a # c.target
      BY Zenon, <2>3, TopicAssumption DEF CommitMembershipChange, CommitAllowed, ChangeAllowed, AddAllowed, topicMemberHoldsCurrentKey
    <3> QED
      BY Zenon, <2>3, <3>1 DEF CommitMembershipChange, Candidate
  <2> QED
    BY Zenon, <2>1, <2>2, <2>3 DEF Next
<1> QED
  BY <1>1, MembershipInvariant, PTL DEF Spec, BannedForever

(* Whatever has happened, the owner can rotate the key, remove whoever asked *)
(* to leave and, while there is room, add whoever asked to join.             *)
THEOREM RequestsAlwaysCommittable == Spec => []RequestsCanBeCommitted
<1>1. IInv => RequestsCanBeCommitted
  <2> SUFFICES ASSUME IInv, Exists(topic), NEW k \in Keys, NEW a \in Accounts
               PROVE  /\ CanCommit("ROTATE", NoAccount)
                      /\ topic.members[a].status = "PENDING_LEAVE" => CanCommit("REMOVE", a)
                      /\ (topic.members[a].status = "PENDING_JOIN" /\ topic.count < MaxMembers)
                           => CanCommit("ADD", a)
    BY Zenon DEF RequestsCanBeCommitted
  <2> DEFINE C(ch, g, r) == [change |-> ch, issuer |-> Owner, target |-> g, base |-> topic.keySeq,
                             new |-> topic.keySeq + 1, key |-> k, rcpts |-> r]
  <2>1. /\ topic \in Topic
        /\ topic.keySeq \in Nat
        /\ topic.count = Cardinality(topicKeyHolderAccounts(topic))
        /\ topic.members[Owner].status = "ACTIVE"
        /\ topic.members[Owner].role = "OWNER"
    BY Zenon DEF IInv, TypeOK, validateTopicSnapshot, Topic
  <2>2. ASSUME NEW ch \in Changes, NEW g \in Accounts \cup {NoAccount},
               \A r \in SUBSET Accounts : ChangeAllowed(topic, C(ch, g, r))
        PROVE  CanCommit(ch, g)
    <3> DEFINE r == topicKeyHolderAccounts(Candidate(topic, C(ch, g, {})))
               c == C(ch, g, r)
    <3>1. r \in SUBSET Accounts
      BY Zenon DEF topicKeyHolderAccounts
    <3>2. c \in Commit /\ ChangeAllowed(topic, c) /\ c.new = topic.keySeq + 1
      <4> HIDE DEF r
      <4>1. topic.keySeq + 1 \in Nat
        BY <2>1
      <4> QED
        BY ZenonT(60), <2>1, <2>2, <3>1, <4>1, TopicAssumption DEF Commit
    <3>3. topicKeyHolderAccounts(Candidate(topic, c)) = r
      <4>1. \A m : ChangedMember(m, c) = ChangedMember(m, C(ch, g, {}))
        BY Zenon DEF ChangedMember
      <4>2. Candidate(topic, c).members = Candidate(topic, C(ch, g, {})).members
        BY ZenonT(60), <4>1 DEF Candidate
      <4> QED
        BY Zenon, <4>2 DEF topicKeyHolderAccounts
    <3>4. Cardinality(topicKeyHolderAccounts(Candidate(topic, c))) = Candidate(topic, c).count
      BY Zenon, SMTT(30), <2>1, <3>2, RecountAgrees
    <3>5. ~IsExactReplay(topic, c)
      BY <2>1 DEF IsExactReplay
    <3>6. CommitAllowed(topic, c)
      BY Zenon, <2>1, <3>2, <3>3, <3>4, <3>5 DEF CommitAllowed
    <3> QED
      BY Zenon, <3>1, <3>6 DEF CanCommit
  <2>3. CanCommit("ROTATE", NoAccount)
    BY Zenon, <2>2 DEF ChangeAllowed, AddAllowed, Changes
  <2>4. ASSUME topic.members[a].status = "PENDING_LEAVE" PROVE CanCommit("REMOVE", a)
    <3>1. a # Owner /\ topic.members[a].role # "OWNER"
      BY Zenon, <2>1, <2>4 DEF IInv
    <3>2. topic.count > 1
      <4>1. {Owner, a} \subseteq topicKeyHolderAccounts(topic)
        BY Zenon, <2>1, <2>4, TopicAssumption DEF topicKeyHolderAccounts, topicMemberHoldsCurrentKey
      <4>2. IsFiniteSet(topicKeyHolderAccounts(topic))
        BY Zenon, TopicAssumption, FS_Subset DEF topicKeyHolderAccounts
      <4>3. IsFiniteSet({Owner}) /\ Cardinality({Owner}) = 1
        BY Zenon, FS_Singleton
      <4>4. Cardinality({Owner} \cup {a}) = Cardinality({Owner}) + 1
        BY Zenon, <3>1, <4>3, FS_AddElement
      <4>5. Cardinality({Owner} \cup {a}) <= Cardinality(topicKeyHolderAccounts(topic))
        BY Zenon, <4>1, <4>2, FS_Subset
      <4>6. topic.count \in Nat /\ topic.count >= 2
        BY SMTT(30), <2>1, <4>3, <4>4, <4>5 DEF Topic
      <4> QED
        BY <4>6
    <3> QED
      BY Zenon, <2>2, <2>4, <3>1, <3>2 DEF ChangeAllowed, AddAllowed, Changes
  <2>5. ASSUME topic.members[a].status = "PENDING_JOIN", topic.count < MaxMembers PROVE CanCommit("ADD", a)
    BY Zenon, <2>2, <2>5 DEF ChangeAllowed, AddAllowed, Changes
  <2> QED
    BY Zenon, <2>3, <2>4, <2>5
<1> QED
  BY <1>1, MembershipInvariant, PTL
=============================================================================
