-------------------------- MODULE DirectMessageProofs --------------------------
(***************************************************************************)
(* The safety properties of DirectMessage hold for any cores and messages, *)
(* any number of moves, crashes, expiries and deletions, and any           *)
(* duplication, reordering and loss of envelopes and acknowledgements.     *)
(***************************************************************************)
EXTENDS DirectMessage, FiniteSetTheorems, TLAPS

Packets == [msg: Messages, core: Cores]

Records == [Messages -> acceptedMessage \cup {NoRecord}]

(* The variables have their types.                                         *)
TypeOK ==
    /\ signed \in [Messages -> Nat \cup {Unsigned}]
    /\ next \in Nat /\ accepted \in Records /\ flushed \in Nat \X Records
    /\ scan \subseteq [msg: Messages, rec: acceptedMessage]
    /\ routed \subseteq Packets
    /\ acks \subseteq [msg: Messages, core: Cores, status: MessageAckStatus]
    /\ window \in [Cores -> [Messages -> {"none", "pending", "done"}]]
    /\ handlers \subseteq [msg: Messages, core: Cores, step: {"begun", "stored", "failed"}]
    /\ mail \subseteq Packets /\ stored \subseteq Packets
    /\ home \in Cores /\ view \in [Cores -> Cores]
    /\ crashes \in Nat /\ forgets \in Nat /\ prunes \in Nat

(* Every handler owns the pending entry it made in its core's replay       *)
(* window.                                                                 *)
Reserved ==
    /\ \A h \in handlers : window[h.core][h.msg] = "pending"
    /\ \A g, h \in handlers : (g.msg = h.msg /\ g.core = h.core) => g = h

(* What a handler, a replay window or an OK says is in a mailbox was put   *)
(* there.                                                                  *)
SaysStored ==
    /\ \A h \in handlers : h.step = "stored" => Packet(h.msg, h.core) \in stored
    /\ \A c \in Cores, m \in Messages : window[c][m] = "done" => Packet(m, c) \in stored
    /\ AckMeansStored

(* The records of a, in memory or as flushed, are final only where the     *)
(* message was stored.                                                     *)
FinalStored(a) ==
    \A m \in Messages : a[m] # NoRecord => (a[m].final => Packet(m, a[m].target) \in stored)

(* The records of a number the messages 0 .. n - 1, one each.              *)
Kept(a) == {m \in Messages : a[m] # NoRecord}

Numbered(a, n) ==
    /\ {a[m].seq : m \in Kept(a)} = 0 .. n - 1
    /\ IsFiniteSet(Kept(a))
    /\ Cardinality(Kept(a)) = n

(* The messages that were accepted here and may be routed, now or again.   *)
Taken(m) ==
    accepted[m] # NoRecord \/ (\E p \in routed : p.msg = m) \/ (\E x \in scan : x.msg = m)

(* A message that was accepted has a number below next of its own.         *)
OneNumber ==
    /\ \A m \in Messages : Taken(m) => signed[m] \in Nat /\ signed[m] < next
    /\ \A m, n \in Messages : (Taken(m) /\ Taken(n) /\ signed[m] = signed[n]) => m = n

(* While a replay window loses nothing, it remembers what was stored.      *)
Remembered ==
    \A p \in stored :
        \/ window[p.core][p.msg] = "done"
        \/ \E h \in handlers : h.msg = p.msg /\ h.core = p.core /\ h.step = "stored"

(* The recipients' cores, and the sender's core.                           *)
ReceiverInv ==
    /\ Reserved
    /\ SaysStored
    /\ (crashes = 0 /\ forgets = 0) => Remembered

SenderInv ==
    /\ FinalStored(accepted) /\ FinalStored(flushed[2])
    /\ prunes = 0 => Numbered(accepted, next) /\ Numbered(flushed[2], flushed[1])
    /\ crashes = 0 => OneNumber

IInv == TypeOK /\ ReceiverInv /\ SenderInv

-----------------------------------------------------------------------------
(* Types.                                                                  *)

LEMMA Retargeted ==
    ASSUME NEW a \in Records, NEW m \in Messages, a[m] # NoRecord, NEW c \in Cores
    PROVE  /\ [a EXCEPT ![m].target = c] \in Records
           /\ [a EXCEPT ![m].target = c][m] \in acceptedMessage
BY Zenon DEF Records, acceptedMessage

LEMMA Acknowledged ==
    ASSUME NEW a \in Records, NEW m \in Messages, a[m] # NoRecord, NEW st \in MessageAckStatus, NEW f \in BOOLEAN
    PROVE  [a EXCEPT ![m].status = st, ![m].final = f] \in Records
BY ZenonT(30)  DEF Records, acceptedMessage

LEMMA FirstAccepted ==
    ASSUME NEW a \in Records, NEW m \in Messages, NEW c \in Cores, NEW i \in Nat
    PROVE  [a EXCEPT ![m] = [seq |-> i, target |-> c, final |-> FALSE, status |-> "NONE"]] \in Records
BY Zenon DEF Records, acceptedMessage

LEMMA AcceptTypes ==
    ASSUME TypeOK, NEW m \in Messages, NEW c \in Cores, AcceptNew(m, c) \/ AcceptAgain(m, c)
    PROVE  accepted' \in Records /\ next' \in Nat
BY SMTT(60), Retargeted, FirstAccepted DEF AcceptNew, AcceptAgain, TypeOK

LEMMA TypeStep == TypeOK /\ [Next]_vars => TypeOK'
<1> SUFFICES ASSUME TypeOK, [Next]_vars PROVE TypeOK'
  BY Zenon
<1> USE DirectAssumption DEF TypeOK, sendVars, netVars, recvVars, bindVars, faultVars
<1>1. ASSUME NEW m \in Messages, GetNextSenderMsgID(m) PROVE TypeOK'
  BY Zenon, <1>1 DEF GetNextSenderMsgID
<1>2. ASSUME NEW m \in Messages, SendDirectMessage(m) PROVE TypeOK'
  BY SMTT(60), <1>2, AcceptTypes DEF SendDirectMessage, Packet, Packets
<1>3. ASSUME NEW m \in Messages, PruneExpiredDirect(m) PROVE TypeOK'
  BY SMTT(60), <1>3 DEF PruneExpiredDirect, Records
<1>4. ASSUME StartRetry PROVE TypeOK'
  BY <1>4 DEF StartRetry, Records
<1>5. ASSUME NEW x \in scan, RetryPending(x) PROVE TypeOK'
  <2>1. x.msg \in Messages /\ view[SenderCore] \in Cores
    BY Zenon
  <2>2. CASE UNCHANGED accepted
    BY SMTT(60), <1>5, <2>1, <2>2 DEF RetryPending, AcceptAgain, Packet, Packets, Records, acceptedMessage
  <2>3. CASE AcceptAgain(x.msg, view[SenderCore])
    <3>1. accepted' \in Records /\ next' \in Nat
      BY Zenon, <2>1, <2>3, AcceptTypes
    <3>2. accepted'[x.msg] \in acceptedMessage
      BY Zenon, <2>1, <2>3, Retargeted DEF AcceptAgain, Records
    <3>3. accepted'[x.msg].target \in Cores
      BY Zenon, <3>2 DEF acceptedMessage
    <3> QED
      BY SMTT(60), <1>5, <2>1, <3>1, <3>3 DEF RetryPending, Packet, Packets
  <2> QED
    BY Zenon, <1>5, <2>2, <2>3 DEF RetryPending
<1>6. ASSUME NEW k \in acks, MarkAck(k) PROVE TypeOK'
  BY Zenon, <1>6, Acknowledged DEF MarkAck
<1>7. ASSUME NEW p \in routed, RecipientMoved(p) PROVE TypeOK'
  BY SMTT(60), <1>7 DEF RecipientMoved, Ack, Packets, MessageAckStatus
<1>8. ASSUME NEW p \in routed, ReplayBegin(p) PROVE TypeOK'
  <2>1. p.msg \in Messages /\ p.core \in Cores
    BY DEF Packets
  <2>2. /\ \A st \in {"OK", "RETRYABLE"} : Ack(p, st) \in [msg: Messages, core: Cores, status: MessageAckStatus]
        /\ Handler(p, "begun") \in [msg: Messages, core: Cores, step: {"begun", "stored", "failed"}]
    BY <2>1 DEF Ack, Handler, MessageAckStatus
  <2>3. window' \in [Cores -> [Messages -> {"none", "pending", "done"}]]
    <3>1. window' = window \/ window' = [window EXCEPT ![p.core][p.msg] = "pending"]
      BY Zenon, <1>8 DEF ReplayBegin
    <3>2. window \in [Cores -> [Messages -> {"none", "pending", "done"}]]
      BY Zenon
    <3> HIDE DEF TypeOK
    <3> QED
      BY SMTT(60), <2>1, <3>1, <3>2
  <2> QED
    BY SMTT(60), <1>8, <2>2, <2>3 DEF ReplayBegin, sendVars, bindVars, faultVars
<1>9. ASSUME NEW h \in handlers, AppendDirectMessage(h) PROVE TypeOK'
  BY SMTT(60), <1>9 DEF AppendDirectMessage, Handler, Packet, Packets
<1>10. ASSUME NEW h \in handlers, AppendFails(h) PROVE TypeOK'
  BY SMTT(60), <1>10 DEF AppendFails, Handler
<1>11. ASSUME NEW h \in handlers, ReplayFinish(h) PROVE TypeOK'
  BY SMTT(60), <1>11 DEF ReplayFinish, Ack, MessageAckStatus
<1>12. ASSUME NEW c \in Cores, NEW m \in Messages, ForgetReplay(c, m) PROVE TypeOK'
  BY <1>12 DEF ForgetReplay
<1>13. ASSUME NEW p \in mail, DeleteMail(p) PROVE TypeOK'
  BY ZenonT(30), <1>13 DEF DeleteMail
<1>14. ASSUME NEW c \in Cores, Rebind(c) \/ RebindSender(c) \/ SyncBinding(c) \/ SyncSenderBinding(c) PROVE TypeOK'
  BY SMTT(60), <1>14 DEF Rebind, RebindSender, SyncBinding, SyncSenderBinding
<1>15. ASSUME NEW c \in Cores, Crash(c) PROVE TypeOK'
  BY <1>15 DEF Crash
<1>16. ASSUME Flush PROVE TypeOK'
  BY ZenonT(30), <1>16 DEF Flush
<1>17. CASE UNCHANGED vars
  BY Zenon, <1>17 DEF vars
<1>18. QED
  BY Zenon, <1>1, <1>2, <1>3, <1>4, <1>5, <1>6, <1>7, <1>8, <1>9, <1>10, <1>11, <1>12, <1>13, <1>14, <1>15, <1>16, <1>17 DEF Next

-----------------------------------------------------------------------------
(* The recipients' cores.                                                  *)

LEMMA ReceiverStays ==
    ASSUME ReceiverInv, UNCHANGED <<window, handlers, stored, acks, crashes, forgets>>
    PROVE  ReceiverInv'
BY ZenonT(30) DEF ReceiverInv, Reserved, SaysStored, AckMeansStored, Remembered

LEMMA WindowDomain ==
    ASSUME TypeOK
    PROVE  DOMAIN window = Cores /\ \A d \in Cores : DOMAIN window[d] = Messages
BY ZenonT(60) DEF TypeOK

LEMMA ReplayBeginKeeps ==
    ASSUME TypeOK, ReceiverInv, NEW p \in routed, ReplayBegin(p)
    PROVE  ReceiverInv'
<1> USE DEF TypeOK, ReplayBegin, Handler, Ack, Packets, sendVars, bindVars, faultVars
<1>1. p.msg \in Messages /\ p.core \in Cores /\ Packet(p.msg, p.core) = p
  BY Zenon, SMTT(30) DEF Packet
<1>2. Reserved'
  <2>1. CASE UNCHANGED <<window, handlers>>
    BY Zenon, <2>1 DEF ReceiverInv, Reserved
  <2>2. CASE /\ window[p.core][p.msg] = "none"
             /\ window' = [window EXCEPT ![p.core][p.msg] = "pending"]
             /\ handlers' = handlers \cup {Handler(p, "begun")}
    <3>1. /\ window'[p.core][p.msg] = "pending"
          /\ \A c \in Cores, m \in Messages : c # p.core \/ m # p.msg => window'[c][m] = window[c][m]
      BY ZenonT(30), <1>1, <2>2
    <3>2. \A h \in handlers : /\ h.core \in Cores /\ h.msg \in Messages /\ window[h.core][h.msg] = "pending"
                              /\ h.core # p.core \/ h.msg # p.msg
      BY ZenonT(30), <2>2 DEF ReceiverInv, Reserved
    <3>3. Handler(p, "begun").msg = p.msg /\ Handler(p, "begun").core = p.core
      BY Zenon
    <3> HIDE DEF Handler, TypeOK, ReplayBegin
    <3>4. \A h \in handlers' : h \in handlers \/ h = Handler(p, "begun")
      BY Zenon, <2>2
    <3>5. \A h \in handlers' : window'[h.core][h.msg] = "pending"
      <4> SUFFICES ASSUME NEW h \in handlers' PROVE window'[h.core][h.msg] = "pending"
        BY Zenon
      <4>1. CASE h \in handlers
        BY Zenon, <3>1, <3>2, <4>1
      <4>2. CASE h = Handler(p, "begun")
        BY Zenon, <3>1, <3>3, <4>2
      <4> QED
        BY Zenon, <3>4, <4>1, <4>2
    <3>6. \A g, h \in handlers : (g.msg = h.msg /\ g.core = h.core) => g = h
      BY Zenon DEF ReceiverInv, Reserved
    <3>7. \A g, h \in handlers' : (g.msg = h.msg /\ g.core = h.core) => g = h
      BY ZenonT(60), <3>2, <3>3, <3>4, <3>6
    <3> QED
      BY Zenon, <3>5, <3>7 DEF Reserved
  <2> QED
    BY Zenon, <2>1, <2>2
<1>3. SaysStored'
  <2>1. stored' = stored /\ SaysStored
    BY Zenon DEF ReceiverInv
  <2>3. \A c \in Cores, m \in Messages : window'[c][m] = "done" => window[c][m] = "done"
    <3>1. window' = window \/ window' = [window EXCEPT ![p.core][p.msg] = "pending"]
      BY ZenonT(60)
    <3> HIDE DEF TypeOK, ReplayBegin, Handler, Ack, Packets, sendVars, bindVars, faultVars
    <3>2. CASE window' = window
      BY ZenonT(60), <3>2
    <3>3. CASE window' = [window EXCEPT ![p.core][p.msg] = "pending"]
      <4>1. /\ window'[p.core][p.msg] = "pending"
            /\ \A d \in Cores, i \in Messages : (d = p.core /\ i = p.msg) \/ window'[d][i] = window[d][i]
        BY ZenonT(60), <1>1, <3>3, WindowDomain
      <4> QED
        BY ZenonT(60), <4>1
    <3> QED
      BY ZenonT(60), <3>1, <3>2, <3>3
  <2> HIDE DEF TypeOK, ReplayBegin, Handler, Ack, Packets, sendVars, bindVars, faultVars
  <2>a. \A h \in handlers' : h \in handlers \/ h = Handler(p, "begun")
    BY Zenon DEF ReplayBegin
  <2>2. \A h \in handlers' : h \in handlers \/ h.step = "begun"
    <3>1. Handler(p, "begun").step = "begun"
      BY Zenon DEF Handler
    <3> QED
      BY Zenon, <2>a, <3>1
  <2>4. \A k \in acks' : k \in acks \/ (k = Ack(p, "OK") /\ window[p.core][p.msg] = "done") \/ k = Ack(p, "RETRYABLE")
    BY Zenon DEF ReplayBegin
  <2>5. /\ Ack(p, "OK").msg = p.msg /\ Ack(p, "OK").core = p.core
        /\ Ack(p, "RETRYABLE").status = "RETRYABLE"
    BY Zenon DEF Ack
  <2>6. \A h \in handlers' : h.step = "stored" => Packet(h.msg, h.core)' \in stored'
    BY ZenonT(30), <2>1, <2>2 DEF SaysStored, Packet
  <2>7. \A c \in Cores, m \in Messages : window'[c][m] = "done" => Packet(m, c)' \in stored'
    BY ZenonT(30), <2>1, <2>3 DEF SaysStored, Packet
  <2>8. AckMeansStored'
    BY ZenonT(60), <1>1, <2>1, <2>4, <2>5 DEF SaysStored, AckMeansStored, Packet
  <2> QED
    BY Zenon, <2>6, <2>7, <2>8 DEF SaysStored
<1>4. (crashes = 0 /\ forgets = 0 /\ Remembered) => Remembered'
  <2> HIDE DEF TypeOK, ReplayBegin, Handler, Ack, Packets, sendVars, bindVars, faultVars
  <2>1. stored' = stored /\ handlers \subseteq handlers'
    BY ZenonT(60) DEF ReplayBegin
  <2>2. \A q \in stored : q.core \in Cores /\ q.msg \in Messages
    BY ZenonT(60) DEF TypeOK, Packets
  <2>3. \/ window' = window
        \/ window' = [window EXCEPT ![p.core][p.msg] = "pending"] /\ window[p.core][p.msg] = "none"
    BY ZenonT(60) DEF ReplayBegin
  <2>4. \A d \in Cores, i \in Messages : window[d][i] = "done" => window'[d][i] = "done"
    <3>1. CASE window' = window
      BY ZenonT(60), <3>1
    <3>2. CASE window' = [window EXCEPT ![p.core][p.msg] = "pending"] /\ window[p.core][p.msg] = "none"
      <4>1. \A d \in Cores, i \in Messages : (d = p.core /\ i = p.msg) \/ window'[d][i] = window[d][i]
        BY ZenonT(60), <1>1, <3>2, WindowDomain
      <4> QED
        BY ZenonT(60), <3>2, <4>1
    <3> QED
      BY ZenonT(60), <2>3, <3>1, <3>2
  <2> QED
    BY ZenonT(60), <2>1, <2>2, <2>4 DEF Remembered
<1> QED
  BY Zenon, SMTT(30), <1>2, <1>3, <1>4 DEF ReceiverInv

LEMMA AppendKeeps ==
    ASSUME TypeOK, ReceiverInv, NEW h \in handlers, AppendDirectMessage(h) \/ AppendFails(h)
    PROVE  ReceiverInv'
<1> USE DEF TypeOK, AppendDirectMessage, AppendFails, Handler, sendVars, netVars, bindVars, faultVars
<1>1. h.msg \in Messages /\ h.core \in Cores /\ h.step = "begun"
  BY ZenonT(60)
<1>2. Reserved'
  BY SMTT(60), <1>1 DEF ReceiverInv, Reserved
<1>3. SaysStored'
  BY SMTT(30), <1>1 DEF ReceiverInv, SaysStored, AckMeansStored, Packet
<1>4. ASSUME Remembered PROVE Remembered'
  <2> SUFFICES ASSUME NEW q \in stored'
               PROVE  \/ window'[q.core][q.msg] = "done"
                      \/ \E g \in handlers' : g.msg = q.msg /\ g.core = q.core /\ g.step = "stored"
    BY ZenonT(30), SMTT(30) DEF Remembered
  <2>1. CASE q \in stored
    <3>1. ASSUME NEW g \in handlers, g.step = "stored" PROVE g \in handlers'
      BY ZenonT(30), <1>1, <3>1
    <3> QED
      BY ZenonT(30), <1>4, <2>1, <3>1 DEF Remembered
  <2>2. CASE q \notin stored
    <3>1. q.msg = h.msg /\ q.core = h.core /\ Handler(h, "stored") \in handlers'
      BY <2>2 DEF Packet
    <3>2. Handler(h, "stored").msg = h.msg /\ Handler(h, "stored").core = h.core /\ Handler(h, "stored").step = "stored"
      BY Zenon
    <3> HIDE DEF Handler
    <3> QED
      BY ZenonT(30), SMTT(30), <3>1, <3>2
  <2> QED
    BY ZenonT(30), <2>1, <2>2
<1> QED
  BY Zenon, <1>2, <1>3, <1>4 DEF ReceiverInv

LEMMA ReplayFinishKeeps ==
    ASSUME TypeOK, ReceiverInv, NEW h \in handlers, ReplayFinish(h)
    PROVE  ReceiverInv'
<1> USE DEF TypeOK, ReplayFinish, Ack, sendVars, bindVars, faultVars
<1>1. h.msg \in Messages /\ h.core \in Cores
  BY Zenon
<1>2. Reserved'
  BY ZenonT(30), <1>1 DEF ReceiverInv, Reserved
<1>3. SaysStored'
  BY SMTT(30), <1>1 DEF ReceiverInv, SaysStored, AckMeansStored, Packet
<1>4. (crashes = 0 /\ forgets = 0 /\ Remembered) => Remembered'
  <2> HIDE DEF TypeOK, ReplayFinish, Ack, sendVars, bindVars, faultVars
  <2>1. /\ stored' = stored /\ handlers' = handlers \ {h}
        /\ window' = [window EXCEPT ![h.core][h.msg] = IF h.step = "stored" THEN "done" ELSE "none"]
    BY ZenonT(60) DEF ReplayFinish
  <2>2. \A q \in stored : q.core \in Cores /\ q.msg \in Messages
    BY ZenonT(60) DEF TypeOK, Packets
  <2>3. window[h.core][h.msg] = "pending"
    BY ZenonT(60) DEF ReceiverInv, Reserved
  <2>4. /\ window'[h.core][h.msg] = IF h.step = "stored" THEN "done" ELSE "none"
        /\ \A d \in Cores, i \in Messages : (d = h.core /\ i = h.msg) \/ window'[d][i] = window[d][i]
    BY ZenonT(60), <1>1, <2>1, WindowDomain
  <2>5. \A d \in Cores, i \in Messages : window[d][i] = "done" => window'[d][i] = "done"
    BY ZenonT(60), <2>3, <2>4
  <2>6. \A g \in handlers : g \in handlers' \/ g = h
    BY ZenonT(60), <2>1
  <2>7. h.step = "stored" => window'[h.core][h.msg] = "done"
    BY ZenonT(60), <2>4
  <2>8. ASSUME Remembered, NEW q \in stored
        PROVE  \/ window'[q.core][q.msg] = "done"
               \/ \E g \in handlers' : g.msg = q.msg /\ g.core = q.core /\ g.step = "stored"
    <3>1. CASE window[q.core][q.msg] = "done"
      BY ZenonT(60), <2>2, <2>5, <3>1
    <3>2. CASE \E g \in handlers : g.msg = q.msg /\ g.core = q.core /\ g.step = "stored"
      BY ZenonT(60), <2>6, <2>7, <3>2
    <3> QED
      BY ZenonT(60), <2>8, <3>1, <3>2 DEF Remembered
  <2> QED
    BY ZenonT(60), <2>1, <2>8 DEF Remembered
<1> QED
  BY Zenon, <1>2, <1>3, <1>4 DEF ReceiverInv

LEMMA ForgetKeeps ==
    ASSUME TypeOK, ReceiverInv, NEW c \in Cores, NEW m \in Messages, ForgetReplay(c, m)
    PROVE  ReceiverInv'
BY SMTT(60) DEF TypeOK, ForgetReplay, ReceiverInv, Reserved, SaysStored, AckMeansStored, netVars

LEMMA CrashKeeps ==
    ASSUME TypeOK, ReceiverInv, NEW c \in Cores, Crash(c)
    PROVE  ReceiverInv'
BY SMTT(60) DEF TypeOK, Crash, ReceiverInv, Reserved, SaysStored, AckMeansStored, netVars

LEMMA ReceiverStep == TypeOK /\ ReceiverInv /\ [Next]_vars => ReceiverInv'
<1> SUFFICES ASSUME TypeOK, ReceiverInv, [Next]_vars PROVE ReceiverInv'
  BY ZenonT(30), SMTT(30)
<1>1. ASSUME NEW p \in routed, RecipientMoved(p) PROVE ReceiverInv'
  <2>1. /\ acks' = acks \cup {Ack(p, "RETRYABLE")}
        /\ UNCHANGED <<window, handlers, stored, crashes, forgets>>
    BY ZenonT(60), <1>1 DEF RecipientMoved, recvVars, faultVars
  <2>2. Ack(p, "RETRYABLE").status = "RETRYABLE"
    BY ZenonT(60) DEF Ack
  <2>3. AckMeansStored'
    BY ZenonT(60), <2>1, <2>2 DEF ReceiverInv, SaysStored, AckMeansStored
  <2> QED
    BY ZenonT(60), <2>1, <2>3 DEF ReceiverInv, Reserved, SaysStored, Remembered
<1>2. CASE UNCHANGED vars
  BY Zenon, <1>2, ReceiverStays DEF vars
<1>3. CASE Next
  BY Zenon, ZenonT(60), <1>1, <1>3, ReceiverStays, ReplayBeginKeeps, AppendKeeps, ReplayFinishKeeps, ForgetKeeps, CrashKeeps
     DEF Next, GetNextSenderMsgID, SendDirectMessage, PruneExpiredDirect, StartRetry, RetryPending, MarkAck,
         DeleteMail, Rebind, RebindSender, SyncBinding, SyncSenderBinding, Flush, netVars, recvVars, faultVars
<1> QED
  BY Zenon, <1>2, <1>3

-----------------------------------------------------------------------------
(* The sender's core.                                                      *)

LEMMA StoredGrows ==
    ASSUME [Next]_vars
    PROVE  stored \subseteq stored'
BY ZenonT(30)  DEF Next, vars, GetNextSenderMsgID, SendDirectMessage, PruneExpiredDirect, StartRetry, RetryPending, MarkAck,
       RecipientMoved, ReplayBegin, AppendDirectMessage, AppendFails, ReplayFinish, ForgetReplay, DeleteMail,
       Rebind, RebindSender, SyncBinding, SyncSenderBinding, Crash, Flush, recvVars

LEMMA SenderStays ==
    ASSUME SenderInv, UNCHANGED <<sendVars, routed, crashes, prunes>>, stored \subseteq stored'
    PROVE  SenderInv'
BY ZenonT(60) DEF SenderInv, FinalStored, Numbered, Kept, OneNumber, Taken, sendVars

(* A record changes, but not its number.                                   *)
LEMMA NumberStays ==
    ASSUME NEW a \in Records, NEW b \in Records, NEW n \in Nat, Numbered(a, n),
           \A m \in Messages : (a[m] = NoRecord <=> b[m] = NoRecord) /\ (a[m] # NoRecord => a[m].seq = b[m].seq)
    PROVE  Numbered(b, n)
<1>1. Kept(b) = Kept(a)
  BY Zenon DEF Kept
<1>2. {b[m].seq : m \in Kept(b)} = {a[m].seq : m \in Kept(a)}
  BY ZenonT(30), <1>1 DEF Kept
<1> QED
  BY Zenon, <1>1, <1>2 DEF Numbered

(* A record is added, with the next number.                                *)
LEMMA NumberAdded ==
    ASSUME NEW a \in Records, NEW n \in Nat, Numbered(a, n), NEW m \in Messages, a[m] = NoRecord,
           NEW r \in acceptedMessage, r.seq = n
    PROVE  Numbered([a EXCEPT ![m] = r], n + 1)
<1> DEFINE b == [a EXCEPT ![m] = r]
<1>1. Kept(b) = Kept(a) \cup {m}
  BY ZenonT(30), DirectAssumption DEF Kept, Records
<1>2. \A i \in Kept(a) : i # m /\ b[i] = a[i]
  BY DEF Kept, Records
<1>3. b[m] = r
  BY Zenon DEF Records
<1>4. {b[i].seq : i \in Kept(b)} = {a[i].seq : i \in Kept(a)} \cup {n}
  BY ZenonT(60), <1>1, <1>2, <1>3
<1>5. (0 .. n - 1) \cup {n} = 0 .. (n + 1) - 1
  OBVIOUS
<1>6. m \notin Kept(a)
  BY Zenon DEF Kept
<1>7. IsFiniteSet(Kept(b)) /\ Cardinality(Kept(b)) = n + 1
  <2>1. IsFiniteSet(Kept(a) \cup {m}) /\ Cardinality(Kept(a) \cup {m}) = Cardinality(Kept(a)) + 1
    BY ZenonT(30), <1>6, FS_AddElement DEF Numbered
  <2> HIDE DEF b
  <2> QED
    BY ZenonT(30), <1>1, <2>1 DEF Numbered
<1>8. {b[i].seq : i \in Kept(b)} = 0 .. (n + 1) - 1
  BY ZenonT(30), <1>4, <1>5 DEF Numbered
<1> QED
  BY ZenonT(30), <1>7, <1>8 DEF Numbered

LEMMA AcceptNewKeeps ==
    ASSUME TypeOK, NEW m \in Messages, NEW c \in Cores, AcceptNew(m, c), UNCHANGED stored
    PROVE  /\ FinalStored(accepted) => FinalStored(accepted)'
           /\ Numbered(accepted, next) => Numbered(accepted, next)'
<1> DEFINE r == [seq |-> signed[m], target |-> c, final |-> FALSE, status |-> "NONE"]
<1>1. accepted' = [accepted EXCEPT ![m] = r] /\ next' = next + 1 /\ signed[m] = next
  BY ZenonT(30) DEF AcceptNew
<1>2. r \in acceptedMessage /\ r.seq = next /\ r.final = FALSE
  BY ZenonT(60), <1>1 DEF TypeOK, acceptedMessage
<1>3. \A i \in Messages : accepted'[i] = IF i = m THEN r ELSE accepted[i]
  BY <1>1 DEF TypeOK, Records
<1> HIDE DEF r
<1>4. FinalStored(accepted) => FinalStored(accepted)'
  BY ZenonT(30), SMTT(30), <1>2, <1>3 DEF FinalStored
<1>5. ASSUME Numbered(accepted, next) PROVE Numbered([accepted EXCEPT ![m] = r], next + 1)
  BY ZenonT(30), <1>2, <1>5, NumberAdded DEF AcceptNew, TypeOK
<1> QED
  BY ZenonT(30), <1>1, <1>4, <1>5 DEF Numbered, Kept

LEMMA AcceptAgainKeeps ==
    ASSUME TypeOK, TypeOK', NEW m \in Messages, NEW c \in Cores, AcceptAgain(m, c), UNCHANGED stored
    PROVE  /\ FinalStored(accepted) => FinalStored(accepted)'
           /\ Numbered(accepted, next) => Numbered(accepted, next)'
           /\ \A i \in Messages : accepted'[i] = NoRecord <=> accepted[i] = NoRecord
<1>1. \A i \in Messages : i # m => accepted'[i] = accepted[i]
  BY Zenon DEF AcceptAgain, TypeOK, Records
<1>2. accepted[m] \in acceptedMessage
  BY ZenonT(30) DEF AcceptAgain, TypeOK, Records
<1>3. accepted'[m] = IF accepted[m].final THEN accepted[m] ELSE [accepted[m] EXCEPT !.target = c]
  BY Zenon DEF AcceptAgain, TypeOK, Records
<1>4. /\ accepted'[m] \in acceptedMessage /\ accepted'[m].seq = accepted[m].seq
      /\ accepted'[m].final = accepted[m].final
      /\ accepted[m].final => accepted'[m] = accepted[m]
  BY <1>2, <1>3 DEF acceptedMessage
<1>5. accepted[m] # NoRecord /\ accepted'[m] # NoRecord
  BY Zenon, <1>2, <1>4, DirectAssumption
<1>6. FinalStored(accepted) => FinalStored(accepted)'
  BY ZenonT(30), <1>1, <1>4 DEF FinalStored
<1>7. Numbered(accepted, next) => Numbered(accepted', next)
  <2>1. \A i \in Messages : /\ accepted[i] = NoRecord <=> accepted'[i] = NoRecord
                            /\ accepted[i] # NoRecord => accepted[i].seq = accepted'[i].seq
    BY ZenonT(30), <1>1, <1>4, <1>5
  <2>2. accepted \in Records /\ accepted' \in Records /\ next \in Nat
    BY Zenon DEF TypeOK
  <2> QED
    BY SMTT(60), <2>1, <2>2, NumberStays
<1> QED
  BY ZenonT(30), <1>1, <1>5, <1>6, <1>7 DEF AcceptAgain, Numbered, Kept

(* Nobody is taken anew: retries, duplicates and acknowledgements.         *)
LEMMA NumbersStay ==
    ASSUME OneNumber, UNCHANGED <<signed, next>>, \A m \in Messages : Taken(m)' => Taken(m)
    PROVE  OneNumber'
BY ZenonT(30), SMTT(30) DEF OneNumber

LEMMA SignKeeps ==
    ASSUME TypeOK, SenderInv, NEW m \in Messages, GetNextSenderMsgID(m)
    PROVE  SenderInv'
<1> USE DEF GetNextSenderMsgID, netVars, recvVars, faultVars
<1>1. ASSUME OneNumber PROVE OneNumber'
  <2>1. \A i \in Messages : Taken(i)' <=> Taken(i)
    BY Zenon DEF Taken
  <2>2. ~Taken(m)
    BY ZenonT(30), <1>1, DirectAssumption DEF OneNumber
  <2>3. \A i \in Messages : i # m => signed'[i] = signed[i]
    BY SMTT(60) DEF TypeOK
  <2> QED
    BY ZenonT(30), <1>1, <2>1, <2>2, <2>3 DEF OneNumber
<1> QED
  BY ZenonT(30), SMTT(30), <1>1 DEF SenderInv, FinalStored, Numbered, Kept

LEMMA SendKeeps ==
    ASSUME TypeOK, TypeOK', SenderInv, NEW m \in Messages, SendDirectMessage(m)
    PROVE  SenderInv'
<1> DEFINE c == view[SenderCore]
<1>1. c \in Cores
  BY ZenonT(30), SMTT(30), DirectAssumption DEF TypeOK
<1>2. UNCHANGED <<signed, flushed, scan, stored, crashes, prunes>>
  BY Zenon DEF SendDirectMessage, recvVars, faultVars
<1>3. AcceptNew(m, c) \/ AcceptAgain(m, c)
  BY ZenonT(60), SMTT(30) DEF SendDirectMessage
<1>4. FinalStored(accepted)' /\ FinalStored(flushed[2])'
  BY ZenonT(60), <1>1, <1>2, <1>3, AcceptNewKeeps, AcceptAgainKeeps DEF SenderInv, FinalStored
<1>5. ASSUME prunes' = 0 PROVE Numbered(accepted, next)' /\ Numbered(flushed[2], flushed[1])'
  BY ZenonT(30), <1>1, <1>2, <1>3, <1>5, AcceptNewKeeps, AcceptAgainKeeps DEF SenderInv, Numbered, Kept
<1>6. \A i \in Messages : Taken(i)' => Taken(i) \/ i = m
  <2>1. \A i \in Messages : i # m => accepted'[i] = accepted[i]
    BY ZenonT(60), SMTT(30), <1>3 DEF AcceptNew, AcceptAgain, TypeOK, Records
  <2>2. \A p \in routed' : p \in routed \/ p.msg = m
    <3>1. routed' \subseteq routed \cup {Packet(m, c)}
      BY ZenonT(60) DEF SendDirectMessage
    <3>2. Packet(m, c).msg = m
      BY ZenonT(60) DEF Packet
    <3> QED
      BY ZenonT(60), <3>1, <3>2
  <2> QED
    BY ZenonT(30), <1>2, <2>1, <2>2 DEF Taken
<1>7. ASSUME OneNumber PROVE OneNumber'
  <2>1. CASE AcceptAgain(m, c)
    <3>1. Taken(m) /\ UNCHANGED <<signed, next>>
      BY SMTT(60), <1>2, <2>1 DEF AcceptAgain, Taken
    <3> QED
      BY ZenonT(30), <1>6, <1>7, <3>1, NumbersStay
  <2>2. CASE AcceptNew(m, c)
    <3>1. signed[m] = next /\ next' = next + 1 /\ next \in Nat
      BY Zenon, <2>2 DEF AcceptNew, TypeOK
    <3> QED
      BY SMTT(30), <1>2, <1>6, <1>7, <3>1 DEF OneNumber
  <2> QED
    BY ZenonT(30), <1>3, <2>1, <2>2
<1> QED
  BY SMTT(60), <1>2, <1>4, <1>5, <1>7 DEF SenderInv

LEMMA RetryKeeps ==
    ASSUME TypeOK, TypeOK', SenderInv, NEW x \in scan, RetryPending(x)
    PROVE  SenderInv'
<1> DEFINE c == view[SenderCore]
<1>1. c \in Cores /\ x.msg \in Messages
  BY ZenonT(30), SMTT(30), DirectAssumption DEF TypeOK
<1>2. UNCHANGED <<signed, flushed, stored, crashes, prunes>> /\ scan' = scan \ {x}
  BY Zenon DEF RetryPending, recvVars, faultVars
<1>3. UNCHANGED <<next, accepted>> \/ AcceptAgain(x.msg, c)
  BY ZenonT(30), SMTT(30) DEF RetryPending
<1>4. FinalStored(accepted)' /\ FinalStored(flushed[2])'
  BY ZenonT(30), SMTT(30), <1>1, <1>2, <1>3, AcceptAgainKeeps DEF SenderInv, FinalStored
<1>5. ASSUME prunes' = 0 PROVE Numbered(accepted, next)' /\ Numbered(flushed[2], flushed[1])'
  BY ZenonT(60), <1>1, <1>2, <1>3, <1>5, AcceptAgainKeeps DEF SenderInv, Numbered, Kept
<1>6. \A i \in Messages : Taken(i)' => Taken(i)
  <2>1. \A i \in Messages : accepted'[i] = NoRecord <=> accepted[i] = NoRecord
    BY ZenonT(30), <1>1, <1>2, <1>3, AcceptAgainKeeps
  <2>2. \A p \in routed' : p \in routed \/ p.msg = x.msg
    BY DEF RetryPending, Packet
  <2> QED
    BY ZenonT(30), <1>2, <2>1, <2>2 DEF Taken
<1>7. next' = next
  BY ZenonT(30), <1>3 DEF AcceptAgain
<1>8. OneNumber => OneNumber'
  BY ZenonT(30), SMTT(30), <1>2, <1>6, <1>7, NumbersStay
<1> QED
  BY Zenon, <1>2, <1>4, <1>5, <1>8 DEF SenderInv

LEMMA PruneKeeps ==
    ASSUME TypeOK, SenderInv, NEW m \in Messages, PruneExpiredDirect(m)
    PROVE  SenderInv'
<1> USE DEF PruneExpiredDirect, netVars, recvVars
<1>1. \A i \in Messages : accepted'[i] = IF i = m THEN NoRecord ELSE accepted[i]
  BY ZenonT(30), SMTT(30) DEF TypeOK, Records
<1>2. FinalStored(accepted)' /\ FinalStored(flushed[2])'
  BY SMTT(30), <1>1 DEF SenderInv, FinalStored
<1>3. prunes' # 0
  BY SMTT(30) DEF TypeOK
<1>4. OneNumber => OneNumber'
  BY Zenon, <1>1, NumbersStay DEF Taken
<1> QED
  BY ZenonT(30), SMTT(30), <1>2, <1>3, <1>4 DEF SenderInv

LEMMA AckedRecord ==
    ASSUME NEW r \in acceptedMessage, NEW st \in MessageAckStatus
    PROVE  LET q == [r EXCEPT !.status = st, !.final = (st = "OK")]
           IN  /\ q \in acceptedMessage /\ q.seq = r.seq /\ q.target = r.target
               /\ q.final => st = "OK"
BY Zenon  DEF acceptedMessage

LEMMA MarkAckKeeps ==
    ASSUME TypeOK, TypeOK', ReceiverInv, SenderInv, NEW k \in acks, MarkAck(k)
    PROVE  SenderInv'
<1> DEFINE m == k.msg
<1> USE DEF MarkAck, netVars, recvVars, faultVars
<1>1. m \in Messages /\ k.status \in MessageAckStatus
  BY Zenon DEF TypeOK
<1>2. \A i \in Messages : i # m => accepted'[i] = accepted[i]
  BY Zenon DEF TypeOK, Records
<1>3. accepted[m] \in acceptedMessage
  BY ZenonT(30), <1>1 DEF TypeOK, Records
<1>4. accepted'[m] = [accepted[m] EXCEPT !.status = k.status, !.final = (k.status = "OK")]
  BY Zenon, <1>1 DEF TypeOK, Records
<1>5. /\ accepted'[m] \in acceptedMessage /\ accepted'[m].seq = accepted[m].seq
      /\ accepted'[m].target = k.core
      /\ accepted'[m].final => k.status = "OK"
  <2>1. accepted[m].target = k.core
    BY Zenon
  <2> HIDE DEF MarkAck, m
  <2> DEFINE q == [accepted[m] EXCEPT !.status = k.status, !.final = (k.status = "OK")]
  <2>2. q \in acceptedMessage /\ q.seq = accepted[m].seq /\ q.target = accepted[m].target /\ (q.final => k.status = "OK")
    BY ZenonT(30), <1>1, <1>3, AckedRecord
  <2>3. accepted'[m] = q
    BY Zenon, <1>4
  <2> HIDE DEF q
  <2> QED
    BY ZenonT(30), <2>1, <2>2, <2>3
<1>6. accepted[m] # NoRecord /\ accepted'[m] # NoRecord
  BY Zenon, <1>5, DirectAssumption
<1>7. FinalStored(accepted)' /\ FinalStored(flushed[2])'
  <2>1. accepted'[m].final => Packet(m, accepted'[m].target) \in stored'
    BY SMTT(60), <1>5 DEF ReceiverInv, SaysStored, AckMeansStored
  <2> HIDE DEF MarkAck, m
  <2>2. UNCHANGED <<flushed, stored>>
    BY Zenon DEF MarkAck
  <2> QED
    BY ZenonT(30), <1>2, <2>1, <2>2 DEF SenderInv, FinalStored
<1>8. Numbered(accepted, next) => Numbered(accepted', next)
  <2>1. \A i \in Messages : /\ accepted[i] = NoRecord <=> accepted'[i] = NoRecord
                            /\ accepted[i] # NoRecord => accepted[i].seq = accepted'[i].seq
    BY Zenon, <1>2, <1>5, <1>6
  <2>2. accepted \in Records /\ accepted' \in Records /\ next \in Nat
    BY Zenon DEF TypeOK
  <2> QED
    BY ZenonT(60), <2>1, <2>2, NumberStays
<1>9. OneNumber => OneNumber'
  BY Zenon, <1>2, <1>6, NumbersStay DEF Taken
<1>10. UNCHANGED <<next, flushed, crashes, prunes>>
  BY Zenon
<1> HIDE DEF MarkAck
<1> QED
  BY ZenonT(30), <1>7, <1>8, <1>9, <1>10 DEF SenderInv, Numbered, Kept

LEMMA StartRetryKeeps ==
    ASSUME TypeOK, SenderInv, StartRetry
    PROVE  SenderInv'
<1> USE DEF StartRetry, netVars, recvVars, faultVars
<1>1. \A m \in Messages : Taken(m)' => Taken(m)
  BY SMTT(30) DEF Taken
<1>2. OneNumber => OneNumber'
  BY Zenon, SMTT(30), <1>1, NumbersStay
<1> QED
  BY ZenonT(30), <1>2 DEF SenderInv, FinalStored, Numbered, Kept

LEMMA FlushKeeps ==
    ASSUME TypeOK, SenderInv, Flush
    PROVE  SenderInv'
<1> USE DEF Flush, netVars, recvVars, faultVars
<1>1. OneNumber => OneNumber'
  BY Zenon, NumbersStay DEF Taken
<1>2. flushed'[1] = next /\ flushed'[2] = accepted
  BY ZenonT(30), SMTT(30)
<1> QED
  BY ZenonT(30), SMTT(30), <1>1, <1>2 DEF SenderInv, FinalStored, Numbered, Kept

LEMMA CrashSender ==
    ASSUME TypeOK, SenderInv, NEW c \in Cores, Crash(c)
    PROVE  SenderInv'
<1>1. crashes' # 0 /\ UNCHANGED <<flushed, stored, prunes>>
  BY DEF Crash, TypeOK
<1>2. \/ accepted' = flushed[2] /\ next' = flushed[1]
      \/ UNCHANGED <<accepted, next>>
  BY Zenon DEF Crash
<1> QED
  BY ZenonT(30), <1>1, <1>2 DEF SenderInv, FinalStored, Numbered, Kept

LEMMA SenderStep == TypeOK /\ TypeOK' /\ ReceiverInv /\ SenderInv /\ [Next]_vars => SenderInv'
<1> SUFFICES ASSUME TypeOK, TypeOK', ReceiverInv, SenderInv, [Next]_vars PROVE SenderInv'
  BY Zenon
<1>1. CASE UNCHANGED <<sendVars, routed, crashes, prunes>>
  BY ZenonT(30), <1>1, StoredGrows, SenderStays
<1>2. CASE UNCHANGED vars
  BY ZenonT(30), <1>1, <1>2 DEF vars, sendVars
<1>3. CASE Next
  BY ZenonT(60), <1>1, <1>3, SignKeeps, SendKeeps, RetryKeeps, PruneKeeps, MarkAckKeeps, StartRetryKeeps, FlushKeeps, CrashSender
     DEF Next, RecipientMoved, ReplayBegin, AppendDirectMessage, AppendFails, ReplayFinish, ForgetReplay,
         DeleteMail, Rebind, RebindSender, SyncBinding, SyncSenderBinding, netVars, faultVars
<1> QED
  BY ZenonT(30), <1>2, <1>3

-----------------------------------------------------------------------------
(* The theorems.                                                           *)

LEMMA InitHolds == Init => IInv
<1> SUFFICES ASSUME Init PROVE IInv
  BY Zenon, SMTT(30)
<1>1. TypeOK
  BY Zenon, SMTT(30), DirectAssumption DEF Init, TypeOK, Records
<1>2. ReceiverInv
  BY Zenon DEF Init, ReceiverInv, Reserved, SaysStored, AckMeansStored, Remembered
<1>3. Kept(accepted) = {}
  BY ZenonT(60), SMTT(30) DEF Init, Kept
<1>4. Numbered(accepted, next)
  BY SMTT(60), <1>3, FS_EmptySet DEF Init, Numbered
<1>5. flushed[1] = next /\ flushed[2] = accepted
  BY Zenon DEF Init
<1>6. FinalStored(accepted) /\ OneNumber
  BY Zenon DEF Init, FinalStored, OneNumber, Taken
<1> QED
  BY Zenon, <1>1, <1>2, <1>4, <1>5, <1>6 DEF IInv, SenderInv

(* The invariant behind the theorems below: each handler of an envelope    *)
(* owns its entry in the replay window, windows and acknowledgements tell  *)
(* the truth, the records, live and flushed, are numbered without a gap,   *)
(* and what was ever accepted has a number of its own below next.          *)
THEOREM InvariantHolds == Spec => []IInv
<1>1. IInv /\ [Next]_vars => IInv'
  BY Zenon, TypeStep, ReceiverStep, SenderStep DEF IInv
<1> QED
  BY <1>1, InitHolds, PTL DEF Spec

(* An OK of handleIncomingDirect means a committed mailbox entry at the    *)
(* core that sent it, for any number of racing handlers and crashes.       *)
THEOREM OKAlwaysStored == Spec => []AckMeansStored
<1>1. IInv => AckMeansStored
  BY Zenon DEF IInv, ReceiverInv, SaysStored
<1> QED
  BY <1>1, InvariantHolds, PTL

(* A record that MarkAck made final names a core that has the message,     *)
(* also as read back from the acceptance store after a crash.              *)
THEOREM FinalAlwaysAtTarget == Spec => []FinalAtTarget
<1>1. IInv => FinalAtTarget
  BY ZenonT(60), SMTT(30) DEF IInv, SenderInv, FinalStored, FinalAtTarget
<1> QED
  BY <1>1, InvariantHolds, PTL

(* Accept numbers the messages without gap or repetition, and a crash      *)
(* leaves records and counter in agreement.                                *)
THEOREM AlwaysContiguous == Spec => []Contiguous
<1>1. IInv => Contiguous
  BY ZenonT(60) DEF IInv, SenderInv, Numbered, Kept, Contiguous
<1> QED
  BY <1>1, InvariantHolds, PTL

(* While the sender's core stays up, no two messages are routed under one  *)
(* SenderMsgID, whatever the account's devices signed and although records *)
(* expire.                                                                 *)
THEOREM AlwaysOneMessagePerSeq == Spec => []OneMessagePerSeq
<1>1. IInv => OneMessagePerSeq
  BY Zenon DEF IInv, TypeOK, Packets, SenderInv, OneNumber, Taken, OneMessagePerSeq
<1> QED
  BY <1>1, InvariantHolds, PTL

(* No retry, duplicate or second handler appends a message again that the  *)
(* replay window of its core remembers.                                    *)
THEOREM AlwaysStoredOnce == Spec => StoredOnce
<1>1. ASSUME IInv, [Next]_vars, crashes = 0, forgets = 0, NEW p \in mail' \ mail
      PROVE  p \notin stored
  <2>1. PICK h \in handlers : AppendDirectMessage(h)
    BY ZenonT(60), <1>1 DEF Next, vars, GetNextSenderMsgID, SendDirectMessage, PruneExpiredDirect, StartRetry, RetryPending,
                MarkAck, RecipientMoved, ReplayBegin, AppendFails, ReplayFinish, ForgetReplay, DeleteMail,
                Rebind, RebindSender, SyncBinding, SyncSenderBinding, Crash, Flush, recvVars
  <2>2. p = Packet(h.msg, h.core) /\ h.step = "begun"
    BY Zenon, <1>1, <2>1 DEF AppendDirectMessage
  <2>3. p.msg = h.msg /\ p.core = h.core
    BY Zenon, <2>2 DEF Packet
  <2> QED
    <3>1. window[h.core][h.msg] = "pending" /\ \A g \in handlers : g.msg = h.msg /\ g.core = h.core => g = h
      BY ZenonT(60), <1>1 DEF IInv, ReceiverInv, Reserved
    <3>2. Remembered
      BY ZenonT(60), <1>1 DEF IInv, ReceiverInv
    <3>3. window[p.core][p.msg] # "done"
      BY ZenonT(60), <2>3, <3>1
    <3>4. \A g \in handlers : g.msg = p.msg /\ g.core = p.core => g.step # "stored"
      BY ZenonT(60), <2>2, <2>3, <3>1
    <3> QED
      BY ZenonT(60), <3>2, <3>3, <3>4 DEF Remembered
<1>2. IInv /\ [Next]_vars => [crashes = 0 /\ forgets = 0 => \A p \in mail' \ mail : p \notin stored]_vars
  BY Zenon, <1>1
<1> QED
  BY <1>2, InvariantHolds, PTL DEF Spec, StoredOnce
=============================================================================
