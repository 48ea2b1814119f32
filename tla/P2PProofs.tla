----------------------------- MODULE P2PProofs ------------------------------
(***************************************************************************)
(* Proofs about P2PNetwork, for any number of connections, ids and callers *)
(* of Broadcast.                                                           *)
(***************************************************************************)
EXTENDS P2PNetwork, TLAPS

-----------------------------------------------------------------------------
(***************************************************************************)
(* The inductive invariant.                                                *)
(***************************************************************************)

Entry == [conn : Conn, isActive : BOOLEAN]

\* n.peers maps ids to entries; every caller has a target.
PeersInv == peers \in [DOMAIN peers -> Entry] /\ DOMAIN target = Caller

\* The clean-up of a connection marks its entry only after it is closed.
ClosedFirst == \A c \in Conn : pc[c] = "mark" => sock[c] = "closed"

\* At most one caller broadcasts.
OneBroadcast == \A g, h \in Caller : bpc[g] \in Sending /\ bpc[h] \in Sending => g = h

\* A connection that is not made yet, and whose socket may still be opened.
Unmade(c) == pc[c] \in {"none", "dial"}

\* A broadcast visits connections that were made.
MadeTargets ==
    \A g \in Caller : /\ \A c \in todo[g] : ~Unmade(c)
                      /\ bpc[g] \in {"len", "data"} => ~Unmade(target[g])

\* A stream needs the data of a caller's frame only while that caller is about to
\* write it.
PendingFrames ==
    \A c \in Conn, g \in Caller :
        frame[c] = g => bpc[g] = "data" /\ target[g] = c /\ sock[c] = "open"

\* ... and then the peer has got its length, unless frames are torn already.
PendingData ==
    \A g \in Caller :
        bpc[g] = "data" /\ sock[target[g]] = "open" => frame[target[g]] \in {g, "torn"}

P2PInv ==
    /\ P2PTypeOK
    /\ PeersInv
    /\ ActiveMeansServed
    /\ ClosedFirst
    /\ OneBroadcast
    /\ MadeTargets
    /\ PendingFrames
    /\ PendingData
    /\ BroadcastsStayWhole

-----------------------------------------------------------------------------
(***************************************************************************)
(* Types.                                                                  *)
(***************************************************************************)

Typed == P2PTypeOK /\ PeersInv

\* The control points of a connection's goroutine.
PC == {"none", "dial", "register", "announce", "announceLen", "announceData",
       "announceEnd", "read", "close", "mark", "done"}

\* An entry made inactive is an entry of the same connection.
LEMMA InactiveEntry ==
    ASSUME NEW e \in Entry
    PROVE  /\ [e EXCEPT !.isActive = FALSE] \in Entry
           /\ [e EXCEPT !.isActive = FALSE].conn = e.conn
           /\ ~[e EXCEPT !.isActive = FALSE].isActive
BY DEF Entry

\* Moving a goroutine on to a point other than the dialling keeps the types.
LEMMA GotoTyped ==
    ASSUME Typed, NEW c \in Conn, UNCHANGED attempt,
           NEW l \in PC \ {"none", "dial"},
           Goto(c, l)
    PROVE  /\ pc' \in [Conn -> PC]
           /\ \A b \in Bootnode : pc'[b] = "dial" => attempt'[b] < DialAttempts
<1>1. pc' \in [Conn -> PC]
  BY DEF Typed, P2PTypeOK, Goto, PC
<1>2. Bootnode \subseteq Conn
  BY DEF Conn
<1>3. \A b \in Bootnode : pc'[b] = "dial" => pc[b] = "dial"
  BY <1>2 DEF Typed, P2PTypeOK, Goto
<1> QED
  BY <1>1, <1>3 DEF Typed, P2PTypeOK

\* A liveness check gives up connections of active entries that are not open.
LEMMA CheckBreaks ==
    ASSUME LivenessCheck
    PROVE  \E broken :
              /\ \A c \in broken : c \in ActiveConns /\ sock[c] # "open"
              /\ Lose(broken, "closed")
              /\ peers' = [id \in DOMAIN peers |->
                               IF peers[id].conn \in broken
                                  THEN [peers[id] EXCEPT !.isActive = FALSE]
                                  ELSE peers[id]]
<1>1. PICK noticed \in SUBSET {c \in ActiveConns : SeemsBroken(c)} :
         LET broken == noticed \cup {c \in ActiveConns : sock[c] = "closed"}
         IN /\ Lose(broken, "closed")
            /\ peers' = [id \in DOMAIN peers |->
                             IF peers[id].conn \in broken
                                THEN [peers[id] EXCEPT !.isActive = FALSE]
                                ELSE peers[id]]
  BY DEF LivenessCheck
<1> DEFINE broken == noticed \cup {c \in ActiveConns : sock[c] = "closed"}
<1>2. \A c \in broken : c \in ActiveConns /\ sock[c] # "open"
  BY DEF SeemsBroken
<1> QED
  BY <1>1, <1>2

\* Every step of a connection's goroutine, of a caller of Broadcast, of Stop, of
\* livenessLoop and of a peer keeps the types.
LEMMA NextTyped == Typed /\ [P2PNext]_p2pVars => Typed'
<1> SUFFICES ASSUME Typed, [P2PNext]_p2pVars PROVE Typed'
  OBVIOUS
<1> USE P2PAssumption DEF Typed, P2PTypeOK, PeersInv
<1>1. ASSUME NEW c \in Conn, Connect(c) PROVE Typed'
  BY <1>1 DEF Connect, Goto, wire, sends
<1>2. ASSUME NEW c \in Bootnode, DialFails(c) PROVE Typed'
  <2>1. c \in Conn
    BY DEF Conn
  <2>2. pc[c] = "dial" /\ attempt[c] \in Nat /\ attempt[c] < DialAttempts
    BY <1>2 DEF DialFails
  <2>3. attempt' \in [Bootnode -> 0 .. DialAttempts]
    BY <1>2, <2>2 DEF DialFails
  <2>4. \A b \in Bootnode : pc'[b] = "dial" => attempt'[b] < DialAttempts
    BY <1>2, <2>1, <2>2 DEF DialFails, Goto, TriesAgain, Conn
  <2> QED
    BY <1>2, <2>1, <2>3, <2>4 DEF DialFails, Goto, wire, sends
<1>3. ASSUME NEW c \in Bootnode, DialEnds(c) PROVE Typed'
  <2>1. c \in Conn
    BY DEF Conn
  <2> QED
    BY <1>3, <2>1 DEF DialEnds, Goto, wire, sends, Conn
<1>4. ASSUME NEW c \in Conn, RegisterPeer(c) PROVE Typed'
  <2> DEFINE e == [conn |-> c, isActive |-> TRUE]
  <2>1. /\ DOMAIN peers' = DOMAIN peers \cup {PeerID[c]}
        /\ peers' = [id \in DOMAIN peers' |-> IF id = PeerID[c] THEN e ELSE peers[id]]
    BY <1>4 DEF RegisterPeer
  <2>2. e \in Entry /\ e.conn = c
    BY DEF Entry
  <2> HIDE DEF e
  <2>3. peers' \in [DOMAIN peers' -> Entry]
    BY <2>1, <2>2
  <2>4. \A id \in DOMAIN peers' : PeerID[peers'[id].conn] = id
    BY <2>1, <2>2
  <2>5. \A id \in DOMAIN peers' : peers'[id].conn \in Conn /\ peers'[id].isActive \in BOOLEAN
    BY <2>3 DEF Entry
  <2>6. UNCHANGED <<stopPc, attempt, sock, buffer, deadline, frame, bpc, todo, target>>
    BY <1>4 DEF RegisterPeer, wire, sends
  <2>7. /\ pc' \in [Conn -> PC]
        /\ \A b \in Bootnode : pc'[b] = "dial" => attempt'[b] < DialAttempts
    BY <1>4, <2>6, GotoTyped DEF RegisterPeer, PC
  <2>8. DOMAIN peers' \subseteq {PeerID[d] : d \in Conn}
    BY <2>1
  <2> QED
    BY <2>3, <2>4, <2>5, <2>6, <2>7, <2>8 DEF PC
<1>5. ASSUME NEW c \in Conn, AnnounceLen(c) PROVE Typed'
  <2>1. frame' \in [Conn -> FrameState \cup Caller]
    BY <1>5 DEF AnnounceLen, SentLen, CutShort, Torn, FrameState
  <2>3. UNCHANGED <<stopPc, attempt, sock, buffer, deadline, peers, bpc, todo, target>>
    BY <1>5 DEF AnnounceLen, sends
  <2>4. Goto(c, "announceData") \/ Goto(c, "announceEnd")
    BY <1>5 DEF AnnounceLen
  <2>5. /\ pc' \in [Conn -> PC]
        /\ \A b \in Bootnode : pc'[b] = "dial" => attempt'[b] < DialAttempts
    BY <2>3, <2>4, GotoTyped DEF PC
  <2> QED
    BY <2>1, <2>3, <2>5 DEF PC
<1>6. ASSUME NEW c \in Conn, AnnounceData(c) PROVE Typed'
  BY <1>6 DEF AnnounceData, Goto, SentData, CutShort, Torn, FrameState, sends
<1>23. ASSUME NEW c \in Conn, AnnounceArm(c) PROVE Typed'
  BY <1>23 DEF AnnounceArm, Goto, Arm, sends
<1>24. ASSUME NEW c \in Conn, AnnounceEnd(c) PROVE Typed'
  BY <1>24 DEF AnnounceEnd, Goto, sends
<1>7. ASSUME NEW c \in Conn, ReadLoopEnds(c) PROVE Typed'
  BY <1>7 DEF ReadLoopEnds, Goto, wire, sends
<1>8. ASSUME NEW c \in Conn, ReadFrameFails(c) PROVE Typed'
  BY <1>8 DEF ReadFrameFails, Goto, wire, sends
<1>9. ASSUME NEW c \in Conn, CloseConn(c) PROVE Typed'
  BY <1>9 DEF CloseConn, Goto, Lose, sends, FrameState
<1>10. ASSUME NEW c \in Conn, MarkInactive(c) PROVE Typed'
  <2> DEFINE i == PeerID[c]
             e == [peers[i] EXCEPT !.isActive = FALSE]
  <2>0. peers' = [peers EXCEPT ![i] = e]
    BY <1>10 DEF MarkInactive, Deactivated
  <2>1. DOMAIN peers' = DOMAIN peers /\ peers' \in [DOMAIN peers' -> Entry]
    <3>1. i \in DOMAIN peers => e \in Entry
      BY InactiveEntry
    <3> HIDE DEF e, i
    <3> QED
      BY <2>0, <3>1
  <2>2. \A id \in DOMAIN peers' : peers'[id].conn = peers[id].conn
    <3>1. i \in DOMAIN peers => e.conn = peers[i].conn
      BY InactiveEntry
    <3> HIDE DEF e, i
    <3> QED
      BY <2>0, <3>1
  <2>3. \A id \in DOMAIN peers' : peers'[id].isActive \in BOOLEAN
    BY <2>1 DEF Entry
  <2> QED
    BY <1>10, <2>1, <2>2, <2>3 DEF MarkInactive, Goto, wire, sends
<1>11. ASSUME NEW c \in Conn, PeerGone(c) PROVE Typed'
  BY <1>11 DEF PeerGone, Lose, sends, FrameState
<1>12. ASSUME NEW c \in Conn, PeerStalls(c) PROVE Typed'
  BY <1>12 DEF PeerStalls, sends
<1>13. CASE LivenessCheck
  <2>1. PICK broken :
           /\ Lose(broken, "closed")
           /\ peers' = [id \in DOMAIN peers |->
                            IF peers[id].conn \in broken
                               THEN [peers[id] EXCEPT !.isActive = FALSE]
                               ELSE peers[id]]
    BY <1>13, CheckBreaks
  <2>2. DOMAIN peers' = DOMAIN peers /\ peers' \in [DOMAIN peers' -> Entry]
    <3>1. \A id \in DOMAIN peers : [peers[id] EXCEPT !.isActive = FALSE] \in Entry
      BY InactiveEntry
    <3> QED
      BY <2>1, <3>1
  <2>3. \A id \in DOMAIN peers' : peers'[id].conn = peers[id].conn
    <3>1. \A id \in DOMAIN peers : [peers[id] EXCEPT !.isActive = FALSE].conn = peers[id].conn
      BY InactiveEntry
    <3> QED
      BY <2>1, <3>1
  <2>4. \A id \in DOMAIN peers' : peers'[id].isActive \in BOOLEAN
    BY <2>2 DEF Entry
  <2>5. /\ sock' \in [Conn -> {"none", "open", "gone", "closed"}]
        /\ buffer' \in [Conn -> {"room", "full"}]
        /\ frame' \in [Conn -> FrameState \cup Caller]
    BY <2>1 DEF Lose, FrameState
  <2>6. deadline' \in [Conn -> {"none", "set", "lost"}]
    <3>1. deadline' = [d \in Conn |-> IF d \in ActiveConns THEN "none" ELSE deadline[d]]
      BY <1>13 DEF LivenessCheck
    <3> QED
      BY <3>1
  <2>7. UNCHANGED <<stopPc, pc, attempt, bpc, todo, target>>
    BY <1>13 DEF LivenessCheck, sends
  <2> QED
    BY <2>2, <2>3, <2>4, <2>5, <2>6, <2>7
<1>14. ASSUME NEW g \in Caller, BroadcastStart(g) PROVE Typed'
  BY <1>14 DEF BroadcastStart, wire, ActiveConns, Sending, Entry
<1>15. ASSUME NEW g \in Caller, NextPeer(g) PROVE Typed'
  <2>1. PICK c \in todo[g] : /\ todo' = [todo EXCEPT ![g] = @ \ {c}]
                             /\ target' = [target EXCEPT ![g] = c]
                             /\ Arm(c)
    BY <1>15 DEF NextPeer
  <2>2. todo' \in [Caller -> SUBSET Conn]
    BY <2>1
  <2>3. deadline' \in [Conn -> {"none", "set", "lost"}]
    BY <2>1 DEF Arm
  <2>4. bpc' = [bpc EXCEPT ![g] = "len"]
    BY <1>15 DEF NextPeer
  <2>5. \A h \in Caller : bpc'[h] \in {"len", "data"} => target'[h] \in Conn
    BY <2>1, <2>4
  <2> QED
    BY <1>15, <2>2, <2>3, <2>4, <2>5 DEF NextPeer, Sending
<1>16. ASSUME NEW g \in Caller, WriteLen(g) PROVE Typed'
  BY <1>16 DEF WriteLen, SentLen, Torn, FrameState, Sending
<1>17. ASSUME NEW g \in Caller, WriteData(g) PROVE Typed'
  BY <1>17 DEF WriteData, SentData, Torn, FrameState, FrameDone, Disarm, Sending
<1>18. ASSUME NEW g \in Caller, WriteFails(g) PROVE Typed'
  BY <1>18 DEF WriteFails, CutShort, FrameDone, Disarm, FrameState, Sending
<1>19. ASSUME NEW g \in Caller, BroadcastEnd(g) PROVE Typed'
  BY <1>19 DEF BroadcastEnd, wire, Sending
<1>20. CASE StopListener
  BY <1>20 DEF StopListener, wire, sends
<1>21. CASE StopConns
  BY <1>21 DEF StopConns, Lose, sends, FrameState
<1>22. CASE UNCHANGED p2pVars
  BY <1>22 DEF p2pVars
<1> QED
  BY <1>1, <1>2, <1>3, <1>4, <1>5, <1>6, <1>7, <1>8, <1>9, <1>10, <1>11,
     <1>12, <1>13, <1>14, <1>15, <1>16, <1>17, <1>18, <1>19, <1>20, <1>21, <1>22,
     <1>23, <1>24
  DEF P2PNext, Serve, Broadcast

-----------------------------------------------------------------------------
(***************************************************************************)
(* Active entries.                                                         *)
(***************************************************************************)

Served == ActiveMeansServed /\ ClosedFirst

\* A goroutine ends only after its connection's own entry, if it still has one,
\* was made inactive.
LEMMA NextServed == Typed /\ Served /\ [P2PNext]_p2pVars => Served'
<1> SUFFICES ASSUME Typed, Served, [P2PNext]_p2pVars PROVE Served'
  OBVIOUS
<1> USE P2PAssumption DEF Typed, P2PTypeOK, PeersInv, Served, ActiveMeansServed, ClosedFirst
<1>1. ASSUME NEW c \in Conn, Connect(c) PROVE Served'
  BY <1>1 DEF Connect, Goto
<1>2. ASSUME NEW c \in Bootnode, DialFails(c) PROVE Served'
  BY <1>2 DEF DialFails, Goto, Conn
<1>3. ASSUME NEW c \in Bootnode, DialEnds(c) PROVE Served'
  BY <1>3 DEF DialEnds, Goto, Conn
<1>4. ASSUME NEW c \in Conn, RegisterPeer(c) PROVE Served'
  BY <1>4 DEF RegisterPeer, Goto
<1>5. ASSUME NEW c \in Conn, AnnounceLen(c) PROVE Served'
  BY <1>5 DEF AnnounceLen, Goto
<1>6. ASSUME NEW c \in Conn, AnnounceData(c) PROVE Served'
  BY <1>6 DEF AnnounceData, Goto
<1>23. ASSUME NEW c \in Conn, AnnounceArm(c) PROVE Served'
  BY <1>23 DEF AnnounceArm, Goto
<1>24. ASSUME NEW c \in Conn, AnnounceEnd(c) PROVE Served'
  BY <1>24 DEF AnnounceEnd, Goto
<1>7. ASSUME NEW c \in Conn, ReadLoopEnds(c) PROVE Served'
  BY <1>7 DEF ReadLoopEnds, Goto
<1>8. ASSUME NEW c \in Conn, ReadFrameFails(c) PROVE Served'
  BY <1>8 DEF ReadFrameFails, Goto
<1>9. ASSUME NEW c \in Conn, CloseConn(c) PROVE Served'
  BY <1>9 DEF CloseConn, Goto, Lose
<1>10. ASSUME NEW c \in Conn, MarkInactive(c) PROVE Served'
  <2> DEFINE i == PeerID[c]
             e == [peers[i] EXCEPT !.isActive = FALSE]
  <2>1. peers' = [peers EXCEPT ![i] = e] /\ pc' = [pc EXCEPT ![c] = "done"] /\ sock' = sock
    BY <1>10 DEF MarkInactive, Deactivated, Goto
  <2>2. i \in DOMAIN peers => ~e.isActive
    BY InactiveEntry
  <2>3. \A id \in DOMAIN peers : id # i => peers[id].conn # c
    OBVIOUS
  <2> HIDE DEF e, i
  <2>4. ActiveMeansServed'
    BY <2>1, <2>2, <2>3
  <2>5. ClosedFirst'
    BY <2>1
  <2> QED
    BY <2>4, <2>5
<1>11. ASSUME NEW c \in Conn, PeerGone(c) PROVE Served'
  BY <1>11 DEF PeerGone, Lose
<1>12. ASSUME NEW c \in Conn, PeerStalls(c) PROVE Served'
  BY <1>12 DEF PeerStalls
<1>13. CASE LivenessCheck
  <2>1. PICK broken :
           /\ Lose(broken, "closed")
           /\ peers' = [id \in DOMAIN peers |->
                            IF peers[id].conn \in broken
                               THEN [peers[id] EXCEPT !.isActive = FALSE]
                               ELSE peers[id]]
    BY <1>13, CheckBreaks
  <2>2. pc' = pc
    BY <1>13 DEF LivenessCheck
  <2>3. \A id \in DOMAIN peers : ~[peers[id] EXCEPT !.isActive = FALSE].isActive
    BY InactiveEntry
  <2>4. ActiveMeansServed'
    BY <2>1, <2>2, <2>3
  <2>5. ClosedFirst'
    BY <2>1, <2>2 DEF Lose
  <2> QED
    BY <2>4, <2>5
<1>14. ASSUME NEW g \in Caller, BroadcastStart(g) PROVE Served'
  BY <1>14 DEF BroadcastStart
<1>15. ASSUME NEW g \in Caller, NextPeer(g) PROVE Served'
  BY <1>15 DEF NextPeer
<1>16. ASSUME NEW g \in Caller, WriteLen(g) PROVE Served'
  BY <1>16 DEF WriteLen
<1>17. ASSUME NEW g \in Caller, WriteData(g) PROVE Served'
  BY <1>17 DEF WriteData
<1>18. ASSUME NEW g \in Caller, WriteFails(g) PROVE Served'
  BY <1>18 DEF WriteFails
<1>19. ASSUME NEW g \in Caller, BroadcastEnd(g) PROVE Served'
  BY <1>19 DEF BroadcastEnd
<1>20. CASE StopListener
  BY <1>20 DEF StopListener
<1>21. CASE StopConns
  BY <1>21 DEF StopConns, Lose
<1>22. CASE UNCHANGED p2pVars
  BY <1>22 DEF p2pVars
<1> QED
  BY <1>1, <1>2, <1>3, <1>4, <1>5, <1>6, <1>7, <1>8, <1>9, <1>10, <1>11,
     <1>12, <1>13, <1>14, <1>15, <1>16, <1>17, <1>18, <1>19, <1>20, <1>21, <1>22,
     <1>23, <1>24
  DEF P2PNext, Serve, Broadcast

-----------------------------------------------------------------------------
(***************************************************************************)
(* Broadcasts.                                                             *)
(***************************************************************************)

Visits == OneBroadcast /\ MadeTargets

\* The mutex of AttestBlock lets one caller broadcast at a time, and entries do
\* not change while it does.
LEMMA NextVisits == Typed /\ Served /\ Visits /\ [P2PNext]_p2pVars => Visits'
<1> SUFFICES ASSUME Typed, Served, Visits, [P2PNext]_p2pVars PROVE Visits'
  OBVIOUS
<1> USE DEF Typed, P2PTypeOK, PeersInv, Served, Visits, OneBroadcast, MadeTargets, Unmade
<1>1. ASSUME NEW c \in Conn, Connect(c) PROVE Visits'
  BY <1>1 DEF Connect, Goto, sends
<1>2. ASSUME NEW c \in Bootnode, DialFails(c) PROVE Visits'
  BY <1>2 DEF DialFails, Goto, sends, Conn
<1>3. ASSUME NEW c \in Bootnode, DialEnds(c) PROVE Visits'
  BY <1>3 DEF DialEnds, Goto, sends, Conn
<1>4. ASSUME NEW c \in Conn, RegisterPeer(c) PROVE Visits'
  BY <1>4 DEF RegisterPeer, Goto, sends
<1>5. ASSUME NEW c \in Conn, AnnounceLen(c) PROVE Visits'
  BY <1>5 DEF AnnounceLen, Goto, sends
<1>6. ASSUME NEW c \in Conn, AnnounceData(c) PROVE Visits'
  BY <1>6 DEF AnnounceData, Goto, sends
<1>23. ASSUME NEW c \in Conn, AnnounceArm(c) PROVE Visits'
  BY <1>23 DEF AnnounceArm, Goto, sends
<1>24. ASSUME NEW c \in Conn, AnnounceEnd(c) PROVE Visits'
  BY <1>24 DEF AnnounceEnd, Goto, sends
<1>7. ASSUME NEW c \in Conn, ReadLoopEnds(c) PROVE Visits'
  BY <1>7 DEF ReadLoopEnds, Goto, sends
<1>8. ASSUME NEW c \in Conn, ReadFrameFails(c) PROVE Visits'
  BY <1>8 DEF ReadFrameFails, Goto, sends
<1>9. ASSUME NEW c \in Conn, CloseConn(c) PROVE Visits'
  BY <1>9 DEF CloseConn, Goto, sends
<1>10. ASSUME NEW c \in Conn, MarkInactive(c) PROVE Visits'
  BY <1>10 DEF MarkInactive, Goto, sends
<1>11. ASSUME NEW c \in Conn, PeerGone(c) PROVE Visits'
  BY <1>11 DEF PeerGone, sends
<1>12. ASSUME NEW c \in Conn, PeerStalls(c) PROVE Visits'
  BY <1>12 DEF PeerStalls, sends
<1>13. CASE LivenessCheck
  BY <1>13 DEF LivenessCheck, sends
<1>14. ASSUME NEW g \in Caller, BroadcastStart(g) PROVE Visits'
  <2>1. \A c \in ActiveConns : ~Unmade(c)
    BY DEF ActiveConns, ActiveMeansServed
  <2>2. /\ bpc' = [bpc EXCEPT ![g] = "next"] /\ todo' = [todo EXCEPT ![g] = ActiveConns]
        /\ UNCHANGED <<pc, target>>
    BY <1>14 DEF BroadcastStart
  <2>3. OneBroadcast'
    BY <1>14, <2>2 DEF BroadcastStart, ConsensusMutex, Sending
  <2>4. MadeTargets'
    BY <2>1, <2>2
  <2> QED
    BY <2>3, <2>4
<1>15. ASSUME NEW g \in Caller, NextPeer(g) PROVE Visits'
  <2>1. PICK c \in todo[g] : /\ todo' = [todo EXCEPT ![g] = @ \ {c}]
                             /\ target' = [target EXCEPT ![g] = c]
    BY <1>15 DEF NextPeer
  <2>2. bpc[g] = "next" /\ bpc' = [bpc EXCEPT ![g] = "len"] /\ pc' = pc
    BY <1>15 DEF NextPeer
  <2>3. OneBroadcast'
    BY <2>2 DEF Sending
  <2>4. MadeTargets'
    BY <2>1, <2>2
  <2> QED
    BY <2>3, <2>4
<1>16. ASSUME NEW g \in Caller, WriteLen(g) PROVE Visits'
  BY <1>16 DEF WriteLen, Sending
<1>17. ASSUME NEW g \in Caller, WriteData(g) PROVE Visits'
  BY <1>17 DEF WriteData, Sending, FrameDone
<1>18. ASSUME NEW g \in Caller, WriteFails(g) PROVE Visits'
  BY <1>18 DEF WriteFails, Sending, FrameDone
<1>19. ASSUME NEW g \in Caller, BroadcastEnd(g) PROVE Visits'
  BY <1>19 DEF BroadcastEnd, Sending
<1>20. CASE StopListener
  BY <1>20 DEF StopListener, sends
<1>21. CASE StopConns
  BY <1>21 DEF StopConns, sends
<1>22. CASE UNCHANGED p2pVars
  BY <1>22 DEF p2pVars
<1> QED
  BY <1>1, <1>2, <1>3, <1>4, <1>5, <1>6, <1>7, <1>8, <1>9, <1>10, <1>11,
     <1>12, <1>13, <1>14, <1>15, <1>16, <1>17, <1>18, <1>19, <1>20, <1>21, <1>22,
     <1>23, <1>24
  DEF P2PNext, Serve, Broadcast

Frames == PendingFrames /\ PendingData /\ BroadcastsStayWhole

\* A caller finds the stream as its own write left it, or torn by an announce.
LEMMA NextFrames == Typed /\ Visits /\ Frames /\ [P2PNext]_p2pVars => Frames'
<1> SUFFICES ASSUME Typed, Visits, Frames, [P2PNext]_p2pVars PROVE Frames'
  OBVIOUS
<1> USE P2PAssumption DEF Typed, P2PTypeOK, PeersInv, Visits, OneBroadcast, MadeTargets,
    Frames, PendingFrames, PendingData, BroadcastsStayWhole, FrameState
<1>1. ASSUME NEW c \in Conn, Connect(c) PROVE Frames'
  BY <1>1 DEF Connect, sends, wire, Unmade
<1>2. ASSUME NEW c \in Bootnode, DialFails(c) PROVE Frames'
  BY <1>2 DEF DialFails, sends, wire
<1>3. ASSUME NEW c \in Bootnode, DialEnds(c) PROVE Frames'
  BY <1>3 DEF DialEnds, sends, wire
<1>4. ASSUME NEW c \in Conn, RegisterPeer(c) PROVE Frames'
  BY <1>4 DEF RegisterPeer, sends, wire
<1>5. ASSUME NEW c \in Conn, AnnounceLen(c) PROVE Frames'
  BY <1>5 DEF AnnounceLen, SentLen, CutShort, Torn, FrameState, sends
<1>6. ASSUME NEW c \in Conn, AnnounceData(c) PROVE Frames'
  BY <1>6 DEF AnnounceData, SentData, CutShort, Torn, FrameState, sends
<1>23. ASSUME NEW c \in Conn, AnnounceArm(c) PROVE Frames'
  BY <1>23 DEF AnnounceArm, sends
<1>24. ASSUME NEW c \in Conn, AnnounceEnd(c) PROVE Frames'
  BY <1>24 DEF AnnounceEnd, sends
<1>7. ASSUME NEW c \in Conn, ReadLoopEnds(c) PROVE Frames'
  BY <1>7 DEF ReadLoopEnds, sends, wire
<1>8. ASSUME NEW c \in Conn, ReadFrameFails(c) PROVE Frames'
  BY <1>8 DEF ReadFrameFails, sends, wire
<1>9. ASSUME NEW c \in Conn, CloseConn(c) PROVE Frames'
  BY <1>9 DEF CloseConn, Lose, sends
<1>10. ASSUME NEW c \in Conn, MarkInactive(c) PROVE Frames'
  BY <1>10 DEF MarkInactive, sends, wire
<1>11. ASSUME NEW c \in Conn, PeerGone(c) PROVE Frames'
  BY <1>11 DEF PeerGone, Lose, sends
<1>12. ASSUME NEW c \in Conn, PeerStalls(c) PROVE Frames'
  BY <1>12 DEF PeerStalls, sends
<1>13. CASE LivenessCheck
  <2>1. PICK broken : Lose(broken, "closed")
    BY <1>13, CheckBreaks
  <2>2. UNCHANGED <<bpc, todo, target>> /\ \A g \in Caller : bpc[g] # "data"
    BY <1>13 DEF LivenessCheck, sends, CheckLock, LockFree, Sending
  <2> QED
    BY <2>1, <2>2 DEF Lose
<1>14. ASSUME NEW g \in Caller, BroadcastStart(g) PROVE Frames'
  BY <1>14 DEF BroadcastStart, wire
<1>15. ASSUME NEW g \in Caller, NextPeer(g) PROVE Frames'
  BY <1>15 DEF NextPeer
<1>16. ASSUME NEW g \in Caller, WriteLen(g) PROVE Frames'
  BY <1>16 DEF WriteLen, SentLen, Torn, FrameState, Sending, WriteOk
<1>17. ASSUME NEW g \in Caller, WriteData(g) PROVE Frames'
  BY <1>17 DEF WriteData, SentData, Torn, FrameState, FrameDone, Sending
<1>18. ASSUME NEW g \in Caller, WriteFails(g) PROVE Frames'
  BY <1>18 DEF WriteFails, CutShort, FrameDone, FrameState, Sending, WriteErr
<1>19. ASSUME NEW g \in Caller, BroadcastEnd(g) PROVE Frames'
  BY <1>19 DEF BroadcastEnd, wire
<1>20. CASE StopListener
  BY <1>20 DEF StopListener, sends, wire
<1>21. CASE StopConns
  BY <1>21 DEF StopConns, Lose, sends
<1>22. CASE UNCHANGED p2pVars
  BY <1>22 DEF p2pVars
<1> QED
  BY <1>1, <1>2, <1>3, <1>4, <1>5, <1>6, <1>7, <1>8, <1>9, <1>10, <1>11,
     <1>12, <1>13, <1>14, <1>15, <1>16, <1>17, <1>18, <1>19, <1>20, <1>21, <1>22,
     <1>23, <1>24
  DEF P2PNext, Serve, Broadcast

-----------------------------------------------------------------------------
(***************************************************************************)
(* Deadlines.                                                              *)
(***************************************************************************)

\* A write of a broadcast has its deadline, or an announce's end has cleared it.
WritesGuarded ==
    \A g \in Caller : bpc[g] \in {"len", "data"} => deadline[target[g]] # "none"

\* Nothing else clears a deadline under a broadcast: the liveness check needs the
\* lock it holds, and the mutex keeps other broadcasts away.
LEMMA NextGuarded ==
    Typed /\ Visits /\ WritesGuarded /\ [P2PNext]_p2pVars => WritesGuarded'
<1> SUFFICES ASSUME Typed, Visits, WritesGuarded, [P2PNext]_p2pVars PROVE WritesGuarded'
  OBVIOUS
<1> USE DEF Typed, P2PTypeOK, PeersInv, Visits, OneBroadcast, WritesGuarded
<1>1. CASE UNCHANGED <<deadline, bpc, target>>
  BY <1>1
<1>2. ASSUME NEW c \in Conn, AnnounceArm(c) PROVE WritesGuarded'
  BY <1>2 DEF AnnounceArm, Arm, sends
<1>3. ASSUME NEW c \in Conn, AnnounceEnd(c) PROVE WritesGuarded'
  BY <1>3 DEF AnnounceEnd, BeingSent, sends
<1>4. CASE LivenessCheck
  BY <1>4 DEF LivenessCheck, CheckLock, LockFree, Sending, sends
<1>5. ASSUME NEW g \in Caller, BroadcastStart(g) \/ BroadcastEnd(g) PROVE WritesGuarded'
  BY <1>5 DEF BroadcastStart, BroadcastEnd, wire
<1>6. ASSUME NEW g \in Caller, NextPeer(g) PROVE WritesGuarded'
  <2>1. PICK c \in todo[g] : target' = [target EXCEPT ![g] = c] /\ Arm(c)
    BY <1>6 DEF NextPeer
  <2>2. bpc' = [bpc EXCEPT ![g] = "len"] /\ c \in Conn
    BY <1>6 DEF NextPeer
  <2> QED
    BY <2>1, <2>2 DEF Arm
<1>7. ASSUME NEW g \in Caller, WriteLen(g) PROVE WritesGuarded'
  BY <1>7 DEF WriteLen
<1>8. ASSUME NEW g \in Caller, WriteData(g) \/ WriteFails(g) PROVE WritesGuarded'
  <2>1. /\ bpc[g] \in {"len", "data"} /\ bpc' = [bpc EXCEPT ![g] = "next"]
        /\ target' = [target EXCEPT ![g] = {}]
    BY <1>8 DEF WriteData, WriteFails, FrameDone
  <2>2. \A h \in Caller : bpc'[h] \notin {"len", "data"}
    BY <2>1 DEF Sending
  <2> QED
    BY <2>2
<1> QED
  BY <1>1, <1>2, <1>3, <1>4, <1>5, <1>6, <1>7, <1>8
  DEF P2PNext, Serve, Broadcast, p2pVars, wire, sends, Connect, DialFails, DialEnds,
      RegisterPeer, AnnounceLen, AnnounceData, ReadLoopEnds, ReadFrameFails, CloseConn,
      MarkInactive, PeerGone, PeerStalls, StopListener, StopConns

-----------------------------------------------------------------------------
(***************************************************************************)
(* The properties.                                                         *)
(***************************************************************************)

\* P2PInv holds in every reachable state.
LEMMA P2PInvariant == P2PSpec => []P2PInv
<1>0. P2PInv <=> Typed /\ Served /\ Visits /\ Frames
  BY DEF P2PInv, Typed, Served, Visits, Frames
<1>1. P2PInit => P2PInv
  <2> SUFFICES ASSUME P2PInit PROVE P2PInv
    OBVIOUS
  <2> USE P2PAssumption DEF P2PInit
  <2>1. Typed
    BY DEF Typed, P2PTypeOK, PeersInv, FrameState, Sending, Conn, Entry
  <2>2. Served
    BY DEF Served, ActiveMeansServed, ClosedFirst
  <2>3. Visits
    BY DEF Visits, OneBroadcast, MadeTargets, Sending
  <2>4. Frames
    BY DEF Frames, PendingFrames, PendingData, BroadcastsStayWhole, FrameState
  <2> QED
    BY <1>0, <2>1, <2>2, <2>3, <2>4
<1>2. P2PInv /\ [P2PNext]_p2pVars => P2PInv'
  BY <1>0, NextTyped, NextServed, NextVisits, NextFrames
  DEF P2PInv, Typed, Served, Visits, Frames
<1> QED
  BY <1>1, <1>2, PTL DEF P2PSpec

\* The network keeps its types for any number of connections, ids and callers, and
\* dialPeer never makes more than its attempts.
THEOREM NetworkTyped == P2PSpec => []P2PTypeOK
<1>1. P2PInv => P2PTypeOK
  BY DEF P2PInv
<1> QED
  BY <1>1, P2PInvariant, PTL

\* PeerCount never counts a connection whose goroutine has ended: whoever is counted
\* is announced to, read from, or about to be taken off the count.
THEOREM CountedAreServed == P2PSpec => []ActiveMeansServed
<1>1. P2PInv => ActiveMeansServed
  BY DEF P2PInv
<1> QED
  BY <1>1, P2PInvariant, PTL

\* Two broadcasts never mix their frames on a connection, however many callers,
\* connections and shared ids there are.
THEOREM FramesWhole == P2PSpec => []BroadcastsStayWhole
<1>1. P2PInv => BroadcastsStayWhole
  BY DEF P2PInv
<1> QED
  BY <1>1, P2PInvariant, PTL

\* A broadcast never waits for a peer without a deadline, for any number of callers
\* and connections, unless the end of an announce to that peer has cleared it: the
\* liveness check cannot come in between.
THEOREM BroadcastGuarded == P2PSpec => []WritesGuarded
<1>1. P2PInit => WritesGuarded
  BY DEF P2PInit, WritesGuarded
<1>2. P2PInv /\ WritesGuarded /\ [P2PNext]_p2pVars => WritesGuarded'
  BY NextGuarded DEF P2PInv, Typed, Visits
<1> QED
  BY <1>1, <1>2, P2PInvariant, PTL DEF P2PSpec

\* c may lose its mark: it is not open, or another connection of its id takes over
\* the entry or is cleaned up.
MayLose(c) ==
    \/ sock[c] # "open"
    \/ \E d \in Conn \ {c} : PeerID[d] = PeerID[c] /\ pc[d] \in {"register", "mark"}

\* An open connection keeps its mark through every step but a registration or a
\* late clean-up of another connection with its id.
THEOREM ConnectedCounted == P2PSpec => ConnectedStaysActive
<1> DEFINE Keeps == \A c \in ActiveConns \ ActiveConns' :
              \/ sock[c] # "open"
              \/ \E d \in Conn \ {c} : /\ PeerID[d] = PeerID[c]
                                      /\ pc[d] \in {"register", "mark"}
<1>1. P2PInv /\ [P2PNext]_p2pVars => [Keeps]_p2pVars
  <2> SUFFICES ASSUME P2PInv, P2PNext, NEW c \in ActiveConns, c \notin ActiveConns'
               PROVE  MayLose(c)
    BY DEF MayLose
  <2>1. PICK id \in DOMAIN peers : peers[id].isActive /\ peers[id].conn = c
    BY DEF ActiveConns
  <2>2. /\ c \in Conn /\ PeerID[c] = id /\ peers[id] \in Entry
        /\ pc[c] # "register"
    BY <2>1 DEF P2PInv, P2PTypeOK, PeersInv, ActiveMeansServed
  <2>3. ~(id \in DOMAIN peers' /\ peers'[id] = peers[id])
    BY <2>1 DEF ActiveConns
  <2>4. ASSUME NEW d \in Conn, RegisterPeer(d) PROVE MayLose(c)
    BY <2>2, <2>3, <2>4 DEF RegisterPeer, MayLose
  <2>5. ASSUME NEW d \in Conn, MarkInactive(d) PROVE MayLose(c)
    <3>1. PeerID[d] = id /\ pc[d] = "mark"
      BY <2>1, <2>3, <2>5 DEF MarkInactive, Deactivated
    <3>2. CASE d = c
      BY <3>1, <3>2 DEF MayLose, P2PInv, ClosedFirst
    <3>3. CASE d # c
      BY <2>2, <3>1, <3>3 DEF MayLose
    <3> QED
      BY <3>2, <3>3
  <2>6. CASE LivenessCheck
    <3>1. PICK broken :
             /\ \A d \in broken : d \in ActiveConns /\ sock[d] # "open"
             /\ peers' = [i \in DOMAIN peers |->
                              IF peers[i].conn \in broken
                                 THEN [peers[i] EXCEPT !.isActive = FALSE]
                                 ELSE peers[i]]
      BY <2>6, CheckBreaks
    <3>2. c \in broken
      BY <2>1, <2>3, <3>1
    <3> QED
      BY <3>1, <3>2 DEF MayLose
  <2>7. CASE UNCHANGED peers
    BY <2>1, <2>3, <2>7
  <2> QED
    BY <2>4, <2>5, <2>6, <2>7
    DEF P2PNext, Serve, Broadcast, Connect, DialFails, DialEnds, AnnounceArm, AnnounceLen,
        AnnounceData, AnnounceEnd,
        ReadLoopEnds, ReadFrameFails, CloseConn, PeerGone, PeerStalls, BroadcastStart,
        NextPeer, WriteLen, WriteData, WriteFails, BroadcastEnd, StopListener, StopConns
<1> QED
  BY <1>1, P2PInvariant, PTL DEF P2PSpec, ConnectedStaysActive

=============================================================================
