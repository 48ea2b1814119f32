----------------------------- MODULE P2PNetwork -----------------------------
(***************************************************************************)
(* The connections of the P2P network (internal/p2p/network.go).           *)
(*                                                                         *)
(* A connection and the goroutine that serves it are one thing here:       *)
(* handleInbound serves an accepted connection, and dialPeer makes at most *)
(* one connection to its bootnode and then serves it.  Both register the   *)
(* connection in n.peers, write an announce frame and run readLoop.        *)
(*                                                                         *)
(* n.mu is held for writing only in short sections, each one action;       *)
(* Broadcast holds it for reading while it writes frame after frame.       *)
(* Broadcast is called by AttestBlock, under the consensus engine's mutex. *)
(*                                                                         *)
(* What peers send is the business of SyncEngine (Deliver).  A write to a  *)
(* peer that has stopped reading blocks until its deadline.  The deadline  *)
(* belongs to the connection, not to the writer: a broadcast, an announce  *)
(* and the liveness check set and clear one and the same.                  *)
(***************************************************************************)
EXTENDS Naturals

CONSTANTS
    Inbound,       \* connections that peers can open
    Bootnode,      \* entries of n.bootnodes, each with its dialPeer goroutine
    PeerID,        \* PeerID[c]: the key of c in n.peers
    DialAttempts,  \* attempts of dialPeer (5 in the code)
    Caller         \* goroutines that attest blocks, and so broadcast

Conn == Inbound \cup Bootnode

\* What a connection can carry next besides the data of a caller's frame: the
\* length of a frame, or anything at all once frames were torn apart.
FrameState == {"boundary", "announce", "mixed", "torn"}

ASSUME P2PAssumption ==
    /\ Inbound \cap Bootnode = {}
    /\ DialAttempts \in Nat \ {0}
    /\ Conn \subseteq DOMAIN PeerID
    /\ Caller \cap FrameState = {}

VARIABLES
    stopPc,    \* control point of Stop: "running", "conns", "done"
    pc,        \* control point of each connection's goroutine
    attempt,   \* dialPeer: failed attempts; 0 again when it has a connection
    sock,      \* each connection's socket; "gone": the peer has closed it
    buffer,    \* its send buffer: "room" or "full"
    deadline,  \* its write deadline: "none", "set", or "lost" to an announce
    frame,     \* the frame whose data its stream needs next, or a FrameState
    peers,     \* n.peers: a partial function to [conn, isActive]
    bpc,       \* control point of each caller's Broadcast
    todo,      \* the peers its loop has still to visit
    target     \* the connection it is writing to; {} for none

p2pVars == <<stopPc, pc, attempt, sock, buffer, deadline, frame, peers, bpc,
             todo, target>>

wire  == <<buffer, deadline, frame>>
sends == <<bpc, todo, target>>

\* NewNetwork and Start.
P2PInit ==
    /\ stopPc = "running"
    /\ pc = [c \in Conn |-> IF c \in Bootnode THEN "dial" ELSE "none"]
    /\ attempt = [b \in Bootnode |-> 0]
    /\ sock = [c \in Conn |-> "none"]
    /\ buffer = [c \in Conn |-> "room"]
    /\ deadline = [c \in Conn |-> "none"]
    /\ frame = [c \in Conn |-> "boundary"]
    /\ peers = [id \in {} |-> {}]
    /\ bpc = [g \in Caller |-> "idle"]
    /\ todo = [g \in Caller |-> {}]
    /\ target = [g \in Caller |-> {}]

Goto(c, l) == pc' = [pc EXCEPT ![c] = l]

\* The context of Start is cancelled; the listener is closed right after that.
Stopped == stopPc # "running"

\* Control points at which Broadcast holds n.mu for reading.
Sending == {"next", "len", "data"}

\* n.mu can be locked for writing.
LockFree == \A g \in Caller : bpc[g] \notin Sending

\* The connections of the active entries of n.peers.
ActiveConns == {peers[id].conn : id \in {i \in DOMAIN peers : peers[i].isActive}}

-----------------------------------------------------------------------------
(***************************************************************************)
(* The wire.                                                               *)
(***************************************************************************)

\* What frames torn apart are called: an announce was one of them, or not.
Torn(w, f) == IF "announce" \in {w, f} THEN "torn" ELSE "mixed"

\* Writer w sends the length of a frame, or its data, while the peer is there.
SentLen(c, w) ==
    LET f == frame[c]
        next == CASE f = "boundary" -> w
                  [] f \in FrameState \ {"boundary", "announce"} -> f
                  [] OTHER -> Torn(w, f)
    IN frame' = IF sock[c] = "open" THEN [frame EXCEPT ![c] = next] ELSE frame

SentData(c, w) ==
    LET f == frame[c]
        next == CASE f = w -> "boundary"
                  [] f \in FrameState \ {"boundary", "announce"} -> f
                  [] OTHER -> Torn(w, f)
    IN frame' = IF sock[c] = "open" THEN [frame EXCEPT ![c] = next] ELSE frame

WriteOk(c) == sock[c] \in {"open", "gone"} /\ buffer[c] # "full"

\* conn.Write fails: the connection is broken, or its deadline passes.
WriteErr(c) ==
    sock[c] \in {"gone", "closed"} \/ (buffer[c] = "full" /\ deadline[c] = "set")

\* A failed write of a length or of data leaves a part of a frame behind, or nothing
\* of it when it was the length.
CutShort(c, part) ==
    \/ sock[c] = "open" /\ frame' = [frame EXCEPT ![c] = "torn"]
    \/ (sock[c] # "open" \/ part = "len") /\ UNCHANGED frame

Arm(c)    == deadline' = [deadline EXCEPT ![c] = "set"]
Disarm(c) == deadline' = [deadline EXCEPT ![c] = "none"]

\* The connections of C come to state s; nothing more reaches their peers.
Lose(C, s) ==
    /\ sock' = [c \in Conn |-> IF c \in C THEN s ELSE sock[c]]
    /\ buffer' = [c \in Conn |-> IF c \in C THEN "room" ELSE buffer[c]]
    /\ frame' = [c \in Conn |-> IF c \in C THEN "boundary" ELSE frame[c]]

\* External: the peer closes the connection or dies.
PeerGone(c) ==
    /\ sock[c] = "open"
    /\ Lose({c}, "gone")
    /\ UNCHANGED <<stopPc, pc, attempt, deadline, peers, sends>>

\* External: the peer does not read and the buffer is full, at any time, or it
\* reads on.
PeerStalls(c) ==
    /\ sock[c] = "open"
    /\ buffer' = [buffer EXCEPT ![c] = IF @ = "room" THEN "full" ELSE "room"]
    /\ UNCHANGED <<stopPc, pc, attempt, sock, deadline, frame, peers, sends>>

-----------------------------------------------------------------------------
(***************************************************************************)
(* The goroutine of a connection.                                          *)
(***************************************************************************)

\* Accept of acceptLoop, or DialTimeout of dialPeer, returns a connection; its
\* goroutine goes on to register it.  acceptLoop goes on after an error and ends
\* with the first one after Stop, which has closed the listener.
Connect(c) ==
    /\ pc[c] \in {"none", "dial"}
    /\ ~Stopped
    /\ sock' = [sock EXCEPT ![c] = "open"]
    /\ Goto(c, "register")
    /\ attempt' = [b \in Bootnode |-> IF b = c THEN 0 ELSE attempt[b]]
    /\ UNCHANGED <<stopPc, wire, peers, sends>>

OneTooMany(n) == n <= DialAttempts   \* mutation: attempt <= 5

TriesAgain(n) == n < DialAttempts

\* An attempt of dialPeer fails, and the sleep after it is over.
DialFails(b) ==
    /\ pc[b] = "dial"
    /\ ~Stopped
    /\ attempt' = [attempt EXCEPT ![b] = @ + 1]
    /\ Goto(b, IF TriesAgain(attempt[b] + 1) THEN "dial" ELSE "done")
    /\ UNCHANGED <<stopPc, sock, wire, peers, sends>>

\* connectToBootnodes or dialPeer sees that the context is done.
DialEnds(b) ==
    /\ pc[b] = "dial"
    /\ Stopped
    /\ Goto(b, "done")
    /\ UNCHANGED <<stopPc, attempt, sock, wire, peers, sends>>

\* The connection becomes the entry of its id, whatever was there before.
RegisterPeer(c) ==
    /\ pc[c] = "register"
    /\ LockFree
    /\ peers' = [id \in DOMAIN peers \cup {PeerID[c]} |->
                    IF id = PeerID[c] THEN [conn |-> c, isActive |-> TRUE]
                                      ELSE peers[id]]
    /\ Goto(c, "announce")
    /\ UNCHANGED <<stopPc, attempt, sock, wire, sends>>

\* writeFrame of the announce, without a lock: it sets the deadline, ...
AnnounceArm(c) ==
    /\ pc[c] = "announce"
    /\ Arm(c)
    /\ Goto(c, "announceLen")
    /\ UNCHANGED <<stopPc, attempt, sock, buffer, frame, peers, sends>>

\* ... writes the length ...
AnnounceLen(c) ==
    /\ pc[c] = "announceLen"
    /\ \/ WriteOk(c) /\ SentLen(c, "announce") /\ Goto(c, "announceData")
       \/ WriteErr(c) /\ CutShort(c, "len") /\ Goto(c, "announceEnd")
    /\ UNCHANGED <<stopPc, attempt, sock, buffer, deadline, peers, sends>>

\* ... and the data, ...
AnnounceData(c) ==
    /\ pc[c] = "announceData"
    /\ \/ WriteOk(c) /\ SentData(c, "announce")
       \/ WriteErr(c) /\ CutShort(c, "data")
    /\ Goto(c, "announceEnd")
    /\ UNCHANGED <<stopPc, attempt, sock, buffer, deadline, peers, sends>>

\* A caller of Broadcast is writing to c.
BeingSent(c) == \E g \in Caller : bpc[g] \in {"len", "data"} /\ target[g] = c

\* ... and clears the deadline, also when it is by now the one of a broadcast.  The
\* error of writeFrame is ignored.
AnnounceEnd(c) ==
    /\ pc[c] = "announceEnd"
    /\ deadline' = [deadline EXCEPT ![c] = IF BeingSent(c) THEN "lost" ELSE "none"]
    /\ Goto(c, "read")
    /\ UNCHANGED <<stopPc, attempt, sock, buffer, frame, peers, sends>>

NeverLooks == FALSE           \* mutation: readLoop does not look at the context

CtxDone == Stopped

\* readLoop sees that the context is done, before it reads the next frame.
ReadLoopEnds(c) ==
    /\ pc[c] = "read"
    /\ CtxDone
    /\ Goto(c, "close")
    /\ UNCHANGED <<stopPc, attempt, sock, wire, peers, sends>>

\* readFrame returns an error: end of file, 30 seconds of silence, a frame that is
\* too large, a closed connection.  (A frame is handed on or dropped.)
ReadFrameFails(c) ==
    /\ pc[c] = "read"
    /\ Goto(c, "close")
    /\ UNCHANGED <<stopPc, attempt, sock, wire, peers, sends>>

\* The deferred clean-up of readLoop closes the connection ...
CloseConn(c) ==
    /\ pc[c] = "close"
    /\ Lose({c}, "closed")
    /\ Goto(c, "mark")
    /\ UNCHANGED <<stopPc, attempt, deadline, peers, sends>>

LeavesEntry(c) == peers       \* mutation: IsActive is left alone

\* The entry of the id is made inactive, even when it is another connection's.
Deactivated(c) == [peers EXCEPT ![PeerID[c]].isActive = FALSE]

\* ... and then takes the lock to mark the peer.
MarkInactive(c) ==
    /\ pc[c] = "mark"
    /\ LockFree
    /\ peers' = Deactivated(c)
    /\ Goto(c, "done")
    /\ UNCHANGED <<stopPc, attempt, sock, wire, sends>>

\* The steps that the goroutine takes sooner or later, whatever peers do.
Serve(c) ==
    \/ c \in Bootnode /\ (Connect(c) \/ DialFails(c) \/ DialEnds(c))
    \/ RegisterPeer(c)
    \/ AnnounceArm(c)
    \/ AnnounceLen(c)
    \/ AnnounceData(c)
    \/ AnnounceEnd(c)
    \/ ReadLoopEnds(c)
    \/ sock[c] # "open" /\ ReadFrameFails(c)
    \/ CloseConn(c)
    \/ MarkInactive(c)

-----------------------------------------------------------------------------
(***************************************************************************)
(* livenessLoop.  A select may take the tick when the context is done too. *)
(***************************************************************************)

UnderReadLock == TRUE         \* mutation: RLock instead of Lock

CheckLock == LockFree

SlowIsBroken(c) == sock[c] = "gone" \/ buffer[c] = "full"   \* mutation

\* A zero-byte write may report that the peer is gone; it sends nothing and
\* notices nothing else.
SeemsBroken(c) == sock[c] = "gone"

\* checkPeerLiveness: a zero-byte write to every active peer, under a deadline
\* that is cleared again.  One whose connection is closed fails it for certain.
LivenessCheck ==
    /\ CheckLock
    /\ \E noticed \in SUBSET {c \in ActiveConns : SeemsBroken(c)} :
          LET broken == noticed \cup {c \in ActiveConns : sock[c] = "closed"}
          IN /\ Lose(broken, "closed")
             /\ peers' = [id \in DOMAIN peers |->
                             IF peers[id].conn \in broken
                                THEN [peers[id] EXCEPT !.isActive = FALSE]
                                ELSE peers[id]]
    /\ deadline' = [c \in Conn |-> IF c \in ActiveConns THEN "none" ELSE deadline[c]]
    /\ UNCHANGED <<stopPc, pc, attempt, sends>>

-----------------------------------------------------------------------------
(***************************************************************************)
(* Broadcast.                                                              *)
(***************************************************************************)

NoMutex(g) == TRUE            \* mutation: AttestBlock broadcasts unlocked

\* AttestBlock holds the consensus engine's mutex until Broadcast returns.
ConsensusMutex(g) == \A h \in Caller \ {g} : bpc[h] \notin Sending

\* Broadcast takes n.mu for reading; no entry changes until it is released.
BroadcastStart(g) ==
    /\ bpc[g] = "idle"
    /\ ConsensusMutex(g)
    /\ bpc' = [bpc EXCEPT ![g] = "next"]
    /\ todo' = [todo EXCEPT ![g] = ActiveConns]
    /\ UNCHANGED <<stopPc, pc, attempt, sock, wire, peers, target>>

\* The loop comes to the next active peer, in any order: writeFrame sets the
\* deadline and writes the length, then the data.
NextPeer(g) ==
    /\ bpc[g] = "next"
    /\ \E c \in todo[g] :
          /\ todo' = [todo EXCEPT ![g] = @ \ {c}]
          /\ target' = [target EXCEPT ![g] = c]
          /\ Arm(c)
    /\ bpc' = [bpc EXCEPT ![g] = "len"]
    /\ UNCHANGED <<stopPc, pc, attempt, sock, buffer, frame, peers>>

WriteLen(g) ==
    /\ bpc[g] = "len"
    /\ WriteOk(target[g])
    /\ SentLen(target[g], g)
    /\ bpc' = [bpc EXCEPT ![g] = "data"]
    /\ UNCHANGED <<stopPc, pc, attempt, sock, buffer, deadline, peers, todo, target>>

\* writeFrame clears the deadline and the loop goes on.
FrameDone(g) ==
    /\ Disarm(target[g])
    /\ target' = [target EXCEPT ![g] = {}]
    /\ bpc' = [bpc EXCEPT ![g] = "next"]

WriteData(g) ==
    /\ bpc[g] = "data"
    /\ WriteOk(target[g])
    /\ SentData(target[g], g)
    /\ FrameDone(g)
    /\ UNCHANGED <<stopPc, pc, attempt, sock, buffer, peers, todo>>

\* A write fails; the peer stays active all the same.
WriteFails(g) ==
    /\ bpc[g] \in {"len", "data"}
    /\ WriteErr(target[g])
    /\ CutShort(target[g], bpc[g])
    /\ FrameDone(g)
    /\ UNCHANGED <<stopPc, pc, attempt, sock, buffer, peers, todo>>

BroadcastEnd(g) ==
    /\ bpc[g] = "next"
    /\ todo[g] = {}
    /\ bpc' = [bpc EXCEPT ![g] = "idle"]
    /\ UNCHANGED <<stopPc, pc, attempt, sock, wire, peers, todo, target>>

Broadcast(g) ==
    NextPeer(g) \/ WriteLen(g) \/ WriteData(g) \/ WriteFails(g) \/ BroadcastEnd(g)

-----------------------------------------------------------------------------
(***************************************************************************)
(* Stop: the context is cancelled and the listener closed, and then every  *)
(* connection that is in n.peers is closed, active or not.                 *)
(***************************************************************************)

StopListener ==
    /\ stopPc = "running"
    /\ stopPc' = "conns"
    /\ UNCHANGED <<pc, attempt, sock, wire, peers, sends>>

StopConns ==
    /\ stopPc = "conns"
    /\ LockFree
    /\ Lose({peers[id].conn : id \in DOMAIN peers}, "closed")
    /\ stopPc' = "done"
    /\ UNCHANGED <<pc, attempt, deadline, peers, sends>>

-----------------------------------------------------------------------------

P2PNext ==
    \/ \E c \in Conn : \/ Serve(c) \/ Connect(c) \/ ReadFrameFails(c)
                       \/ PeerGone(c) \/ PeerStalls(c)
    \/ LivenessCheck
    \/ \E g \in Caller : BroadcastStart(g) \/ Broadcast(g)
    \/ StopListener
    \/ StopConns

(***************************************************************************)
(* Fairness.  Goroutines that can run do run; a dial and the read of a     *)
(* frame return by their timeouts at the latest.  A waiting writer keeps   *)
(* new readers off a RWMutex, and a blocked write uses whatever room there *)
(* comes to be, so both kinds of waiting are strongly fair.  Nothing is    *)
(* assumed of peers, nor that anybody calls Stop or Broadcast.             *)
(***************************************************************************)
P2PFairness ==
    /\ \A c \in Conn : SF_p2pVars(Serve(c))
    /\ \A g \in Caller : SF_p2pVars(Broadcast(g))
    /\ SF_p2pVars(StopConns)

P2PSpec == P2PInit /\ [][P2PNext]_p2pVars /\ P2PFairness

-----------------------------------------------------------------------------
(***************************************************************************)
(* Properties.                                                             *)
(***************************************************************************)

\* Every variable keeps its type, and dialPeer never makes more than its attempts.
P2PTypeOK ==
    /\ stopPc \in {"running", "conns", "done"}
    /\ pc \in [Conn -> {"none", "dial", "register", "announce", "announceLen",
                        "announceData", "announceEnd", "read", "close", "mark", "done"}]
    /\ attempt \in [Bootnode -> 0 .. DialAttempts]
    /\ \A b \in Bootnode : pc[b] = "dial" => attempt[b] < DialAttempts
    /\ sock \in [Conn -> {"none", "open", "gone", "closed"}]
    /\ buffer \in [Conn -> {"room", "full"}]
    /\ deadline \in [Conn -> {"none", "set", "lost"}]
    /\ frame \in [Conn -> FrameState \cup Caller]
    /\ DOMAIN peers \subseteq {PeerID[c] : c \in Conn}
    /\ \A id \in DOMAIN peers :
          /\ peers[id].conn \in Conn /\ PeerID[peers[id].conn] = id
          /\ peers[id].isActive \in BOOLEAN
    /\ bpc \in [Caller -> Sending \cup {"idle"}]
    /\ todo \in [Caller -> SUBSET Conn]
    /\ \A g \in Caller : bpc[g] \in {"len", "data"} => target[g] \in Conn

\* PeerCount never counts a connection nobody reads from any more: the goroutine
\* of every active entry is still running, whatever ids are reused and however
\* clean-ups, liveness checks and registrations interleave.
ActiveMeansServed ==
    \A id \in DOMAIN peers :
        peers[id].isActive =>
            pc[peers[id].conn] \notin {"none", "dial", "register", "done"}

\* A connected peer stays counted, and so stays a target of broadcasts, however slow
\* it is: only another connection with its id, which takes over the entry or is
\* cleaned up late, takes away the mark of a connection that is open.
ConnectedStaysActive ==
    [][\A c \in ActiveConns \ ActiveConns' :
          \/ sock[c] # "open"
          \/ \E d \in Conn \ {c} : /\ PeerID[d] = PeerID[c]
                                  /\ pc[d] \in {"register", "mark"}]_p2pVars

(***************************************************************************)
(* Two broadcasts never mix their frames on a connection.  The read lock   *)
(* of Broadcast does not give this; the mutex of its caller does.  (A      *)
(* broadcast and an announce can mix, and a deadline can cut a frame       *)
(* short.)                                                                 *)
(***************************************************************************)
BroadcastsStayWhole == \A c \in Conn : frame[c] # "mixed"

\* The peer of c is there and reads nothing.
Stuck(c) == sock[c] = "open" /\ buffer[c] = "full"

(***************************************************************************)
(* Every Broadcast ends and gives n.mu and the consensus mutex back,       *)
(* although peers may stop reading for ever, as the liveness check does    *)
(* not take its deadlines away.  The one exception: it hangs for good on a *)
(* peer that reads nothing more, in a write whose deadline the end of that *)
(* connection's announce has cleared.                                      *)
(***************************************************************************)
BroadcastEnds ==
    []<>LockFree \/ <>[](\E c \in Conn : Stuck(c) /\ deadline[c] = "lost")

\* The announce of c waits without a deadline for a peer that reads nothing: the
\* liveness check or a broadcast has cleared it.
AnnounceHangs(c) ==
    Stuck(c) /\ deadline[c] = "none" /\ pc[c] \in {"announceLen", "announceData"}

(***************************************************************************)
(* After Stop every goroutine of a connection ends, every connection is    *)
(* closed and no peer is counted, connections that Stop does not see       *)
(* included: those registered after it and those whose entry another       *)
(* connection took over.  The exceptions: a Broadcast hangs for good, with *)
(* the lock that Stop needs, or an announce does on a connection that Stop *)
(* does not see.                                                           *)
(***************************************************************************)
StopEndsNetwork ==
    \/ Stopped ~> /\ \A c \in Conn : /\ pc[c] \in {"none", "done"}
                                     /\ sock[c] \in {"none", "closed"}
                  /\ ActiveConns = {}
    \/ <>[](\E c \in Conn : Stuck(c) /\ deadline[c] = "lost")
    \/ <>[](\E c \in Conn : AnnounceHangs(c))

=============================================================================
