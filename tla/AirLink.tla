------------------------------ MODULE AirLink ------------------------------
(***************************************************************************)
(* The Air-IPC socket between the Meshtastic backend (the node) and the    *)
(* main loop of quadrf-lora-phy.  The node's radio thread writes with a    *)
(* time limit (writeFrame), its RX thread reads; the daemon accepts,       *)
(* reads, and writes without a limit (writeAll) in one loop.  The newest   *)
(* connection wins; a node that dies in the middle of a frame connects     *)
(* again as a new one.                                                     *)
(***************************************************************************)
EXTENDS AirIpc, Functions, FiniteSetsExt

CONSTANTS
  Uplink, Downlink,   \* the messages sent to the daemon, and to the node
  MaxUp, MaxDown,     \* bounds: messages begun in each direction
  MaxConns,           \* bound: connections made
  Capacity,           \* bytes the kernel keeps of one direction
  ReadLen             \* bytes of a read

ASSUME AirLinkAssumption ==
  /\ \A m \in Uplink \cup Downlink : m \in Messages /\ Decodes(m)
  /\ \A m \in Uplink : m.type # kRxIndicate
  /\ \A m \in Downlink : m.type = kRxIndicate
  /\ MaxConns \in Nat /\ Capacity \in Nat \ {0} /\ ReadLen \in Nat \ {0}

Conns == 1..MaxConns

VARIABLES
  node,         \* the meshtasticd process: "up" or "down"
  conn,         \* its connection, the newest one made
  writing,      \* what writeFrame has still to write
  rx_thread,    \* "reads", or "gone" once the socket closed
  node_deframer,
  up, down,     \* the bytes on the way, of each connection
  node_end,     \* the node's end of each connection: "none", "open", "closed"
  phy_end,      \* the daemon's end
  backlog,      \* connections waiting for accept()
  client,       \* client_fd: a connection, or 0
  pc,           \* where the main loop is
  deframer,     \* ipc_deframer
  out,          \* what writeAll has still to write
  g_running,
  sent,         \* history: the messages begun by writeFrame, and bytes put
  handled,      \* history: the messages the daemon acted on
  told,         \* history: the messages begun by sendRxIndicate
  got           \* history: the receptions that reached the node

nodeVars == <<node, conn, writing, rx_thread, node_deframer, sent, got>>
phyVars == <<client, pc, deframer, out, g_running, handled, told>>
sockVars == <<up, down, node_end, phy_end, backlog>>
vars == <<nodeVars, phyVars, sockVars>>

Init ==
  /\ node = "down" /\ conn = 0 /\ writing = <<>> /\ rx_thread = "gone"
  /\ node_deframer = Fresh
  /\ up = [c \in Conns |-> <<>>] /\ down = [c \in Conns |-> <<>>]
  /\ node_end = [c \in Conns |-> "none"] /\ phy_end = [c \in Conns |-> "none"]
  /\ backlog = <<>>
  /\ client = 0 /\ pc = "accept" /\ deframer = Fresh /\ out = <<>>
  /\ g_running = TRUE
  /\ sent = [c \in Conns |-> <<>>] /\ handled = [c \in Conns |-> <<>>]
  /\ told = [c \in Conns |-> <<>>] /\ got = [c \in Conns |-> <<>>]

First(n, bytes) == SubSeq(bytes, 1, Min({n, Len(bytes)}))
Rest(n, bytes) == SubSeq(bytes, n + 1, Len(bytes))

(* What the RX thread does with a frame, and what handleIpcFrames does: a  *)
(* reception is passed on; SetModem and TxEnqueue are acted on; anything   *)
(* else, and what does not decode, is dropped.                             *)
PassOn == [done \in Seq(Messages) |-> [m \in Messages |->
  IF m.type = kRxIndicate /\ Decodes(m) THEN Append(done, m) ELSE done]]
Handle == [done \in Seq(Messages) |-> [m \in Messages |->
  IF m.type # kRxIndicate /\ Decodes(m) THEN Append(done, m) ELSE done]]

Begun(messages) == SumFunction([c \in Conns |-> Len(messages[c])])
-----------------------------------------------------------------------------
(* The node. *)

Connect ==
  /\ node = "down" /\ conn < MaxConns /\ pc # "exit"
  /\ node' = "up" /\ conn' = conn + 1
  /\ node_end' = [node_end EXCEPT ![conn + 1] = "open"]
  /\ backlog' = Append(backlog, conn + 1)
  /\ rx_thread' = "reads" /\ node_deframer' = Fresh
  /\ UNCHANGED <<writing, sent, got, phyVars, up, down, phy_end>>

NodeDies ==
  /\ node = "up"
  /\ node' = "down" /\ writing' = <<>> /\ rx_thread' = "gone"
  /\ node_end' = [node_end EXCEPT ![conn] = "closed"]
  /\ UNCHANGED <<conn, node_deframer, sent, got, phyVars, up, down, phy_end,
                 backlog>>

WriteFrame(m) ==
  /\ node = "up" /\ writing = <<>> /\ Begun(sent) < MaxUp
  /\ writing' = EncodeFrame(m)
  /\ sent' = [sent EXCEPT ![conn] = Append(@, [msg |-> m, put |-> 0])]
  /\ UNCHANGED <<node, conn, rx_thread, node_deframer, got, phyVars, sockVars>>

(* write() takes what there is room for. *)
WriteSome ==
  /\ writing # <<>> /\ phy_end[conn] # "closed"
  /\ LET some == First(Capacity - Len(up[conn]), writing)
     IN  /\ some # <<>>
         /\ up' = [up EXCEPT ![conn] = @ \o some]
         /\ writing' = Rest(Len(some), writing)
         /\ sent' = [sent EXCEPT ![conn][Len(sent[conn])].put = @ + Len(some)]
  /\ UNCHANGED <<node, conn, rx_thread, node_deframer, got, phyVars, down,
                 node_end, phy_end, backlog>>

(* No room for 200 ms, or a closed socket: the frame is given up, whatever *)
(* has been written of it.                                                 *)
GiveUp ==
  /\ writing # <<>>
  /\ \/ phy_end[conn] = "closed"
     \/ Len(up[conn]) = Capacity
  /\ writing' = <<>>
  /\ UNCHANGED <<node, conn, rx_thread, node_deframer, sent, got, phyVars,
                 sockVars>>

RxThread ==
  /\ rx_thread = "reads" /\ down[conn] # <<>>
  /\ LET d == Feed(node_deframer, First(ReadLen, down[conn]))
     IN  /\ node_deframer' = [d EXCEPT !.frames = <<>>]
         /\ got' = [got EXCEPT ![conn] = After(PassOn, @, d.frames)]
  /\ down' = [down EXCEPT ![conn] = Rest(ReadLen, @)]
  /\ UNCHANGED <<node, conn, writing, rx_thread, sent, phyVars, up, node_end,
                 phy_end, backlog>>

RxThreadEnds ==
  /\ rx_thread = "reads" /\ down[conn] = <<>> /\ phy_end[conn] = "closed"
  /\ rx_thread' = "gone"
  /\ UNCHANGED <<node, conn, writing, node_deframer, sent, got, phyVars,
                 sockVars>>
-----------------------------------------------------------------------------
(* The daemon's main loop: accept, read, drain the receiver. *)

Closed(c) == [d \in Conns |-> IF d = c THEN "closed" ELSE phy_end[d]]

(* Mutant: the deframer goes on where the last connection left it. *)
AcceptClient_KeepsDeframer ==
  /\ pc = "accept" /\ g_running
  /\ pc' = "read"
  /\ IF backlog = <<>>
       THEN UNCHANGED <<backlog, phy_end, client>>
       ELSE /\ backlog' = Tail(backlog)
            /\ phy_end' = [Closed(client) EXCEPT ![Head(backlog)] = "open"]
            /\ client' = Head(backlog)
  /\ UNCHANGED <<nodeVars, deframer, out, g_running, handled, told, up, down,
                 node_end>>

AcceptClient ==
  /\ pc = "accept" /\ g_running
  /\ pc' = "read"
  /\ IF backlog = <<>>
       THEN UNCHANGED <<backlog, phy_end, client, deframer>>
       ELSE /\ backlog' = Tail(backlog)
            /\ phy_end' = [Closed(client) EXCEPT ![Head(backlog)] = "open"]
            /\ client' = Head(backlog)
            /\ deframer' = Fresh
  /\ UNCHANGED <<nodeVars, out, g_running, handled, told, up, down, node_end>>

ReadClient ==
  /\ pc = "read" /\ client # 0 /\ up[client] # <<>>
  /\ pc' = "drain"
  /\ LET d == Feed(deframer, First(ReadLen, up[client]))
     IN  /\ deframer' = [d EXCEPT !.frames = <<>>]
         /\ handled' = [handled EXCEPT ![client] = After(Handle, @, d.frames)]
  /\ up' = [up EXCEPT ![client] = Rest(ReadLen, @)]
  /\ UNCHANGED <<nodeVars, client, out, g_running, told, down, node_end,
                 phy_end, backlog>>

ClientGone ==
  /\ pc = "read" /\ client # 0 /\ up[client] = <<>> /\ node_end[client] = "closed"
  /\ pc' = "drain"
  /\ phy_end' = Closed(client) /\ client' = 0
  /\ UNCHANGED <<nodeVars, deframer, out, g_running, handled, told, up, down,
                 node_end, backlog>>

NothingToRead ==
  /\ pc = "read"
  /\ client # 0 => up[client] = <<>> /\ node_end[client] # "closed"
  /\ pc' = "drain"
  /\ UNCHANGED <<nodeVars, client, deframer, out, g_running, handled, told,
                 sockVars>>

Drained ==
  /\ pc = "drain"
  /\ pc' = "accept"
  /\ UNCHANGED <<nodeVars, client, deframer, out, g_running, handled, told,
                 sockVars>>

SendRxIndicate(m) ==
  /\ pc = "drain" /\ client # 0 /\ Begun(told) < MaxDown
  /\ pc' = "write" /\ out' = EncodeFrame(m)
  /\ told' = [told EXCEPT ![client] = Append(@, m)]
  /\ UNCHANGED <<nodeVars, client, deframer, g_running, handled, sockVars>>

WriteAll ==
  /\ pc = "write" /\ g_running /\ node_end[client] = "open"
  /\ LET some == First(Capacity - Len(down[client]), out)
     IN  /\ some # <<>>
         /\ down' = [down EXCEPT ![client] = @ \o some]
         /\ out' = Rest(Len(some), out)
         /\ pc' = IF Len(some) = Len(out) THEN "drain" ELSE "write"
  /\ UNCHANGED <<nodeVars, client, deframer, g_running, handled, told, up,
                 node_end, phy_end, backlog>>

(* Mutant: a failed write is tried again. *)
WriteAllFails_OnStop ==
  /\ pc = "write" /\ ~g_running
  /\ pc' = "drain" /\ out' = <<>>
  /\ phy_end' = Closed(client) /\ client' = 0
  /\ UNCHANGED <<nodeVars, deframer, g_running, handled, told, up, down,
                 node_end, backlog>>

(* A failed write, or a stop, drops the client. *)
WriteAllFails ==
  /\ pc = "write" /\ (~g_running \/ node_end[client] = "closed")
  /\ pc' = "drain" /\ out' = <<>>
  /\ phy_end' = Closed(client) /\ client' = 0
  /\ UNCHANGED <<nodeVars, deframer, g_running, handled, told, up, down,
                 node_end, backlog>>

Stop ==
  /\ g_running /\ g_running' = FALSE
  /\ UNCHANGED <<nodeVars, client, pc, deframer, out, handled, told, sockVars>>

Exit ==
  /\ pc = "accept" /\ ~g_running
  /\ pc' = "exit" /\ client' = 0 /\ backlog' = <<>>
  /\ phy_end' = [c \in Conns |-> IF node_end[c] = "none" THEN "none" ELSE "closed"]
  /\ UNCHANGED <<nodeVars, deframer, out, g_running, handled, told, up, down,
                 node_end>>
-----------------------------------------------------------------------------
Writer == (\E m \in Uplink : WriteFrame(m)) \/ WriteSome \/ GiveUp
Reader == RxThread \/ RxThreadEnds
MainLoop ==
  \/ AcceptClient \/ ReadClient \/ ClientGone \/ NothingToRead \/ Drained
  \/ (\E m \in Downlink : SendRxIndicate(m)) \/ WriteAll \/ WriteAllFails \/ Exit

Next == Connect \/ NodeDies \/ Writer \/ Reader \/ MainLoop \/ Stop

Spec == Init /\ [][Next]_vars

(* The threads go on while they are not blocked. *)
FairSpec == Spec /\ WF_vars(WriteSome \/ GiveUp) /\ WF_vars(Reader) /\ WF_vars(MainLoop)
-----------------------------------------------------------------------------
Msgs(c) == [i \in DOMAIN sent[c] |-> sent[c][i].msg]

(* Frame i of connection c: where its first byte is in the stream, and     *)
(* whether writeFrame gave it up half way.                                 *)
Start(c, i) == SumFunction([j \in 1..(i - 1) |-> sent[c][j].put])
Missing(c, i) == Len(EncodeFrame(sent[c][i].msg)) - sent[c][i].put
WasCut(c, i) ==
  Missing(c, i) > 0 /\ (i < Len(sent[c]) \/ c # conn \/ writing = <<>>)

(* Both ends act on the messages of a connection in the order in which     *)
(* they were begun, each once, unchanged and without a gap, though reads   *)
(* and writes cut the stream anywhere and a node that dies in the middle   *)
(* of a frame is followed by another (ipc_deframer.reset() on accept); the *)
(* daemon does up to the first frame that writeFrame gave up half way.     *)
InOrder ==
  \A c \in Conns :
    /\ (\A i \in DOMAIN sent[c] : ~WasCut(c, i)) => IsPrefix(handled[c], Msgs(c))
    /\ IsPrefix(got[c], told[c])

(* The daemon acts on nothing that the node did not send: docs/air-ipc-v1  *)
(* has every TxEnqueue sent by the mesh daemon, to transmit a frame.       *)
OnlyWritten == \A c \in Conns : Range(handled[c]) \subseteq Range(Msgs(c))

(* The bytes that the Deframer can take for the rest of a cut frame: what  *)
(* is missing of its body, or what its length becomes with the next magic. *)
Debt(c, i) ==
  CASE sent[c][i].put >= kFrameHeaderLen -> Missing(c, i)
    [] sent[c][i].put = 5 -> 1 + kMagic0
    [] sent[c][i].put = 4 -> 1
    [] OTHER -> 0

Spoiled(c, i) ==
  \E j \in 1..(i - 1) :
    WasCut(c, j) /\ Start(c, i) < Start(c, j) + sent[c][j].put + Debt(c, j)

WhollyRead(c, i) ==
  Missing(c, i) = 0 /\ Start(c, i + 1) <= Start(c, Len(sent[c]) + 1) - Len(up[c])

(* The elements of a sequence at these places, in order. *)
Pick(s, places) ==
  LET p == SetToSortSeq(places, <) IN [k \in DOMAIN p |-> s[p[k]]]

(* The daemon finds its way back: of the frames written behind one that    *)
(* was cut, only those that begin within the bytes the Deframer still      *)
(* waits for are lost.  This is for bodies in which no header begins: out  *)
(* of step, the Deframer follows one that it meets in a body.              *)
Recovers ==
  \A c \in Conns :
    LET kept == {i \in DOMAIN sent[c] : WhollyRead(c, i) /\ ~Spoiled(c, i)}
    IN  \E D \in SUBSET DOMAIN handled[c] : Pick(Msgs(c), kept) = Pick(handled[c], D)

(* sendRxIndicate's blocking write never holds the main loop for good: as  *)
(* long as the daemon runs, it comes round again to accept, read and send. *)
LoopComesRound == []<>(pc \in {"accept", "exit"})

(* What the newest node has written is acted upon, unless the node dies,   *)
(* the daemon stops, or a frame was given up half way.                     *)
Delivered ==
  (g_running /\ node = "up" /\ writing = <<>>) ~>
     \/ ~g_running \/ node = "down"
     \/ handled[conn] = Msgs(conn)
     \/ \E i \in DOMAIN sent[conn] : WasCut(conn, i)
=============================================================================
