-------------------------- MODULE WebAdapterProofs --------------------------
(***************************************************************************)
(* The WebSocket server and the web adapter on top of it, for any number   *)
(* of slots, connections, sending threads, players and covers.             *)
(*                                                                         *)
(* First the server alone (Spec): its types, and the invariant SlotInv     *)
(* that ties slots, descriptors and threads.  Then the adapter (WebSpec):   *)
(* its handlers are users that the server allows, so SlotInv holds for it   *)
(* too, and on that rest in turn who owns what the table keeps (OwnerInv),  *)
(* who holds the slots' locks (LockInv) and what the table says (TableInv). *)
(***************************************************************************)
EXTENDS WebAdapter, TLAPS, WellFoundedInduction

LEMMA ThreadFacts ==
  /\ Conns \subseteq Threads /\ Senders \subseteq Threads
  /\ ServerThread \in Threads \ (Conns \cup Senders)
  /\ Stopper \in Threads \ (Conns \cup Senders)
  /\ ServerThread # Stopper
  /\ Conns \cap Senders = {}
  /\ NoConn \notin Threads /\ NoConn \notin Conns
BY DistinctAssumption DEF Threads

LEMMA SlotFacts ==
  /\ 0 \in Clients
  /\ \A c \in Clients : NextSlot(c) \in Clients /\ AfterSlot(c) \in {"stop", "set_flag"}
BY MaxClientsAssumption DEF Clients, NextSlot, AfterSlot

LEMMA MutexFacts ==
  /\ Fresh \in Mutex /\ Dead \in Mutex
  /\ \A m \in Mutex, t \in Threads :
       Held(m, t) \in Mutex /\ Released(m) \in Mutex /\ Terminated(m) \subseteq Mutex
<1>1. Fresh \in Mutex /\ Dead \in Mutex
  BY DEF Fresh, Dead, Mutex
<1> SUFFICES ASSUME NEW m \in Mutex, NEW t \in Threads
             PROVE  Held(m, t) \in Mutex /\ Released(m) \in Mutex /\ Terminated(m) \subseteq Mutex
  BY <1>1
<1>2. Held(m, t) \in Mutex
  BY DEF Held, Mutex
<1>3. Released(m) \in Mutex
  BY DEF Released, Mutex
<1>4. Terminated(m) \subseteq Mutex
  BY <1>1 DEF Terminated
<1> QED
  BY <1>2, <1>3, <1>4

-----------------------------------------------------------------------------
(* Types.                                                                  *)

LEMMA InitType == Init => TypeOK
<1> SUFFICES ASSUME Init PROVE TypeOK
  OBVIOUS
<1>1. fd \in [Clients -> Conns \cup {NoConn}] /\ state \in [Clients -> States]
  BY DEF Init, States
<1>2. lock \in [Clients -> Mutex]
  BY MutexFacts DEF Init
<1>3. pc \in [Threads -> PCs] /\ back \in [Threads -> PCs]
  BY DEF Init, PCs
<1>4. client \in [Threads -> Clients]
  BY SlotFacts DEF Init
<1>5. clients_mutex \in BOOLEAN /\ exit_flag \in {0, 1} /\ listening \in BOOLEAN
  BY DEF Init
<1>6. accepted \in Conns \cup {NoConn} /\ broken \in SUBSET Clients
  BY DEF Init
<1> QED
  BY <1>1, <1>2, <1>3, <1>4, <1>5, <1>6 DEF TypeOK

LEMMA CallType ==
  ASSUME TypeOK, NEW t \in Threads, NEW c \in Clients, NEW p \in PCs, Call(t, c, p)
  PROVE  /\ pc' \in [Threads -> PCs] /\ client' \in [Threads -> Clients]
         /\ back' \in [Threads -> PCs]
BY DEF TypeOK, Call, PCs

LEMMA UnlockType ==
  ASSUME TypeOK, NEW t \in Threads, NEW c \in Clients, Unlock(t, c)
  PROVE  lock' \in [Clients -> Mutex] /\ broken' \in SUBSET Clients
<1>1. Released(lock[c]) \in Mutex
  BY MutexFacts DEF TypeOK
<1> QED
  BY <1>1 DEF TypeOK, Unlock

LEMMA CloseType ==
  ASSUME TypeOK, NEW c \in Clients, close_client(c)
  PROVE  /\ fd' \in [Clients -> Conns \cup {NoConn}]
         /\ state' \in [Clients -> States]
         /\ lock' \in [Clients -> Mutex]
<1>1. Terminated(lock[c]) \subseteq Mutex
  BY MutexFacts, ThreadFacts DEF TypeOK
<1> QED
  BY <1>1 DEF TypeOK, close_client, slots, States

LEMMA SendType ==
  ASSUME TypeOK, NEW t \in Conns \cup Senders, cws_send(t)
  PROVE  TypeOK'
<1>0. t \in Threads /\ client[t] \in Clients
  BY ThreadFacts DEF TypeOK
<1>1. back[t] \in PCs /\ Failed(t) \in PCs
  BY <1>0 DEF TypeOK, Failed, PCs
<1>2. CASE SendCheck(t)
  BY <1>0, <1>1, <1>2 DEF TypeOK, SendCheck, Back, Goto, slots, server, PCs
<1>3. CASE SendLock(t)
  <2>1. Held(lock[client[t]], t) \in Mutex
    BY <1>0, MutexFacts DEF TypeOK
  <2> QED
    BY <1>0, <1>3, <2>1 DEF TypeOK, SendLock, Goto, server, PCs
<1>4. CASE Send(t)
  <2>1. lock' \in [Clients -> Mutex] /\ broken' \in SUBSET Clients
    BY <1>0, <1>4, UnlockType DEF Send
  <2> QED
    BY <1>0, <1>1, <1>4, <2>1 DEF TypeOK, Send, Back, Goto, server, PCs
<1> QED
  BY <1>2, <1>3, <1>4 DEF cws_send

LEMMA ClientType ==
  ASSUME TypeOK, NEW t \in Conns, ClientThread(t) \/ on_message(t) \/ on_close(t)
  PROVE  TypeOK'
<1>0. t \in Threads /\ client[t] \in Clients
  BY ThreadFacts DEF TypeOK
<1>p. {"open", "read", "on_close", "message", "closing", "closed", "close", "unlock",
       "done"} \subseteq PCs
  BY DEF PCs
<1>1. CASE handle_handshake(t) \/ HandshakeFails(t)
  BY <1>0, <1>p, <1>1, CallType
  DEF TypeOK, handle_handshake, HandshakeFails, Goto, slots, server
<1>2. CASE on_open(t)
  BY <1>0, <1>p, <1>2, CallType DEF TypeOK, on_open, server, States
<1>3. CASE recv_next_frame(t) \/ RecvFails(t)
  BY <1>0, <1>p, <1>3, CallType
  DEF TypeOK, recv_next_frame, RecvFails, Goto, slots, server
<1>4. CASE Closing(t)
  BY <1>0, <1>p, <1>4, CallType DEF TypeOK, Closing, Goto, server, States
<1>5. CASE Closed(t)
  <2>1. Held(lock[client[t]], t) \in Mutex
    BY <1>0, MutexFacts DEF TypeOK
  <2> QED
    BY <1>0, <1>p, <1>5, <2>1 DEF TypeOK, Closed, Goto, server
<1>6. CASE Close(t)
  BY <1>0, <1>p, <1>6, CloseType DEF TypeOK, Close, Goto, server
<1>7. CASE Leave(t)
  BY <1>0, <1>p, <1>7, UnlockType DEF TypeOK, Leave, Goto, server
<1>8. CASE on_message(t) \/ on_close(t)
  BY <1>0, <1>p, <1>8 DEF TypeOK, on_message, on_close, Goto, slots, server
<1> QED
  BY <1>1, <1>2, <1>3, <1>4, <1>5, <1>6, <1>7, <1>8
  DEF ClientThread, Handshake, Receive, Finish

LEMMA ServerType ==
  ASSUME TypeOK, server_thread
  PROVE  TypeOK'
<1>p. {"exit_flag", "accept", "done", "place", "create", "refuse", "handshake"}
        \subseteq PCs
  BY DEF PCs
<1>1. CASE ServerInit \/ ServerLoop \/ AcceptFails \/ NoPlace
  BY <1>p, <1>1
  DEF TypeOK, ServerInit, ServerLoop, AcceptFails, NoPlace, Goto, slots, server
<1>2. CASE CreateThread
  BY <1>p, <1>2 DEF TypeOK, CreateThread, slots
<1>3. ASSUME NEW c \in Clients, Place(c) PROVE TypeOK'
  <2>1. lock' \in [Clients -> Mutex]
    BY <1>3, MutexFacts DEF TypeOK, Place
  <2> QED
    BY <1>p, <1>3, <2>1 DEF TypeOK, Place, Goto, server, States
<1>4. ASSUME NEW k \in Conns, Accept(k) PROVE TypeOK'
  BY <1>p, <1>4 DEF TypeOK, Accept, Goto, slots
<1> QED
  BY <1>1, <1>2, <1>3, <1>4 DEF server_thread, ServerStep

LEMMA StopType ==
  ASSUME TypeOK, cws_stop
  PROVE  TypeOK'
<1>p. {"stop", "stop_close", "set_flag", "term", "close_fd", "done"} \subseteq PCs
  BY DEF PCs
<1>0. client[Stopper] \in Clients
  BY ThreadFacts DEF TypeOK
<1>1. CASE Stop \/ SetExitFlag \/ TermMutex \/ CloseServer
  BY <1>p, <1>1
  DEF TypeOK, Stop, SetExitFlag, TermMutex, CloseServer, Goto, slots, server
<1>2. CASE StopClient
  BY <1>p, <1>0, <1>2, SlotFacts DEF TypeOK, StopClient, Goto, slots, server
<1>3. CASE StopClose
  BY <1>p, <1>0, <1>3, SlotFacts, CloseType DEF TypeOK, StopClose, Goto, server
<1> QED
  BY <1>1, <1>2, <1>3 DEF cws_stop

LEMMA TypeStep == TypeOK /\ [Next]_vars => TypeOK'
<1> SUFFICES ASSUME TypeOK, [Next]_vars PROVE TypeOK'
  OBVIOUS
<1>1. ASSUME NEW t \in Senders, NEW c \in Clients, SendTo(t, c) PROVE TypeOK'
  <2>1. "new" \in PCs /\ t \in Threads
    BY ThreadFacts DEF PCs
  <2> QED
    BY <1>1, <2>1, CallType DEF TypeOK, SendTo, slots, server
<1>2. CASE UNCHANGED vars
  BY <1>2 DEF TypeOK, vars, slots, server
<1> QED
  BY <1>1, <1>2, SendType, ClientType, ServerType, StopType DEF Next, ServerNext

(* Slots, threads and descriptors stay in range.                           *)
THEOREM CwsTypeOK == Spec => []TypeOK
<1> QED
  BY InitType, TypeStep, PTL DEF Spec

-----------------------------------------------------------------------------
(* Slots and their threads.  NoDescriptorLeaks is not inductive: that a    *)
(* client thread closes the descriptor it was made for, needs that its slot *)
(* is not taken for closed already and that it works on that slot.          *)

(* An open slot is not marked closed, and its connection's thread is on it. *)
OpenSlots ==
  \A c \in Clients : fd[c] # NoConn => state[c] # "CLOSED" /\ client[fd[c]] = c

(* The connection that the server thread is busy with has no thread yet.   *)
Accepted ==
  pc[ServerThread] \in {"place", "create", "refuse"} =>
    accepted \in Conns /\ pc[accepted] = "new"

(* A client thread that sends goes on with its client.                     *)
SendsReturn ==
  \A t \in Conns : pc[t] \in {"check", "lock", "send"} =>
    back[t] \in {"open", "read", "on_close"}

(* Until cws_stop the slot is still there when its thread is created.      *)
Placed == Running /\ pc[ServerThread] = "create" => fd[client[accepted]] = accepted

SlotInv ==
  /\ TypeOK
  /\ OpenSlots /\ Accepted /\ SendsReturn
  /\ NoDescriptorLeaks
  /\ Placed
  /\ OwnConnection

LEMMA InitSlots == Init => SlotInv
<1> SUFFICES ASSUME Init PROVE SlotInv
  OBVIOUS
<1>1. \A c \in Clients : fd[c] = NoConn
  BY DEF Init
<1>2. \A t \in Conns : pc[t] = "new"
  BY ThreadFacts DEF Init
<1>3. pc[ServerThread] = "init"
  BY ThreadFacts DEF Init
<1>4. OpenSlots /\ NoDescriptorLeaks
  BY <1>1 DEF OpenSlots, NoDescriptorLeaks
<1>5. Accepted /\ SendsReturn /\ Placed /\ OwnConnection
  BY <1>2, <1>3 DEF Accepted, SendsReturn, Placed, OwnConnection, Serving
<1> QED
  BY <1>4, <1>5, InitType DEF SlotInv

(* A thread that sends or serves its client and keeps its slot: the        *)
(* descriptors stay, and it goes on serving.                                *)
Works(t) ==
  /\ fd' = fd /\ accepted' = accepted /\ client' = client
  /\ \A c \in Clients : state'[c] = state[c] \/ state'[c] # "CLOSED"
  /\ pc' = [pc EXCEPT ![t] = pc'[t]]
  /\ \A u \in Conns : u # t => back'[u] = back[u]
  /\ t \in Conns => /\ Serving(t)
                    /\ pc'[t] \notin {"new", "unlock", "done"}
                    /\ pc'[t] \in {"check", "lock", "send"}
                         => back'[t] \in {"open", "read", "on_close"}

LEMMA WorksKeeps ==
  ASSUME SlotInv, TypeOK', NEW t \in Conns \cup Senders, Works(t)
  PROVE  SlotInv'
<1>0. /\ \A u \in Threads : u # t => pc'[u] = pc[u]
      /\ t \in Threads \ {ServerThread, Stopper}
      /\ pc'[ServerThread] = pc[ServerThread] /\ pc'[Stopper] = pc[Stopper]
  BY ThreadFacts DEF Works, SlotInv, TypeOK
<1>1. OpenSlots'
  BY DEF SlotInv, Works, OpenSlots, TypeOK
<1>2. Accepted'
  BY <1>0, ThreadFacts DEF SlotInv, Works, Accepted, Serving
<1>t. \A u \in Conns : u # t => pc'[u] = pc[u] /\ back'[u] = back[u]
  BY <1>0, ThreadFacts DEF Works
<1>u. t \in Conns => /\ Serving(t)
                     /\ pc'[t] \notin {"new", "unlock", "done"}
                     /\ pc'[t] \in {"check", "lock", "send"}
                          => back'[t] \in {"open", "read", "on_close"}
  BY DEF Works
<1>3. SendsReturn'
  <2> SUFFICES ASSUME NEW u \in Conns, pc'[u] \in {"check", "lock", "send"}
               PROVE  back'[u] \in {"open", "read", "on_close"}
    BY DEF SendsReturn
  <2>1. CASE u = t
    BY <1>u, <2>1
  <2>2. CASE u # t
    BY <1>t, <2>2 DEF SlotInv, SendsReturn
  <2> QED
    BY <2>1, <2>2
<1>s. ASSUME NEW u \in Conns
      PROVE  (Serving(u)' <=> Serving(u)) /\ (pc'[u] = "new" <=> pc[u] = "new")
  <2>1. CASE u = t
    BY <1>u, <2>1 DEF Serving
  <2>2. CASE u # t
    BY <1>t, <2>2 DEF Serving
  <2> QED
    BY <2>1, <2>2
<1>4. NoDescriptorLeaks'
  <2> SUFFICES ASSUME NEW c \in Clients, fd[c] # NoConn
               PROVE  IF pc'[fd[c]] = "new"
                      THEN pc'[ServerThread] = "create" /\ accepted' = fd[c]
                      ELSE pc'[fd[c]] \notin {"new", "unlock", "done"}
    BY DEF Works, NoDescriptorLeaks, Serving
  <2>1. fd[c] \in Conns
    BY DEF SlotInv, TypeOK
  <2>2. IF pc[fd[c]] = "new" THEN pc[ServerThread] = "create" /\ accepted = fd[c]
                             ELSE Serving(fd[c])
    BY DEF SlotInv, NoDescriptorLeaks
  <2> QED
    BY <1>0, <1>s, <2>1, <2>2 DEF Works, Serving
<1>5. Placed'
  BY <1>0 DEF SlotInv, Works, Placed, Running
<1>6. OwnConnection'
  BY <1>0, <1>s DEF SlotInv, Works, OwnConnection, Running
<1> QED
  BY <1>1, <1>2, <1>3, <1>4, <1>5, <1>6 DEF SlotInv

LEMMA SendWorks ==
  ASSUME SlotInv, NEW t \in Conns \cup Senders, cws_send(t)
  PROVE  Works(t)
<1>0. /\ t \in Threads /\ pc[t] \in {"check", "lock", "send"}
      /\ t \in Conns => back[t] \in {"open", "read", "on_close"}
  BY ThreadFacts DEF cws_send, SendCheck, SendLock, Send, SlotInv, SendsReturn
<1>1. t \in Conns => Failed(t) \in {"closed", "read", "on_close"}
  BY <1>0 DEF Failed
<1>2. CASE SendCheck(t)
  BY <1>0, <1>1, <1>2, ThreadFacts
  DEF SendCheck, Back, Goto, Works, Serving, slots, server, SlotInv, TypeOK
<1>3. CASE SendLock(t)
  BY <1>0, <1>3, ThreadFacts DEF SendLock, Goto, Works, Serving, server, SlotInv, TypeOK
<1>4. CASE Send(t)
  BY <1>0, <1>1, <1>4, ThreadFacts
  DEF Send, Back, Goto, Works, Serving, server, SlotInv, TypeOK
<1> QED
  BY <1>2, <1>3, <1>4 DEF cws_send

StateKept == \A c \in Clients : state'[c] = state[c] \/ state'[c] # "CLOSED"

LEMMA CallWorks ==
  ASSUME SlotInv, NEW t \in Conns, Serving(t),
         NEW p \in {"open", "read", "on_close"}, Call(t, client[t], p),
         fd' = fd, accepted' = accepted, StateKept
  PROVE  Works(t)
<1>0. t \in Threads
  BY ThreadFacts
<1>1. client' = client /\ pc' = [pc EXCEPT ![t] = pc'[t]] /\ pc'[t] = "check"
  BY <1>0 DEF Call, SlotInv, TypeOK
<1>2. back'[t] = p /\ \A u \in Conns : u # t => back'[u] = back[u]
  BY <1>0, ThreadFacts DEF Call, SlotInv, TypeOK
<1> QED
  BY <1>1, <1>2 DEF Works, StateKept

LEMMA GotoWorks ==
  ASSUME SlotInv, NEW t \in Conns, Serving(t),
         NEW p \in {"read", "message", "closing", "on_close", "closed"}, Goto(t, p),
         fd' = fd, accepted' = accepted, client' = client, back' = back, StateKept
  PROVE  Works(t)
<1>0. t \in Threads
  BY ThreadFacts
<1>1. pc' = [pc EXCEPT ![t] = pc'[t]] /\ pc'[t] = p
  BY <1>0 DEF Goto, SlotInv, TypeOK
<1> QED
  BY <1>1 DEF Works, StateKept

(* What a client thread does before it closes its slot.                    *)
Serves(t) == Handshake(t) \/ Receive(t) \/ Closing(t) \/ on_message(t) \/ on_close(t)

LEMMA ServesWorks ==
  ASSUME SlotInv, NEW t \in Conns, Serves(t)
  PROVE  Works(t)
<1>0. Serving(t)
  BY DEF Serves, Handshake, Receive, handle_handshake, HandshakeFails, on_open, Reads,
         recv_next_frame, RecvFails, Closing, on_message, on_close, Serving
<1>1. fd' = fd /\ accepted' = accepted
  BY DEF Serves, Handshake, Receive, handle_handshake, HandshakeFails, on_open,
         recv_next_frame, RecvFails, Closing, on_message, on_close, slots, server
<1>2. StateKept
  BY DEF Serves, Handshake, Receive, handle_handshake, HandshakeFails, on_open,
         recv_next_frame, RecvFails, Closing, on_message, on_close, slots, StateKept,
         SlotInv, TypeOK
<1>3. CASE handle_handshake(t) \/ on_open(t)
  BY <1>0, <1>1, <1>2, <1>3, CallWorks DEF handle_handshake, on_open
<1>4. CASE HandshakeFails(t) \/ RecvFails(t) \/ on_message(t) \/ on_close(t)
  BY <1>0, <1>1, <1>2, <1>4, GotoWorks DEF HandshakeFails, RecvFails, on_message, on_close
<1>5. CASE recv_next_frame(t)
  <2>1. CASE UNCHANGED <<pc, client, back>>
    <3>1. /\ t \in Threads /\ pc[t] = "read"
          /\ pc' = [pc EXCEPT ![t] = pc'[t]]
      BY <1>5, <2>1, ThreadFacts DEF recv_next_frame, Reads, SlotInv, TypeOK
    <3> QED
      BY <1>0, <1>1, <1>2, <2>1, <3>1 DEF Works, StateKept
  <2>2. CASE ~ UNCHANGED <<pc, client, back>>
    BY <1>0, <1>1, <1>2, <1>5, <2>2, CallWorks, GotoWorks DEF recv_next_frame
  <2> QED
    BY <2>1, <2>2
<1>6. CASE Closing(t)
  BY <1>0, <1>1, <1>2, <1>6, CallWorks, GotoWorks DEF Closing
<1> QED
  BY <1>3, <1>4, <1>5, <1>6 DEF Serves, Handshake, Receive

-----------------------------------------------------------------------------
(* The steps that open and close a slot.                                   *)

LEMMA ClosedKeeps ==
  ASSUME SlotInv, TypeOK', NEW t \in Conns, Closed(t)
  PROVE  SlotInv'
<1>0. t \in Threads \ {ServerThread, Stopper} /\ client[t] \in Clients
  BY ThreadFacts DEF SlotInv, TypeOK
<1>1. /\ pc[t] = "closed" /\ pc'[t] \in {"close", "unlock"}
      /\ pc'[t] = "unlock" => state[client[t]] = "CLOSED"
      /\ \A u \in Threads : u # t => pc'[u] = pc[u]
      /\ fd' = fd /\ state' = state /\ client' = client /\ back' = back
      /\ accepted' = accepted
  BY <1>0 DEF Closed, Goto, server, SlotInv, TypeOK
<1>2. pc'[t] = "unlock" => \A c \in Clients : fd[c] # t
  BY <1>0, <1>1, ThreadFacts DEF SlotInv, OpenSlots
<1>3. pc'[ServerThread] = pc[ServerThread] /\ pc'[Stopper] = pc[Stopper]
  BY <1>0, <1>1, ThreadFacts
<1>4. OpenSlots'
  BY <1>1 DEF SlotInv, OpenSlots
<1>5. Accepted'
  BY <1>1, <1>3, ThreadFacts DEF SlotInv, Accepted
<1>6. SendsReturn'
  BY <1>1, ThreadFacts DEF SlotInv, SendsReturn
<1>7. NoDescriptorLeaks'
  BY <1>1, <1>2, <1>3, ThreadFacts DEF SlotInv, NoDescriptorLeaks, Serving, TypeOK
<1>8. Placed'
  BY <1>1, <1>3 DEF SlotInv, Placed, Running
<1>9. OwnConnection'
  BY <1>0, <1>1, <1>3, ThreadFacts DEF SlotInv, OwnConnection, Serving, Running
<1> QED
  BY <1>4, <1>5, <1>6, <1>7, <1>8, <1>9 DEF SlotInv

(* The descriptors after close_client.                                     *)
LEMMA CloseFacts ==
  ASSUME TypeOK, NEW c \in Clients, close_client(c)
  PROVE  /\ fd' = [fd EXCEPT ![c] = NoConn]
         /\ \A d \in Clients : d # c => state'[d] = state[d]
<1>1. CASE fd[c] = NoConn /\ UNCHANGED slots
  BY <1>1 DEF slots, TypeOK
<1>2. CASE ~(fd[c] = NoConn /\ UNCHANGED slots)
  BY <1>2 DEF close_client, TypeOK
<1> QED
  BY <1>1, <1>2

LEMMA CloseKeeps ==
  ASSUME SlotInv, TypeOK', NEW t \in Conns, Close(t)
  PROVE  SlotInv'
<1>0. t \in Threads \ {ServerThread, Stopper} /\ client[t] \in Clients
  BY ThreadFacts DEF SlotInv, TypeOK
<1>1. /\ pc[t] = "close" /\ pc'[t] = "unlock"
      /\ \A u \in Threads : u # t => pc'[u] = pc[u]
      /\ client' = client /\ back' = back /\ accepted' = accepted
  BY <1>0 DEF Close, Goto, server, SlotInv, TypeOK
<1>2. /\ fd' = [fd EXCEPT ![client[t]] = NoConn]
      /\ \A d \in Clients : d # client[t] => state'[d] = state[d]
  BY <1>0, CloseFacts DEF Close, SlotInv
<1>3. pc'[ServerThread] = pc[ServerThread] /\ pc'[Stopper] = pc[Stopper]
  BY <1>0, <1>1, ThreadFacts
<1>4. OpenSlots'
  BY <1>0, <1>1, <1>2 DEF SlotInv, OpenSlots, TypeOK
<1>5. Accepted'
  BY <1>1, <1>3, ThreadFacts DEF SlotInv, Accepted
<1>6. SendsReturn'
  BY <1>1, ThreadFacts DEF SlotInv, SendsReturn
<1>7. NoDescriptorLeaks'
  <2>1. \A c \in Clients : fd'[c] # t
    BY <1>0, <1>2, ThreadFacts DEF SlotInv, OpenSlots, TypeOK
  <2> QED
    BY <1>0, <1>1, <1>2, <1>3, <2>1, ThreadFacts
    DEF SlotInv, NoDescriptorLeaks, Serving, TypeOK
<1>8. Running => fd[client[t]] = t
  BY <1>1 DEF SlotInv, OwnConnection, Serving
<1>9. Placed'
  BY <1>0, <1>1, <1>2, <1>3, <1>8, ThreadFacts
  DEF SlotInv, Placed, Accepted, Running, TypeOK
<1>10. OwnConnection'
  BY <1>0, <1>1, <1>2, <1>3, <1>8, ThreadFacts
  DEF SlotInv, OwnConnection, Serving, Running, TypeOK
<1> QED
  BY <1>4, <1>5, <1>6, <1>7, <1>9, <1>10 DEF SlotInv

LEMMA LeaveKeeps ==
  ASSUME SlotInv, TypeOK', NEW t \in Conns, Leave(t)
  PROVE  SlotInv'
<1>0. t \in Threads \ {ServerThread, Stopper}
  BY ThreadFacts
<1>1. /\ pc[t] = "unlock" /\ pc'[t] = "done"
      /\ \A u \in Threads : u # t => pc'[u] = pc[u]
      /\ fd' = fd /\ state' = state /\ client' = client /\ back' = back
      /\ accepted' = accepted
  BY <1>0 DEF Leave, Goto, server, SlotInv, TypeOK
<1>2. pc'[ServerThread] = pc[ServerThread] /\ pc'[Stopper] = pc[Stopper]
  BY <1>0, <1>1, ThreadFacts
<1>3. OpenSlots'
  BY <1>1 DEF SlotInv, OpenSlots
<1>4. Accepted'
  BY <1>1, <1>2, ThreadFacts DEF SlotInv, Accepted
<1>5. SendsReturn'
  BY <1>1, ThreadFacts DEF SlotInv, SendsReturn
<1>6. NoDescriptorLeaks'
  BY <1>1, <1>2, ThreadFacts DEF SlotInv, NoDescriptorLeaks, Serving, TypeOK
<1>7. Placed'
  BY <1>1, <1>2 DEF SlotInv, Placed, Running
<1>8. OwnConnection'
  BY <1>0, <1>1, <1>2, ThreadFacts DEF SlotInv, OwnConnection, Serving, Running
<1> QED
  BY <1>3, <1>4, <1>5, <1>6, <1>7, <1>8 DEF SlotInv

LEMMA PlaceKeeps ==
  ASSUME SlotInv, TypeOK', NEW c \in Clients, Place(c)
  PROVE  SlotInv'
<1>0. /\ accepted \in Conns /\ pc[accepted] = "new" /\ pc[ServerThread] = "place"
      /\ fd[c] = NoConn
  BY DEF SlotInv, Accepted, Place, FirstFree
<1>1. /\ fd' = [fd EXCEPT ![c] = accepted]
      /\ state' = [state EXCEPT ![c] = "CONNECTING"]
      /\ client' = [client EXCEPT ![accepted] = c]
      /\ pc' = [pc EXCEPT ![ServerThread] = "create"]
      /\ accepted' = accepted /\ back' = back
  BY DEF Place, Goto, server
<1>2. /\ pc'[ServerThread] = "create" /\ pc'[Stopper] = pc[Stopper]
      /\ \A u \in Conns : pc'[u] = pc[u]
      /\ client'[accepted] = c
      /\ \A u \in Conns : u # accepted => client'[u] = client[u]
  BY <1>0, <1>1, ThreadFacts DEF SlotInv, TypeOK
<1>3. \A d \in Clients : fd[d] # accepted
  BY <1>0, ThreadFacts DEF SlotInv, NoDescriptorLeaks
<1>4. OpenSlots'
  BY <1>0, <1>1, <1>2, <1>3, ThreadFacts DEF SlotInv, OpenSlots, TypeOK
<1>5. Accepted'
  BY <1>0, <1>1, <1>2 DEF Accepted
<1>6. SendsReturn'
  BY <1>1, <1>2 DEF SlotInv, SendsReturn
<1>7. NoDescriptorLeaks'
  <2> SUFFICES ASSUME NEW d \in Clients, fd'[d] # NoConn
               PROVE  IF pc'[fd'[d]] = "new"
                      THEN pc'[ServerThread] = "create" /\ accepted' = fd'[d]
                      ELSE pc'[fd'[d]] \notin {"new", "unlock", "done"}
    BY DEF NoDescriptorLeaks, Serving
  <2>1. CASE d = c
    BY <1>0, <1>1, <1>2, <2>1 DEF SlotInv, TypeOK
  <2>2. CASE d # c
    <3>1. fd'[d] = fd[d] /\ fd[d] \in Conns
      BY <1>1, <2>2 DEF SlotInv, TypeOK
    <3>2. IF pc[fd[d]] = "new" THEN pc[ServerThread] = "create" /\ accepted = fd[d]
                               ELSE Serving(fd[d])
      BY <3>1, ThreadFacts DEF SlotInv, NoDescriptorLeaks
    <3> QED
      BY <1>0, <1>2, <3>1, <3>2 DEF Serving
  <2> QED
    BY <2>1, <2>2
<1>8. Placed'
  BY <1>0, <1>1, <1>2 DEF Placed, SlotInv, TypeOK
<1>9. OwnConnection'
  <2> SUFFICES ASSUME Running', NEW u \in Conns, Serving(u)'
               PROVE  fd'[client'[u]] = u
    BY DEF OwnConnection
  <2>1. Serving(u) /\ u # accepted /\ Running
    BY <1>0, <1>2 DEF Serving, Running
  <2>2. fd[client[u]] = u /\ client'[u] = client[u]
    BY <1>2, <2>1 DEF SlotInv, OwnConnection
  <2>3. client[u] # c
    BY <1>0, <2>2, ThreadFacts
  <2> QED
    BY <1>1, <2>2, <2>3, ThreadFacts DEF SlotInv, TypeOK
<1> QED
  BY <1>4, <1>5, <1>6, <1>7, <1>8, <1>9 DEF SlotInv

LEMMA CreateKeeps ==
  ASSUME SlotInv, TypeOK', CreateThread
  PROVE  SlotInv'
<1>0. /\ accepted \in Conns /\ pc[accepted] = "new"
      /\ pc[ServerThread] \in {"create", "refuse"}
  BY DEF SlotInv, Accepted, CreateThread
<1>1. /\ fd' = fd /\ state' = state /\ client' = client /\ back' = back
      /\ accepted' = NoConn
  BY DEF CreateThread, slots
<1>2. /\ pc'[ServerThread] = "exit_flag" /\ pc'[Stopper] = pc[Stopper]
      /\ pc'[accepted] = IF pc[ServerThread] = "create" THEN "handshake" ELSE "done"
      /\ \A u \in Conns : u # accepted => pc'[u] = pc[u]
  BY <1>0, ThreadFacts DEF CreateThread, SlotInv, TypeOK
<1>3. OpenSlots'
  BY <1>1 DEF SlotInv, OpenSlots
<1>4. Accepted'
  BY <1>2 DEF Accepted
<1>5. SendsReturn'
  BY <1>1, <1>2 DEF SlotInv, SendsReturn
<1>6. NoDescriptorLeaks'
  <2> SUFFICES ASSUME NEW d \in Clients, fd[d] # NoConn
               PROVE  pc'[fd[d]] \notin {"new", "unlock", "done"}
    BY <1>1 DEF NoDescriptorLeaks, Serving
  <2>1. fd[d] \in Conns
    BY DEF SlotInv, TypeOK
  <2>2. IF pc[fd[d]] = "new" THEN pc[ServerThread] = "create" /\ accepted = fd[d]
                             ELSE Serving(fd[d])
    BY DEF SlotInv, NoDescriptorLeaks
  <2>3. CASE fd[d] = accepted
    BY <1>0, <1>2, <2>2, <2>3 DEF Serving
  <2>4. CASE fd[d] # accepted
    BY <1>0, <1>2, <2>1, <2>2, <2>4 DEF Serving
  <2> QED
    BY <2>3, <2>4
<1>7. Placed'
  BY <1>2 DEF Placed
<1>8. OwnConnection'
  <2> SUFFICES ASSUME Running', NEW u \in Conns, Serving(u)'
               PROVE  fd[client[u]] = u
    BY <1>1 DEF OwnConnection
  <2>1. Running
    BY <1>2 DEF Running
  <2>2. CASE u = accepted
    BY <1>0, <1>2, <2>1, <2>2 DEF SlotInv, Placed, Serving
  <2>3. CASE u # accepted
    BY <1>2, <2>1, <2>3 DEF SlotInv, OwnConnection, Serving
  <2> QED
    BY <2>2, <2>3
<1> QED
  BY <1>3, <1>4, <1>5, <1>6, <1>7, <1>8 DEF SlotInv

(* The steps of the server thread and of cws_stop that leave the slots     *)
(* alone.                                                                   *)
LEMMA ServerKeeps ==
  ASSUME SlotInv, TypeOK',
         ServerInit \/ ServerLoop \/ AcceptFails \/ NoPlace \/ \E k \in Conns : Accept(k)
  PROVE  SlotInv'
<1>0. /\ fd' = fd /\ state' = state /\ client' = client /\ back' = back
  BY DEF ServerInit, ServerLoop, AcceptFails, NoPlace, Accept, slots
<1>1. /\ pc[ServerThread] # "create" /\ pc'[ServerThread] # "create"
      /\ pc'[Stopper] = pc[Stopper]
      /\ \A u \in Conns : pc'[u] = pc[u]
  BY ThreadFacts
  DEF ServerInit, ServerLoop, AcceptFails, NoPlace, Accept, Goto, SlotInv, TypeOK
<1>2. Accepted'
  <2>1. CASE NoPlace
    BY <1>1, <2>1, ThreadFacts DEF NoPlace, Goto, server, SlotInv, Accepted, TypeOK
  <2>2. ASSUME NEW k \in Conns, Accept(k) PROVE Accepted'
    BY <1>1, <2>2 DEF Accept, Goto, SlotInv, Accepted, TypeOK
  <2>3. CASE ServerInit \/ ServerLoop \/ AcceptFails
    BY <2>3, ThreadFacts
    DEF ServerInit, ServerLoop, AcceptFails, Goto, SlotInv, Accepted, TypeOK
  <2> QED
    BY <2>1, <2>2, <2>3
<1>3. OpenSlots'
  BY <1>0 DEF SlotInv, OpenSlots
<1>4. SendsReturn'
  BY <1>0, <1>1 DEF SlotInv, SendsReturn
<1>5. NoDescriptorLeaks'
  BY <1>0, <1>1 DEF SlotInv, NoDescriptorLeaks, Serving, TypeOK
<1>6. Placed'
  BY <1>1 DEF Placed
<1>7. OwnConnection'
  BY <1>0, <1>1 DEF SlotInv, OwnConnection, Serving, Running
<1> QED
  BY <1>2, <1>3, <1>4, <1>5, <1>6, <1>7 DEF SlotInv

LEMMA StopKeeps ==
  ASSUME SlotInv, TypeOK', cws_stop
  PROVE  SlotInv'
<1>0. client[Stopper] \in Clients
  BY ThreadFacts DEF SlotInv, TypeOK
<1>1. /\ pc'[Stopper] # "new" /\ pc'[ServerThread] = pc[ServerThread]
      /\ \A u \in Conns : pc'[u] = pc[u] /\ client'[u] = client[u]
      /\ back' = back /\ accepted' = accepted
  <2>1. CASE Stop \/ SetExitFlag \/ TermMutex \/ CloseServer
    BY <2>1, ThreadFacts
    DEF Stop, SetExitFlag, TermMutex, CloseServer, Goto, server, SlotInv, TypeOK
  <2>2. CASE StopClient
    BY <1>0, <2>2, ThreadFacts, SlotFacts DEF StopClient, Goto, server, SlotInv, TypeOK
  <2>3. CASE StopClose
    BY <1>0, <2>3, ThreadFacts, SlotFacts DEF StopClose, Goto, server, SlotInv, TypeOK
  <2> QED
    BY <2>1, <2>2, <2>3 DEF cws_stop
<1>2. \A c \in Clients : fd'[c] = NoConn \/ (fd'[c] = fd[c] /\ state'[c] = state[c])
  <2>1. CASE StopClose
    BY <1>0, <2>1, CloseFacts DEF StopClose, SlotInv, TypeOK
  <2>2. CASE ~StopClose
    BY <2>2
    DEF cws_stop, Stop, StopClient, SetExitFlag, TermMutex, CloseServer, slots
  <2> QED
    BY <2>1, <2>2
<1>3. OpenSlots'
  BY <1>1, <1>2 DEF SlotInv, OpenSlots, TypeOK
<1>4. Accepted' /\ SendsReturn'
  BY <1>1 DEF SlotInv, Accepted, SendsReturn
<1>5. NoDescriptorLeaks'
  BY <1>1, <1>2 DEF SlotInv, NoDescriptorLeaks, Serving, TypeOK
<1>6. Placed' /\ OwnConnection'
  BY <1>1 DEF Placed, OwnConnection, Running
<1> QED
  BY <1>3, <1>4, <1>5, <1>6 DEF SlotInv

LEMMA SendToKeeps ==
  ASSUME SlotInv, TypeOK', NEW t \in Senders, NEW c \in Clients, SendTo(t, c)
  PROVE  SlotInv'
<1>0. /\ fd' = fd /\ state' = state /\ accepted' = accepted
      /\ pc'[ServerThread] = pc[ServerThread] /\ pc'[Stopper] = pc[Stopper]
      /\ \A u \in Conns : pc'[u] = pc[u] /\ client'[u] = client[u] /\ back'[u] = back[u]
  BY ThreadFacts DEF SendTo, Call, slots, server, SlotInv, TypeOK
<1>1. OpenSlots' /\ Accepted' /\ SendsReturn'
  BY <1>0 DEF SlotInv, OpenSlots, Accepted, SendsReturn, TypeOK
<1>2. NoDescriptorLeaks'
  BY <1>0 DEF SlotInv, NoDescriptorLeaks, Serving, TypeOK
<1>3. Placed' /\ OwnConnection'
  BY <1>0 DEF SlotInv, Placed, OwnConnection, Accepted, Serving, Running
<1> QED
  BY <1>1, <1>2, <1>3 DEF SlotInv

LEMMA SlotStep == SlotInv /\ [Next]_vars => SlotInv'
<1> SUFFICES ASSUME SlotInv, [Next]_vars PROVE SlotInv'
  OBVIOUS
<1>0. TypeOK'
  BY TypeStep DEF SlotInv
<1>1. ASSUME NEW t \in Conns \cup Senders, cws_send(t) PROVE SlotInv'
  BY <1>0, <1>1, SendWorks, WorksKeeps
<1>2. ASSUME NEW t \in Conns, ClientThread(t) \/ on_message(t) \/ on_close(t) PROVE SlotInv'
  <2>1. CASE Serves(t)
    BY <1>0, <2>1, ServesWorks, WorksKeeps
  <2>2. CASE Closed(t) \/ Close(t) \/ Leave(t)
    BY <1>0, <2>2, ClosedKeeps, CloseKeeps, LeaveKeeps
  <2> QED
    BY <1>2, <2>1, <2>2 DEF ClientThread, Finish, Serves
<1>3. CASE server_thread
  BY <1>0, <1>3, PlaceKeeps, CreateKeeps, ServerKeeps DEF server_thread, ServerStep
<1>4. CASE cws_stop
  BY <1>0, <1>4, StopKeeps
<1>5. ASSUME NEW t \in Senders, NEW c \in Clients, SendTo(t, c) PROVE SlotInv'
  BY <1>0, <1>5, SendToKeeps
<1>6. CASE UNCHANGED vars
  BY <1>6 DEF SlotInv, vars, slots, server, TypeOK, OpenSlots, Accepted, SendsReturn,
              NoDescriptorLeaks, Placed, OwnConnection, Serving, Running
<1> QED
  BY <1>1, <1>2, <1>3, <1>4, <1>5, <1>6 DEF Next, ServerNext

(* cws.c:670-753: the invariant that ties slots, descriptors and threads.  *)
THEOREM CwsSlots == Spec => []SlotInv
<1> QED
  BY InitSlots, SlotStep, PTL DEF Spec

(* cws.c:732-749, 703-710: no descriptor is left without a thread that     *)
(* closes it, whatever cws_stop and the clients do, for any table.          *)
THEOREM CwsNoDescriptorLeaks == Spec => []NoDescriptorLeaks
<1>1. SlotInv => NoDescriptorLeaks
  BY DEF SlotInv
<1> QED
  BY <1>1, CwsSlots, PTL

(* cws.c:670-713: until cws_stop a client thread works on the connection   *)
(* it was made for.                                                         *)
THEOREM CwsOwnConnection == Spec => []OwnConnection
<1>1. SlotInv => OwnConnection
  BY DEF SlotInv
<1> QED
  BY <1>1, CwsSlots, PTL

-----------------------------------------------------------------------------
(* The web adapter takes no step that the server does not allow its user.  *)

LEMMA HandlerSteps ==
  ASSUME WebTypeOK, NEW t \in Conns, Handler(t)
  PROVE  on_message(t) \/ on_close(t) \/ UNCHANGED vars
BY DEF Handler, Message, Added, AddedInVain, Updated, Removed, Cover, CoverTooEarly,
       KeepCover, Ignored, RemovePlayers, DropCovers, Handled

LEMMA EventSteps ==
  ASSUME WebTypeOK, NEW t \in Senders, Event(t)
  PROVE  \E c \in Clients : SendTo(t, c)
BY DEF Event, WebTypeOK, Player

LEMMA WebSteps == WebTypeOK /\ [WebNext]_web_vars => [Next]_vars
<1> SUFFICES ASSUME WebTypeOK, [WebNext]_web_vars PROVE [Next]_vars
  OBVIOUS
<1>1. ASSUME NEW t \in Conns, Handler(t) PROVE [Next]_vars
  BY <1>1, HandlerSteps DEF Next
<1>2. ASSUME NEW t \in Senders, Event(t) PROVE [Next]_vars
  BY <1>2, EventSteps DEF Next
<1>3. ASSUME NEW t \in Senders, EventSent(t) PROVE [Next]_vars
  BY <1>3 DEF EventSent
<1>4. CASE Uninit
  BY <1>4 DEF Uninit, Next, ServerNext, cws_stop
<1>5. CASE server_thread \/ Stop \/ Stopping
  BY <1>5 DEF Next, ServerNext, cws_stop, Stopping
<1>6. ASSUME NEW t \in Conns, Connection(t) PROVE [Next]_vars
  BY <1>6 DEF Connection, Next, ServerNext, ClientThread
<1>7. ASSUME NEW t \in Senders, cws_send(t) PROVE [Next]_vars
  BY <1>7 DEF Next, ServerNext
<1>8. CASE UNCHANGED web_vars
  BY <1>8 DEF web_vars
<1> QED
  BY <1>1, <1>2, <1>3, <1>4, <1>5, <1>6, <1>7, <1>8 DEF WebNext

-----------------------------------------------------------------------------
(* Types.                                                                  *)

WebTypes ==
  /\ players \in [PlayerIds -> Player \cup {Nothing}]
  /\ players_lock \in Threads \cup {NoConn}
  /\ cover_buffers \in [Buffers -> Buffer \cup {Nothing}]
  /\ early \in [Conns -> Ports \cup {Nothing}]
  /\ cleared \in [Conns -> BOOLEAN]
  /\ request \in [Senders -> PlayerIds]
  /\ announced \in [Conns -> SUBSET [port : Ports, text : Texts]]

LEMMA InitWebType == WebInit => WebTypeOK
<1> SUFFICES ASSUME WebInit PROVE WebTypeOK
  OBVIOUS
<1>1. 0 \in PlayerIds
  BY WebAssumption DEF PlayerIds
<1>2. request \in [Senders -> PlayerIds]
  BY <1>1 DEF WebInit
<1>3. announced \in [Conns -> SUBSET [port : Ports, text : Texts]]
  BY DEF WebInit
<1> QED
  BY <1>2, <1>3, InitType DEF WebInit, WebTypeOK

(* What a cycle puts into the table and into the buffers.                  *)
LEMMA NewPlayer ==
  ASSUME WebTypeOK, NEW t \in Conns, NEW port \in Ports, NEW text \in Texts,
         NEW cover \in Covers
  PROVE  [conn |-> t, client |-> client[t], port |-> port, text |-> text,
          cover |-> cover] \in Player
BY ThreadFacts DEF WebTypeOK, TypeOK, Player

LEMMA AnnounceType ==
  ASSUME WebTypeOK, NEW t \in Conns, NEW port \in Ports, NEW texts \in SUBSET Texts,
         Announce(t, port, texts)
  PROVE  announced' \in [Conns -> SUBSET [port : Ports, text : Texts]]
BY DEF WebTypeOK, Announce

LEMMA HandledType ==
  ASSUME WebTypeOK, NEW t \in Conns, Handled(t)
  PROVE  /\ early' \in [Conns -> Ports \cup {Nothing}]
         /\ cleared' = cleared /\ request' = request
BY DEF WebTypeOK, Handled

LEMMA LeastOf ==
  ASSUME NEW T \in SUBSET Nat, T # {}
  PROVE  \E m \in T : \A n \in T : m <= n
<1>1. PICK m \in T : \A n \in T : ~(<<n, m>> \in OpToRel(<, Nat))
  BY NatLessThanWellFounded, WFMin, Zenon
<1>2. ASSUME NEW n \in T PROVE m <= n
  <2>1. <<n, m>> \notin OpToRel(<, Nat)
    BY <1>1, Zenon
  <2>2. m \in Nat /\ n \in Nat
    OBVIOUS
  <2>3. ~(n < m)
    BY <2>1, <2>2 DEF OpToRel
  <2> QED
    BY <2>2, <2>3
<1> QED
  BY <1>2, Zenon

(* There is a first cover when one waits.                                  *)
LEMMA FirstWaiting ==
  ASSUME NEW t \in Conns, NEW port \in Ports, Waiting(t, port) # {}
  PROVE  \E b \in Buffers : First(Waiting(t, port), b)
<1>1. Waiting(t, port) \in SUBSET Nat /\ Waiting(t, port) \subseteq Buffers
  BY WebAssumption DEF Waiting, Buffers
<1> QED
  BY <1>1, LeastOf DEF First

LEMMA AddedType ==
  ASSUME WebTypeOK, NEW t \in Conns, NEW port \in Ports, NEW text \in Texts,
         Added(t, port, text)
  PROVE  WebTypes'
<1>1. players' \in [PlayerIds -> Player \cup {Nothing}]
  <2> DEFINE c == cover_buffers[CHOOSE b \in Buffers : First(Waiting(t, port), b)]
  <2>1. PICK p \in PlayerIds, path \in CoverPath :
          LET cover == IF Waiting(t, port) # {} /\ path
                       THEN [conn |-> c.conn, port |-> c.port] ELSE Nothing
          IN players' = [players EXCEPT ![p] =
               [conn |-> t, client |-> client[t], port |-> port, text |-> text,
                cover |-> cover]]
    BY DEF Added
  <2>2. ASSUME Waiting(t, port) # {} PROVE [conn |-> c.conn, port |-> c.port] \in Covers
    <3>1. PICK b \in Buffers : First(Waiting(t, port), b)
      BY <2>2, FirstWaiting
    <3>2. \E q \in Buffers : First(Waiting(t, port), q) /\ c = cover_buffers[q]
      BY <3>1
    <3>3. c \in Buffer
      BY <3>2 DEF First, Waiting, IsFor, WebTypeOK
    <3> QED
      BY <3>3 DEF Buffer, Covers
  <2>3. Nothing \in Covers
    BY DEF Covers
  <2> QED
    BY <2>1, <2>2, <2>3, NewPlayer DEF WebTypeOK
<1>2. cover_buffers' \in [Buffers -> Buffer \cup {Nothing}]
  BY DEF Added, WebTypeOK
<1>3. announced' \in [Conns -> SUBSET [port : Ports, text : Texts]]
  BY AnnounceType DEF Added
<1> QED
  BY <1>1, <1>2, <1>3, HandledType DEF Added, WebTypes, WebTypeOK

LEMMA HandlerType ==
  ASSUME WebTypeOK, NEW t \in Conns, Handler(t)
  PROVE  WebTypes'
<1>0. t \in Threads
  BY ThreadFacts
<1>1. ASSUME NEW port \in Ports, NEW text \in Texts, Added(t, port, text) PROVE WebTypes'
  BY <1>1, AddedType
<1>2. ASSUME NEW port \in Ports, NEW text \in Texts, AddedInVain(t, port, text)
      PROVE  WebTypes'
  <2>1. announced' \in [Conns -> SUBSET [port : Ports, text : Texts]]
    BY <1>2, AnnounceType DEF AddedInVain
  <2> QED
    BY <1>0, <1>2, <2>1, HandledType DEF AddedInVain, WebTypes, WebTypeOK
<1>3. ASSUME NEW port \in Ports, NEW text \in Texts, Updated(t, port, text)
      PROVE  WebTypes'
  <2>1. announced' \in [Conns -> SUBSET [port : Ports, text : Texts]]
    BY <1>3, AnnounceType DEF Updated
  <2>2. ASSUME NEW p \in PlayerIds, p \in Matching(t, port)
        PROVE  [players[p] EXCEPT !.text = text] \in Player
    BY <2>2 DEF Matching, IsFor, WebTypeOK, Player
  <2>3. players' \in [PlayerIds -> Player \cup {Nothing}]
    BY <1>3, <2>2 DEF Updated, WebTypeOK
  <2> QED
    BY <1>3, <2>1, <2>3, HandledType DEF Updated, WebTypes, WebTypeOK
<1>4. ASSUME NEW port \in Ports, Removed(t, port) PROVE WebTypes'
  <2>1. announced' \in [Conns -> SUBSET [port : Ports, text : Texts]]
    BY <1>4, AnnounceType DEF Removed
  <2>2. players' \in [PlayerIds -> Player \cup {Nothing}]
    BY <1>4 DEF Removed, WebTypeOK
  <2> QED
    BY <1>4, <2>1, <2>2, HandledType DEF Removed, WebTypes, WebTypeOK
<1>5. ASSUME NEW port \in Ports, Cover(t, port) PROVE WebTypes'
  <2>1. PICK p \in Matching(t, port) :
          \/ /\ players' = [players EXCEPT ![p].cover = [conn |-> t, port |-> port]]
             /\ UNCHANGED players_lock
          \/ players_lock' = t /\ UNCHANGED players
    BY <1>5 DEF Cover
  <2>2. p \in PlayerIds /\ players[p] \in Player
    BY <2>1 DEF Matching, IsFor, WebTypeOK
  <2>3. [players[p] EXCEPT !.cover = [conn |-> t, port |-> port]] \in Player
    BY <2>2 DEF Player, Covers
  <2>4. players' \in [PlayerIds -> Player \cup {Nothing}]
    BY <2>1, <2>2, <2>3 DEF WebTypeOK
  <2> QED
    BY <1>0, <1>5, <2>1, <2>4, HandledType DEF Cover, WebTypes, WebTypeOK
<1>6. ASSUME NEW port \in Ports, CoverTooEarly(t, port) PROVE WebTypes'
  BY <1>6 DEF CoverTooEarly, WebTypes, WebTypeOK
<1>7. CASE KeepCover(t)
  <2>1. [conn |-> t, client |-> client[t], port |-> early[t]] \in Buffer
    BY <1>0, <1>7 DEF KeepCover, WebTypeOK, TypeOK, Buffer
  <2>2. cover_buffers' \in [Buffers -> Buffer \cup {Nothing}]
    BY <1>7, <2>1 DEF KeepCover, WebTypeOK
  <2> QED
    BY <1>7, <2>2, HandledType DEF KeepCover, WebTypes, WebTypeOK
<1>8. CASE Ignored(t)
  BY <1>8, HandledType DEF Ignored, WebTypes, WebTypeOK
<1>9. CASE RemovePlayers(t)
  BY <1>9 DEF RemovePlayers, WebTypes, WebTypeOK
<1>10. CASE DropCovers(t)
  BY <1>10 DEF DropCovers, WebTypes, WebTypeOK
<1> QED
  BY <1>1, <1>2, <1>3, <1>4, <1>5, <1>6, <1>7, <1>8, <1>9, <1>10 DEF Handler, Message

LEMMA WebTypeStep == WebTypeOK /\ [WebNext]_web_vars => WebTypeOK'
<1> SUFFICES ASSUME WebTypeOK, [WebNext]_web_vars PROVE WebTypeOK'
  OBVIOUS
<1>0. TypeOK'
  BY WebSteps, TypeStep DEF WebTypeOK
<1>1. ASSUME NEW t \in Conns, Handler(t) PROVE WebTypes'
  BY <1>1, HandlerType
<1>2. ASSUME NEW t \in Senders, Event(t) PROVE WebTypes'
  BY <1>2, ThreadFacts DEF Event, WebTypes, WebTypeOK
<1>3. ASSUME NEW t \in Senders, EventSent(t) PROVE WebTypes'
  <2>1. 0 \in PlayerIds
    BY WebAssumption DEF PlayerIds
  <2> QED
    BY <1>3, <2>1 DEF EventSent, WebTypes, WebTypeOK
<1>4. ASSUME Uninit PROVE WebTypes'
  BY <1>4 DEF Uninit, WebTypes, WebTypeOK
<1>5. ASSUME UNCHANGED web PROVE WebTypes'
  BY <1>5 DEF web, WebTypes, WebTypeOK
<1>6. WebTypes'
  BY <1>1, <1>2, <1>3, <1>4, <1>5 DEF WebNext, web_vars
<1> QED
  BY <1>0, <1>6 DEF WebTypes, WebTypeOK

(* Slots, players, buffers and requests stay in range (web.c:36-60).       *)
THEOREM WebTypesOK == WebSpec => []WebTypeOK
<1> QED
  BY InitWebType, WebTypeStep, PTL DEF WebSpec

(* web.c:155-180, 250-332: whatever the adapter's handlers do, the server  *)
(* under it only takes steps that cws.c allows the user of its handlers.    *)
THEOREM WebImplementsServer == WebSpec => Spec
<1>1. WebInit => Init
  BY DEF WebInit
<1> QED
  BY <1>1, WebSteps, WebTypesOK, PTL DEF WebSpec, Spec

(* cws.c:670-753: so the slots keep their order under the adapter.         *)
THEOREM WebSlots == WebSpec => []SlotInv
<1> QED
  BY WebImplementsServer, CwsSlots, PTL

-----------------------------------------------------------------------------
(* Who is there.  What the table and the buffers keep belongs to a client   *)
(* that is still there, under the slot it is in; the handlers' two steps    *)
(* are steps of their thread; and a request is sent under players_lock.     *)

(* A client whose handlers have run, or may run, for its connection.       *)
Opened(t) ==
  \/ pc[t] \in {"read", "message", "closing", "on_close"}
  \/ pc[t] \in {"check", "lock", "send"} /\ back[t] \in {"read", "on_close"}

Owned(x) == x.client = client[x.conn] /\ Opened(x.conn)

AllOwned ==
  /\ \A p \in PlayerIds : players[p] # Nothing => Owned(players[p])
  /\ \A b \in Buffers : cover_buffers[b] # Nothing => Owned(cover_buffers[b])

Handling ==
  \A t \in Conns :
    /\ early[t] # Nothing => pc[t] = "message"
    /\ cleared[t] => /\ pc[t] = "on_close"
                     /\ \A p \in PlayerIds : players[p] # Nothing => players[p].conn # t

Sending(t) == pc[t] \in {"check", "lock", "send"}

SendersReturn ==
  \A t \in Senders : /\ pc[t] = "new" \/ Sending(t)
                     /\ Sending(t) => back[t] = "new"

Requests ==
  \A t \in Senders : Sending(t) =>
    /\ players_lock = t
    /\ players[request[t]] # Nothing
    /\ client[t] = players[request[t]].client

OwnerInv == AllOwned /\ Handling /\ SendersReturn /\ Requests

-----------------------------------------------------------------------------
(* How the threads move in a step of the server under the adapter.         *)

Library ==
  \/ server_thread \/ Stop \/ Stopping
  \/ \E t \in Conns : Connection(t)
  \/ \E t \in Senders : cws_send(t)

(* Nobody leaves who is open, and no handler runs.                          *)
ClientsStay ==
  \A u \in Conns : /\ Opened(u) => Opened(u)' /\ client'[u] = client[u]
                   /\ pc[u] \in {"message", "on_close"} => pc'[u] = pc[u]

SendersStay ==
  \A u \in Senders : /\ client'[u] = client[u]
                     /\ Sending(u)' => Sending(u)

(* A step of u alone, in its slot.                                          *)
OnlyMoves(u) ==
  /\ client' = client
  /\ \A v \in Conns \cup Senders : v # u => pc'[v] = pc[v] /\ back'[v] = back[v]

LEMMA SendMoves ==
  ASSUME TypeOK, NEW u \in Conns \cup Senders, cws_send(u)
  PROVE  /\ OnlyMoves(u) /\ Sending(u)
         /\ \/ Sending(u)' /\ back'[u] = back[u]
            \/ pc'[u] \in {back[u], Failed(u)}
<1>0. u \in Threads
  BY ThreadFacts
<1>1. CASE SendCheck(u)
  BY <1>0, <1>1, ThreadFacts DEF SendCheck, Back, Goto, OnlyMoves, Sending, TypeOK
<1>2. CASE SendLock(u)
  BY <1>0, <1>2, ThreadFacts DEF SendLock, Goto, OnlyMoves, Sending, TypeOK
<1>3. CASE Send(u)
  BY <1>0, <1>3, ThreadFacts DEF Send, Back, Goto, OnlyMoves, Sending, TypeOK
<1> QED
  BY <1>1, <1>2, <1>3 DEF cws_send

LEMMA ConnectionMoves ==
  ASSUME SlotInv, NEW u \in Conns, Connection(u)
  PROVE  /\ OnlyMoves(u)
         /\ Opened(u) => Opened(u)'
         /\ pc[u] \notin {"message", "on_close"}
<1>0. u \in Threads /\ TypeOK
  BY ThreadFacts DEF SlotInv
<1>1. CASE handle_handshake(u) \/ HandshakeFails(u) \/ on_open(u)
  BY <1>0, <1>1, ThreadFacts
  DEF handle_handshake, HandshakeFails, on_open, Reads, Call, Goto, OnlyMoves, Opened, TypeOK
<1>2. CASE recv_next_frame(u)
  BY <1>0, <1>2, ThreadFacts DEF recv_next_frame, Reads, Call, Goto, OnlyMoves, Opened, TypeOK
<1>3. CASE RecvFails(u)
  BY <1>0, <1>3, ThreadFacts DEF RecvFails, Goto, OnlyMoves, Opened, TypeOK
<1>4. CASE Closing(u)
  BY <1>0, <1>4, ThreadFacts DEF Closing, Call, Goto, OnlyMoves, Opened, TypeOK
<1>5. CASE Closed(u) \/ Close(u) \/ Leave(u)
  BY <1>0, <1>5, ThreadFacts DEF Closed, Close, Leave, Goto, OnlyMoves, Opened, TypeOK
<1>6. CASE cws_send(u)
  <2>1. Opened(u) => Opened(u)'
    BY <1>0, <1>6, SendMoves DEF Opened, Sending, Failed
  <2> QED
    BY <1>0, <1>6, <2>1, SendMoves DEF Sending
<1> QED
  BY <1>1, <1>2, <1>3, <1>4, <1>5, <1>6 DEF Connection, Handshake, Receive, Finish

LEMMA ServerMoves ==
  ASSUME SlotInv, server_thread
  PROVE  /\ ClientsStay
         /\ \A u \in Senders : pc'[u] = pc[u] /\ back'[u] = back[u] /\ client'[u] = client[u]
<1>0. TypeOK
  BY DEF SlotInv
<1>1. CASE ServerInit \/ ServerLoop \/ AcceptFails \/ NoPlace
  BY <1>0, <1>1, ThreadFacts
  DEF ServerInit, ServerLoop, AcceptFails, NoPlace, Goto, ClientsStay, Opened, TypeOK
<1>2. ASSUME NEW k \in Conns, Accept(k)
      PROVE  /\ ClientsStay
             /\ \A u \in Senders : pc'[u] = pc[u] /\ back'[u] = back[u] /\ client'[u] = client[u]
  BY <1>0, <1>2, ThreadFacts DEF Accept, Goto, ClientsStay, Opened, TypeOK
<1>3. CASE CreateThread
  <2>1. accepted \in Conns /\ pc[accepted] = "new"
    BY <1>3 DEF CreateThread, SlotInv, Accepted
  <2> QED
    BY <1>0, <1>3, <2>1, ThreadFacts DEF CreateThread, ClientsStay, Opened, TypeOK
<1>4. ASSUME NEW c \in Clients, Place(c)
      PROVE  /\ ClientsStay
             /\ \A u \in Senders : pc'[u] = pc[u] /\ back'[u] = back[u] /\ client'[u] = client[u]
  <2>1. accepted \in Conns /\ pc[accepted] = "new"
    BY <1>4 DEF Place, SlotInv, Accepted
  <2> QED
    BY <1>0, <1>4, <2>1, ThreadFacts DEF Place, Goto, ClientsStay, Opened, TypeOK
<1> QED
  BY <1>1, <1>2, <1>3, <1>4 DEF server_thread, ServerStep

LEMMA StopMoves ==
  ASSUME SlotInv, cws_stop
  PROVE  \A u \in Conns \cup Senders :
           pc'[u] = pc[u] /\ back'[u] = back[u] /\ client'[u] = client[u]
<1>0. TypeOK
  BY DEF SlotInv
<1>1. CASE Stop \/ SetExitFlag \/ TermMutex \/ CloseServer
  BY <1>0, <1>1, ThreadFacts DEF Stop, SetExitFlag, TermMutex, CloseServer, Goto, server, TypeOK
<1>2. CASE StopClient \/ StopClose
  BY <1>0, <1>2, ThreadFacts DEF StopClient, StopClose, Goto, TypeOK
<1> QED
  BY <1>1, <1>2 DEF cws_stop

LEMMA LibraryMoves ==
  ASSUME SlotInv, SendersReturn, Library
  PROVE  ClientsStay /\ SendersStay /\ SendersReturn'
<1>0. TypeOK
  BY DEF SlotInv
<1>1. CASE server_thread
  BY <1>1, ServerMoves DEF SendersStay, SendersReturn, Sending
<1>2. CASE Stop \/ Stopping
  BY <1>2, StopMoves
  DEF cws_stop, Stopping, ClientsStay, Opened, SendersStay, SendersReturn, Sending
<1>3. ASSUME NEW u \in Conns, Connection(u)
      PROVE  ClientsStay /\ SendersStay /\ SendersReturn'
  <2>1. ClientsStay
    BY <1>3, ConnectionMoves DEF OnlyMoves, ClientsStay, Opened
  <2> QED
    BY <1>3, <2>1, ConnectionMoves, ThreadFacts
    DEF OnlyMoves, SendersStay, SendersReturn, Sending
<1>4. ASSUME NEW u \in Senders, cws_send(u)
      PROVE  ClientsStay /\ SendersStay /\ SendersReturn'
  <2>1. /\ OnlyMoves(u) /\ Sending(u)
        /\ \/ Sending(u)' /\ back'[u] = back[u]
           \/ pc'[u] \in {back[u], Failed(u)}
    BY <1>0, <1>4, SendMoves
  <2>2. back[u] = "new" /\ Failed(u) = "new"
    BY <2>1 DEF SendersReturn, Failed
  <2>3. ClientsStay
    BY <2>1, ThreadFacts DEF OnlyMoves, ClientsStay, Opened
  <2>4. SendersStay
    BY <2>1 DEF OnlyMoves, SendersStay, Sending
  <2>5. SendersReturn'
    BY <2>1, <2>2 DEF OnlyMoves, SendersReturn, Sending
  <2> QED
    BY <2>3, <2>4, <2>5
<1> QED
  BY <1>1, <1>2, <1>3, <1>4 DEF Library

-----------------------------------------------------------------------------
(* OwnerInv holds.                                                         *)

LEMMA InitOwner == WebInit => OwnerInv
<1> SUFFICES ASSUME WebInit PROVE OwnerInv
  OBVIOUS
<1>1. \A t \in Conns \cup Senders : pc[t] = "new"
  BY ThreadFacts DEF WebInit, Init
<1>2. /\ \A p \in PlayerIds : players[p] = Nothing
      /\ \A b \in Buffers : cover_buffers[b] = Nothing
      /\ \A t \in Conns : early[t] = Nothing /\ ~cleared[t]
  BY DEF WebInit
<1> QED
  BY <1>1, <1>2 DEF OwnerInv, AllOwned, Handling, SendersReturn, Requests, Sending

LEMMA LibraryOwner ==
  ASSUME WebTypeOK, SlotInv, OwnerInv, Library, UNCHANGED web
  PROVE  OwnerInv'
<1>1. ClientsStay /\ SendersStay /\ SendersReturn'
  BY LibraryMoves DEF OwnerInv
<1>2. AllOwned'
  BY <1>1 DEF OwnerInv, AllOwned, Owned, ClientsStay, WebTypeOK, Player, Buffer, web
<1>3. Handling'
  BY <1>1 DEF OwnerInv, Handling, ClientsStay, web
<1>4. Requests'
  BY <1>1 DEF OwnerInv, Requests, SendersStay, web
<1> QED
  BY <1>1, <1>2, <1>3, <1>4 DEF OwnerInv

(* Under a free lock nobody sends a request.                               *)
LEMMA Quiet ==
  ASSUME OwnerInv, Unlocked, NEW u \in Senders
  PROVE  ~Sending(u)
BY ThreadFacts DEF OwnerInv, Requests, Unlocked

(* The end of a message's handler moves nobody else.                       *)
LEMMA HandledMoves ==
  ASSUME WebTypeOK, NEW t \in Conns, Handled(t)
  PROVE  /\ OnlyMoves(t) /\ pc[t] = "message" /\ pc'[t] = "read"
         /\ fd' = fd /\ lock' = lock /\ broken' = broken /\ clients_mutex' = clients_mutex
         /\ pc'[ServerThread] = pc[ServerThread] /\ pc'[Stopper] = pc[Stopper]
         /\ early'[t] = Nothing /\ \A u \in Conns : u # t => early'[u] = early[u]
         /\ cleared' = cleared /\ request' = request
BY ThreadFacts
DEF Handled, on_message, Goto, OnlyMoves, slots, server, WebTypeOK, TypeOK

(* What a handler needs to show of the table and the buffers it leaves.    *)
LEMMA HandledOwner ==
  ASSUME WebTypeOK, OwnerInv, NEW t \in Conns, Handled(t),
         \A p \in PlayerIds : players'[p] # Nothing =>
           \/ players'[p].conn = t /\ players'[p].client = client[t]
           \/ /\ players[p] # Nothing
              /\ players'[p].conn = players[p].conn
              /\ players'[p].client = players[p].client,
         \A b \in Buffers : cover_buffers'[b] # Nothing =>
           \/ cover_buffers'[b].conn = t /\ cover_buffers'[b].client = client[t]
           \/ cover_buffers'[b] = cover_buffers[b],
         Unlocked \/ (players' = players /\ players_lock' = players_lock)
  PROVE  OwnerInv'
<1>1. /\ OnlyMoves(t) /\ pc[t] = "message" /\ pc'[t] = "read"
      /\ early'[t] = Nothing /\ \A u \in Conns : u # t => early'[u] = early[u]
      /\ cleared' = cleared /\ request' = request
  BY HandledMoves
<1>2. \A u \in Conns : Opened(u) => Opened(u)'
  BY <1>1 DEF OnlyMoves, Opened
<1>3. Opened(t)'
  BY <1>1 DEF Opened
<1>4. AllOwned'
  <2>1. ASSUME NEW p \in PlayerIds, players'[p] # Nothing
        PROVE  \E u \in Conns : /\ u = players'[p].conn /\ players'[p].client = client'[u]
                                /\ Opened(u)'
    BY <1>1, <1>2, <1>3, <2>1
    DEF OwnerInv, AllOwned, Owned, OnlyMoves, WebTypeOK, Player
  <2>2. ASSUME NEW b \in Buffers, cover_buffers'[b] # Nothing
        PROVE  \E u \in Conns : /\ u = cover_buffers'[b].conn
                                /\ cover_buffers'[b].client = client'[u] /\ Opened(u)'
    BY <1>1, <1>2, <1>3, <2>2
    DEF OwnerInv, AllOwned, Owned, OnlyMoves, WebTypeOK, Buffer
  <2> QED
    BY <2>1, <2>2 DEF AllOwned, Owned, Opened
<1>5. Handling'
  BY <1>1 DEF OwnerInv, Handling, OnlyMoves
<1>6. \A u \in Senders : pc'[u] = pc[u] /\ back'[u] = back[u] /\ client'[u] = client[u]
  BY <1>1, ThreadFacts DEF OnlyMoves
<1>7. SendersReturn'
  BY <1>6 DEF OwnerInv, SendersReturn, Sending
<1>8. Requests'
  BY <1>1, <1>6, Quiet DEF OwnerInv, Requests, Sending
<1> QED
  BY <1>4, <1>5, <1>7, <1>8 DEF OwnerInv

LEMMA MessageOwner ==
  ASSUME WebTypeOK, OwnerInv, NEW t \in Conns, Message(t)
  PROVE  OwnerInv'
<1>1. ASSUME NEW port \in Ports, NEW text \in Texts, Added(t, port, text) PROVE OwnerInv'
  BY <1>1, HandledOwner DEF Added, Starts, WebTypeOK
<1>2. ASSUME NEW port \in Ports, NEW text \in Texts, AddedInVain(t, port, text)
      PROVE  OwnerInv'
  BY <1>2, HandledOwner DEF AddedInVain, Starts
<1>3. ASSUME NEW port \in Ports, NEW text \in Texts, Updated(t, port, text)
      PROVE  OwnerInv'
  <2>1. ASSUME NEW p \in PlayerIds, players'[p] # Nothing
        PROVE  /\ players[p] # Nothing
               /\ players'[p].conn = players[p].conn
               /\ players'[p].client = players[p].client
    BY <1>3, <2>1 DEF Updated, Matching, IsFor, WebTypeOK, Player
  <2> QED
    BY <1>3, <2>1, HandledOwner DEF Updated, Starts
<1>4. ASSUME NEW port \in Ports, Removed(t, port) PROVE OwnerInv'
  BY <1>4, HandledOwner DEF Removed, Starts
<1>5. ASSUME NEW port \in Ports, Cover(t, port) PROVE OwnerInv'
  <2>1. ASSUME NEW p \in PlayerIds, players'[p] # Nothing
        PROVE  /\ players[p] # Nothing
               /\ players'[p].conn = players[p].conn
               /\ players'[p].client = players[p].client
    BY <1>5, <2>1 DEF Cover, Matching, IsFor, WebTypeOK, Player
  <2> QED
    BY <1>5, <2>1, HandledOwner DEF Cover, Starts
<1>6. ASSUME NEW port \in Ports, CoverTooEarly(t, port) PROVE OwnerInv'
  <2>1. /\ UNCHANGED <<vars, players, players_lock, cover_buffers, cleared, request>>
        /\ pc[t] = "message" /\ \A u \in Conns : u # t => early'[u] = early[u]
    BY <1>6 DEF CoverTooEarly, Starts, WebTypeOK
  <2> QED
    BY <2>1 DEF OwnerInv, AllOwned, Owned, Opened, Handling, SendersReturn, Requests,
                Sending, vars
<1>7. CASE KeepCover(t)
  <2>1. ASSUME NEW b \in Buffers, cover_buffers'[b] # Nothing
        PROVE  \/ cover_buffers'[b].conn = t /\ cover_buffers'[b].client = client[t]
               \/ cover_buffers'[b] = cover_buffers[b]
    BY <1>7, <2>1 DEF KeepCover
  <2> QED
    BY <1>7, <2>1, HandledOwner DEF KeepCover
<1>8. CASE Ignored(t)
  BY <1>8, HandledOwner DEF Ignored
<1> QED
  BY <1>1, <1>2, <1>3, <1>4, <1>5, <1>6, <1>7, <1>8 DEF Message

LEMMA CloseOwner ==
  ASSUME WebTypeOK, OwnerInv, NEW t \in Conns, RemovePlayers(t) \/ DropCovers(t)
  PROVE  OwnerInv'
<1>0. t \in Threads
  BY ThreadFacts
<1>1. CASE RemovePlayers(t)
  <2>1. /\ UNCHANGED <<vars, players_lock, cover_buffers, early, request>>
        /\ pc[t] = "on_close" /\ Unlocked
        /\ \A u \in Conns : u # t => cleared'[u] = cleared[u]
    BY <1>1 DEF RemovePlayers, WebTypeOK
  <2>2. ASSUME NEW p \in PlayerIds, players'[p] # Nothing
        PROVE  players'[p] = players[p] /\ players[p].client # client[t]
    BY <1>1, <2>2 DEF RemovePlayers
  <2>3. \A p \in PlayerIds : players'[p] # Nothing => players'[p].conn # t
    BY <2>2 DEF OwnerInv, AllOwned, Owned
  <2>4. AllOwned'
    BY <2>1, <2>2 DEF OwnerInv, AllOwned, Owned, Opened, vars
  <2>5. Handling'
    BY <2>1, <2>2, <2>3 DEF OwnerInv, Handling, vars
  <2>6. SendersReturn' /\ Requests'
    BY <2>1, Quiet DEF OwnerInv, SendersReturn, Requests, Sending, vars
  <2> QED
    BY <2>4, <2>5, <2>6 DEF OwnerInv
<1>2. CASE DropCovers(t)
  <2>1. /\ pc[t] = "on_close" /\ pc'[t] = "closed" /\ OnlyMoves(t)
        /\ players' = players /\ players_lock' = players_lock /\ early' = early
        /\ request' = request
        /\ cleared[t] /\ ~cleared'[t] /\ \A u \in Conns : u # t => cleared'[u] = cleared[u]
    BY <1>0, <1>2, ThreadFacts DEF DropCovers, on_close, Goto, OnlyMoves, WebTypeOK, TypeOK
  <2>2. ASSUME NEW b \in Buffers, cover_buffers'[b] # Nothing
        PROVE  cover_buffers'[b] = cover_buffers[b] /\ cover_buffers[b].client # client[t]
    BY <1>2, <2>2 DEF DropCovers
  <2>3. ASSUME NEW u \in Conns, u # t, Opened(u) PROVE Opened(u)'
    BY <2>1, <2>3 DEF OnlyMoves, Opened
  <2>4. ASSUME NEW p \in PlayerIds, players[p] # Nothing
        PROVE  \E u \in Conns : u = players[p].conn /\ players[p].client = client'[u]
                                /\ Opened(u)'
    BY <2>1, <2>3, <2>4
    DEF OwnerInv, AllOwned, Owned, Handling, OnlyMoves, WebTypeOK, Player
  <2>5. ASSUME NEW b \in Buffers, cover_buffers'[b] # Nothing
        PROVE  \E u \in Conns : /\ u = cover_buffers'[b].conn
                                /\ cover_buffers'[b].client = client'[u] /\ Opened(u)'
    BY <2>1, <2>2, <2>3, <2>5
    DEF OwnerInv, AllOwned, Owned, OnlyMoves, WebTypeOK, Buffer
  <2>6. AllOwned'
    BY <2>1, <2>4, <2>5 DEF AllOwned, Owned, Opened
  <2>7. Handling'
    BY <2>1 DEF OwnerInv, Handling, OnlyMoves
  <2>8. \A u \in Senders : pc'[u] = pc[u] /\ back'[u] = back[u] /\ client'[u] = client[u]
    BY <2>1, ThreadFacts DEF OnlyMoves
  <2>9. SendersReturn' /\ Requests'
    BY <2>1, <2>8 DEF OwnerInv, SendersReturn, Requests, Sending
  <2> QED
    BY <2>6, <2>7, <2>9 DEF OwnerInv
<1> QED
  BY <1>1, <1>2

LEMMA EventOwner ==
  ASSUME WebTypeOK, OwnerInv, NEW t \in Senders, Event(t) \/ EventSent(t)
  PROVE  OwnerInv'
<1>0. t \in Threads
  BY ThreadFacts
<1>1. CASE Event(t)
  <2>1. PICK p \in PlayerIds : /\ players[p] # Nothing
                               /\ SendTo(t, players[p].client)
                               /\ request' = [request EXCEPT ![t] = p]
    BY <1>1 DEF Event
  <2>2. /\ players' = players /\ players_lock' = t /\ cover_buffers' = cover_buffers
        /\ early' = early /\ cleared' = cleared /\ Unlocked
    BY <1>1 DEF Event
  <2>3. /\ pc'[t] = "check" /\ back'[t] = "new" /\ client'[t] = players[p].client
        /\ \A u \in Conns \cup Senders : u # t =>
             pc'[u] = pc[u] /\ back'[u] = back[u] /\ client'[u] = client[u]
    BY <1>0, <2>1, ThreadFacts DEF SendTo, Call, WebTypeOK, TypeOK
  <2>4. \A u \in Conns : pc'[u] = pc[u] /\ back'[u] = back[u] /\ client'[u] = client[u]
    BY <2>3, ThreadFacts
  <2>5. AllOwned' /\ Handling'
    BY <2>2, <2>4
    DEF OwnerInv, AllOwned, Owned, Opened, Handling, WebTypeOK, Player, Buffer
  <2>6. SendersReturn'
    BY <2>3 DEF OwnerInv, SendersReturn, Sending
  <2>7. Requests'
    BY <2>1, <2>2, <2>3, Quiet DEF Requests, Sending, WebTypeOK
  <2> QED
    BY <2>5, <2>6, <2>7 DEF OwnerInv
<1>2. CASE EventSent(t)
  <2>1. \A u \in Senders : ~Sending(u)
    BY <1>2 DEF EventSent, OwnerInv, Requests, Sending
  <2>2. UNCHANGED <<vars, players, cover_buffers, early, cleared>>
    BY <1>2 DEF EventSent
  <2> QED
    BY <2>1, <2>2 DEF OwnerInv, AllOwned, Owned, Opened, Handling, SendersReturn, Requests,
                      Sending, vars
<1> QED
  BY <1>1, <1>2

LEMMA UninitOwner ==
  ASSUME WebTypeOK, SlotInv, OwnerInv, Uninit
  PROVE  OwnerInv'
<1>1. \A u \in Conns \cup Senders :
        pc'[u] = pc[u] /\ back'[u] = back[u] /\ client'[u] = client[u]
  BY StopMoves DEF Uninit, cws_stop
<1>2. /\ \A b \in Buffers : cover_buffers'[b] = Nothing
      /\ UNCHANGED <<players, players_lock, early, cleared, request>>
  BY DEF Uninit
<1>3. AllOwned' /\ Handling'
  BY <1>1, <1>2 DEF OwnerInv, AllOwned, Owned, Opened, Handling, WebTypeOK, Player
<1>4. SendersReturn' /\ Requests'
  BY <1>1, <1>2 DEF OwnerInv, SendersReturn, Requests, Sending
<1> QED
  BY <1>3, <1>4 DEF OwnerInv

LEMMA OwnerStep == WebTypeOK /\ SlotInv /\ OwnerInv /\ [WebNext]_web_vars => OwnerInv'
<1> SUFFICES ASSUME WebTypeOK, SlotInv, OwnerInv, [WebNext]_web_vars PROVE OwnerInv'
  OBVIOUS
<1>1. ASSUME NEW t \in Conns, Handler(t) PROVE OwnerInv'
  BY <1>1, MessageOwner, CloseOwner DEF Handler
<1>2. ASSUME NEW t \in Senders, Event(t) \/ EventSent(t) PROVE OwnerInv'
  BY <1>2, EventOwner
<1>3. CASE Library /\ UNCHANGED web
  BY <1>3, LibraryOwner
<1>4. CASE UNCHANGED web_vars
  BY <1>4 DEF web_vars, vars, web, OwnerInv, AllOwned, Owned, Opened, Handling,
              SendersReturn, Requests, Sending
<1> QED
  BY <1>1, <1>2, <1>3, <1>4, UninitOwner DEF WebNext, Library

(* web.c:155-180, 407-412: the players and covers of the table belong to   *)
(* clients that are there, and a request is sent under players_lock.        *)
THEOREM WebOwners == WebSpec => []OwnerInv
<1> QED
  BY InitOwner, OwnerStep, WebTypesOK, WebSlots, PTL DEF WebSpec

(* web.c:159-180 before cws.c:734: nothing that a connection left behind   *)
(* is there when its slot is given to the next one.                         *)
THEOREM WebNothingOutlives == WebSpec => []NothingOutlives
<1>1. WebTypeOK /\ SlotInv /\ OwnerInv => NothingOutlives
  BY DEF WebTypeOK, SlotInv, OwnerInv, AllOwned, Owned, Opened, NothingOutlives, Kept,
         OwnConnection, Serving, Player, Buffer
<1> QED
  BY <1>1, WebTypesOK, WebSlots, WebOwners, PTL

(* web.c:407-412, wnp.c:432-477: a request goes to the connection that     *)
(* announced the player.                                                    *)
THEOREM WebRequestReachesOwner == WebSpec => []RequestReachesOwner
<1>1. WebTypeOK /\ SlotInv /\ OwnerInv => RequestReachesOwner
  BY DEF WebTypeOK, SlotInv, OwnerInv, AllOwned, Owned, Opened, Requests, Sending,
         RequestReachesOwner, OwnConnection, Serving, Player
<1> QED
  BY <1>1, WebTypesOK, WebSlots, WebOwners, PTL

-----------------------------------------------------------------------------
(* The locks of the slots, until the stop.  That a thread in sendn_client   *)
(* holds the lock of its slot is due to players_lock too: a request keeps   *)
(* the handlers from clearing a player, so that the player's client cannot  *)
(* close its slot, and terminate the lock, under the thread that sends.     *)

LiveLocks ==
  Running =>
    /\ pc[ServerThread] # "init" => clients_mutex
    /\ \A c \in Clients : fd[c] # NoConn => lock[c].live

Holds ==
  Running =>
    \A t \in Conns \cup Senders :
      pc[t] = "send" => client[t] \in broken \/ lock[client[t]].holder = t

LockInv == LiveLocks /\ Holds /\ pc[ServerThread] # "send"

LEMMA InitLocks == WebInit => LockInv
BY ThreadFacts DEF WebInit, Init, LockInv, LiveLocks, Holds

(* The slot of a thread that sends is in use, and not by one that leaves.  *)
LEMMA SlotInUse ==
  ASSUME WebTypeOK, SlotInv, OwnerInv, Running, NEW t \in Conns \cup Senders, Sending(t)
  PROVE  /\ fd[client[t]] # NoConn
         /\ \A u \in Conns : pc[u] \in {"closed", "close"} => client[u] # client[t]
<1>1. CASE t \in Conns
  BY <1>1, ThreadFacts DEF SlotInv, OwnConnection, Serving, Sending
<1>2. CASE t \in Senders
  <2>1. PICK v \in Conns : client[t] = client[v] /\ Opened(v)
    BY <1>2 DEF OwnerInv, Requests, AllOwned, Owned, WebTypeOK, Player
  <2> QED
    BY <2>1, ThreadFacts DEF SlotInv, OwnConnection, Serving, Opened
<1> QED
  BY <1>1, <1>2

(* Steps that leave the locks alone.                                       *)
LEMMA LockFrame ==
  ASSUME LockInv, Running' => Running,
         fd' = fd, lock' = lock, broken' = broken,
         pc'[ServerThread] # "init" => pc[ServerThread] # "init" \/ clients_mutex',
         clients_mutex' = clients_mutex \/ clients_mutex',
         pc'[ServerThread] # "send",
         \A t \in Conns \cup Senders :
           pc'[t] = "send" => pc[t] = "send" /\ client'[t] = client[t]
  PROVE  LockInv'
BY DEF LockInv, LiveLocks, Holds

LEMMA UnlockLocks ==
  ASSUME TypeOK, LockInv, NEW u \in Conns \cup Senders, NEW c \in Clients, Unlock(u, c),
         Running' => Running, fd' = fd, clients_mutex' = clients_mutex,
         pc'[ServerThread] = pc[ServerThread], OnlyMoves(u), pc'[u] # "send"
  PROVE  LockInv'
<1>1. /\ \A d \in Clients : lock'[d].live = lock[d].live
      /\ \A d \in Clients : d # c => lock'[d] = lock[d]
      /\ broken \subseteq broken'
      /\ lock[c].holder \in {u, NoConn} \/ c \in broken'
  BY DEF Unlock, Released, TypeOK, Mutex
<1>2. \A t \in Conns \cup Senders : client[t] \in Clients /\ t # NoConn
  BY ThreadFacts DEF TypeOK
<1>3. LiveLocks'
  BY <1>1 DEF LockInv, LiveLocks
<1>4. Holds'
  BY <1>1, <1>2 DEF LockInv, Holds, OnlyMoves
<1> QED
  BY <1>3, <1>4 DEF LockInv

LEMMA LockLocks ==
  ASSUME WebTypeOK, LockInv, NEW u \in Conns \cup Senders,
         Free(lock[client[u]]),
         lock' = [lock EXCEPT ![client[u]] = Held(@, u)],
         pc'[u] = "send" /\ Running => fd[client[u]] # NoConn,
         Running' => Running, fd' = fd, clients_mutex' = clients_mutex, broken' = broken,
         pc'[ServerThread] = pc[ServerThread], OnlyMoves(u)
  PROVE  LockInv'
<1>1. /\ \A d \in Clients : lock'[d].live = lock[d].live
      /\ \A d \in Clients : d # client[u] => lock'[d] = lock[d]
      /\ lock[client[u]].live => lock'[client[u]].holder = u
      /\ lock[client[u]].holder = NoConn
  BY ThreadFacts DEF Held, Free, WebTypeOK, TypeOK, Mutex
<1>2. \A t \in Conns \cup Senders : client[t] \in Clients /\ t # NoConn
  BY ThreadFacts DEF WebTypeOK, TypeOK
<1>3. LiveLocks'
  BY <1>1 DEF LockInv, LiveLocks
<1>4. Holds'
  BY <1>1, <1>2 DEF LockInv, LiveLocks, Holds, OnlyMoves
<1> QED
  BY <1>3, <1>4 DEF LockInv

LEMMA SendLocks ==
  ASSUME WebTypeOK, SlotInv, OwnerInv, LockInv, NEW u \in Conns \cup Senders, cws_send(u)
  PROVE  LockInv'
<1>0. /\ u \in Threads \ {ServerThread, Stopper} /\ client[u] \in Clients
      /\ OnlyMoves(u) /\ Sending(u) /\ TypeOK
  BY ThreadFacts, SendMoves DEF WebTypeOK, TypeOK
<1>1. back[u] # "send" /\ Failed(u) # "send"
  BY <1>0 DEF OwnerInv, SendersReturn, SlotInv, SendsReturn, Sending, Failed
<1>2. pc'[ServerThread] = pc[ServerThread] /\ pc'[Stopper] = pc[Stopper]
  BY <1>0, ThreadFacts DEF cws_send, SendCheck, SendLock, Send, Back, Goto, TypeOK
<1>3. Running' => Running
  BY <1>2 DEF Running
<1>4. CASE SendCheck(u)
  <2>1. pc'[u] # "send" /\ fd' = fd /\ lock' = lock /\ broken' = broken
        /\ clients_mutex' = clients_mutex
    BY <1>0, <1>1, <1>4 DEF SendCheck, Back, Goto, slots, server, TypeOK
  <2> QED
    BY <1>0, <1>2, <1>3, <2>1, LockFrame DEF OnlyMoves, LockInv
<1>5. CASE SendLock(u)
  <2>1. Running => fd[client[u]] # NoConn
    BY <1>0, SlotInUse
  <2> QED
    BY <1>0, <1>2, <1>3, <1>5, <2>1, LockLocks DEF SendLock, server
<1>6. CASE Send(u)
  <2>1. pc'[u] # "send"
    BY <1>0, <1>1, <1>6 DEF Send, Back, Goto, TypeOK
  <2> QED
    BY <1>0, <1>2, <1>3, <1>6, <2>1, UnlockLocks DEF Send, server
<1> QED
  BY <1>4, <1>5, <1>6 DEF cws_send

(* A slot that is closed or filled, when nobody sends through it.          *)
LEMMA SlotLocks ==
  ASSUME WebTypeOK, LockInv, NEW c \in Clients, Running' => Running,
         \A d \in Clients : d # c => fd'[d] = fd[d] /\ lock'[d] = lock[d],
         Running /\ fd'[c] # NoConn => lock'[c].live,
         broken' = broken, clients_mutex' = clients_mutex,
         Running => \A t \in Conns \cup Senders : Sending(t) => client[t] # c,
         pc'[ServerThread] # "init" => pc[ServerThread] # "init",
         pc'[ServerThread] # "send",
         \A t \in Conns \cup Senders :
           pc'[t] = "send" => pc[t] = "send" /\ client'[t] = client[t]
  PROVE  LockInv'
<1>1. \A t \in Conns \cup Senders : client[t] \in Clients
  BY ThreadFacts DEF WebTypeOK, TypeOK
<1>2. LiveLocks'
  BY DEF LockInv, LiveLocks
<1>3. Holds'
  BY <1>1 DEF LockInv, Holds, Sending
<1> QED
  BY <1>2, <1>3 DEF LockInv

(* The steps of a client that look at the locks only.                      *)
LEMMA ReceiveLocks ==
  ASSUME TypeOK, NEW u \in Conns, Handshake(u) \/ Receive(u) \/ Closing(u)
  PROVE  /\ pc'[u] # "send" /\ fd' = fd /\ lock' = lock /\ broken' = broken
         /\ clients_mutex' = clients_mutex
         /\ pc'[ServerThread] = pc[ServerThread] /\ pc'[Stopper] = pc[Stopper]
<1>0. u \in Threads \ {ServerThread, Stopper} /\ client[u] \in Clients
  BY ThreadFacts DEF TypeOK
<1>1. CASE handle_handshake(u) \/ HandshakeFails(u) \/ on_open(u)
  BY <1>0, <1>1, ThreadFacts
  DEF handle_handshake, HandshakeFails, on_open, Reads, Call, Goto, slots, server, TypeOK
<1>2. CASE recv_next_frame(u) \/ RecvFails(u)
  BY <1>0, <1>2, ThreadFacts
  DEF recv_next_frame, RecvFails, Reads, Call, Goto, slots, server, TypeOK
<1>3. CASE Closing(u)
  BY <1>0, <1>3, ThreadFacts DEF Closing, Call, Goto, slots, server, TypeOK
<1> QED
  BY <1>1, <1>2, <1>3 DEF Handshake, Receive

LEMMA ConnectionLocks ==
  ASSUME WebTypeOK, SlotInv, OwnerInv, LockInv, NEW u \in Conns, Connection(u)
  PROVE  LockInv'
<1>0. /\ u \in Threads \ {ServerThread, Stopper} /\ client[u] \in Clients
      /\ OnlyMoves(u) /\ TypeOK
  BY ThreadFacts, ConnectionMoves DEF WebTypeOK, TypeOK
<1>1. CASE cws_send(u)
  BY <1>1, SendLocks
<1>3. CASE Handshake(u) \/ Receive(u) \/ Closing(u)
  BY <1>0, <1>3, ReceiveLocks, LockFrame DEF OnlyMoves, LockInv, Running
<1>4. CASE Closed(u)
  <2>1. /\ pc'[u] # "send" /\ pc'[ServerThread] = pc[ServerThread]
        /\ pc'[Stopper] = pc[Stopper]
    BY <1>0, <1>4 DEF Closed, Goto, TypeOK
  <2> QED
    BY <1>0, <1>4, <2>1, LockLocks DEF Closed, server, Running
<1>5. CASE Close(u)
  <2>1. /\ pc[u] = "close" /\ pc'[u] = "unlock" /\ pc'[ServerThread] = pc[ServerThread]
        /\ pc'[Stopper] = pc[Stopper] /\ broken' = broken /\ clients_mutex' = clients_mutex
    BY <1>0, <1>5 DEF Close, Goto, server, TypeOK
  <2>2. /\ \A d \in Clients : d # client[u] => fd'[d] = fd[d] /\ lock'[d] = lock[d]
        /\ fd'[client[u]] = NoConn
    BY <1>0, <1>5 DEF Close, close_client, slots, TypeOK
  <2>3. Running => \A t \in Conns \cup Senders : Sending(t) => client[t] # client[u]
    BY <2>1, SlotInUse
  <2> QED
    BY <1>0, <2>1, <2>2, <2>3, SlotLocks DEF OnlyMoves, LockInv, Running
<1>6. CASE Leave(u)
  <2>1. /\ pc'[u] # "send" /\ pc'[ServerThread] = pc[ServerThread]
        /\ pc'[Stopper] = pc[Stopper]
    BY <1>0, <1>6 DEF Leave, Goto, TypeOK
  <2> QED
    BY <1>0, <1>6, <2>1, UnlockLocks DEF Leave, server, Running
<1> QED
  BY <1>1, <1>3, <1>4, <1>5, <1>6 DEF Connection, Finish

LEMMA ServerLocks ==
  ASSUME WebTypeOK, SlotInv, OwnerInv, LockInv, server_thread
  PROVE  LockInv'
<1>0. TypeOK /\ pc[ServerThread] \in PCs
  BY ThreadFacts DEF WebTypeOK, TypeOK
<1>1. CASE ServerInit
  BY <1>0, <1>1, ThreadFacts, LockFrame DEF ServerInit, Goto, slots, TypeOK, Running
<1>2. CASE ServerLoop \/ AcceptFails \/ NoPlace
  BY <1>0, <1>2, ThreadFacts, LockFrame
  DEF ServerLoop, AcceptFails, NoPlace, Goto, slots, server, TypeOK, Running
<1>3. ASSUME NEW k \in Conns, Accept(k) PROVE LockInv'
  BY <1>0, <1>3, ThreadFacts, LockFrame DEF Accept, Goto, slots, TypeOK, Running
<1>4. CASE CreateThread
  <2>1. accepted \in Conns /\ pc[accepted] = "new"
    BY <1>4 DEF CreateThread, SlotInv, Accepted
  <2>2. /\ pc'[ServerThread] = "exit_flag" /\ pc'[Stopper] = pc[Stopper]
        /\ pc[ServerThread] # "init"
        /\ \A t \in Conns \cup Senders : pc'[t] = "send" => pc[t] = "send"
    BY <1>0, <1>4, <2>1, ThreadFacts DEF CreateThread, TypeOK
  <2> QED
    BY <1>4, <2>2, LockFrame DEF CreateThread, slots, Running
<1>5. ASSUME NEW c \in Clients, Place(c) PROVE LockInv'
  <2>1. accepted \in Conns /\ pc[accepted] = "new" /\ fd[c] = NoConn
    BY <1>5 DEF Place, FirstFree, SlotInv, Accepted
  <2>2. /\ pc'[ServerThread] = "create" /\ pc'[Stopper] = pc[Stopper]
        /\ pc[ServerThread] = "place"
        /\ \A t \in Conns \cup Senders : pc'[t] = pc[t]
        /\ \A t \in Conns \cup Senders : t # accepted => client'[t] = client[t]
        /\ broken' = broken /\ clients_mutex' = clients_mutex
    BY <1>0, <1>5, <2>1, ThreadFacts DEF Place, Goto, server, TypeOK
  <2>3. \A d \in Clients : d # c => fd'[d] = fd[d] /\ lock'[d] = lock[d]
    BY <1>0, <1>5 DEF Place, TypeOK
  <2>4. Running => lock'[c].live
    BY <1>0, <1>5 DEF Place, LockInv, LiveLocks, Fresh, TypeOK
  <2>5. Running => \A t \in Conns \cup Senders : Sending(t) => client[t] # c
    BY <2>1, SlotInUse
  <2> QED
    BY <2>1, <2>2, <2>3, <2>4, <2>5, SlotLocks DEF Running
<1> QED
  BY <1>1, <1>2, <1>3, <1>4, <1>5 DEF server_thread, ServerStep

LEMMA StopLocks ==
  ASSUME WebTypeOK, LockInv, cws_stop
  PROVE  LockInv'
<1>1. pc'[Stopper] # "new" /\ pc'[ServerThread] = pc[ServerThread]
  <2>1. CASE Stop \/ SetExitFlag \/ TermMutex \/ CloseServer
    BY <2>1, ThreadFacts
    DEF Stop, SetExitFlag, TermMutex, CloseServer, Goto, WebTypeOK, TypeOK
  <2>2. CASE StopClient \/ StopClose
    BY <2>2, ThreadFacts DEF StopClient, StopClose, AfterSlot, Goto, WebTypeOK, TypeOK
  <2> QED
    BY <2>1, <2>2 DEF cws_stop
<1> QED
  BY <1>1 DEF LockInv, LiveLocks, Holds, Running

LEMMA LockStep ==
  WebTypeOK /\ SlotInv /\ OwnerInv /\ LockInv /\ [WebNext]_web_vars => LockInv'
<1> SUFFICES ASSUME WebTypeOK, SlotInv, OwnerInv, LockInv, [WebNext]_web_vars
             PROVE  LockInv'
  OBVIOUS
<1>0. TypeOK
  BY DEF WebTypeOK
<1>1. ASSUME NEW t \in Conns, Handled(t) PROVE LockInv'
  BY <1>1, HandledMoves, LockFrame DEF OnlyMoves, LockInv, Running
<1>2. ASSUME NEW t \in Conns, DropCovers(t) PROVE LockInv'
  <2>1. /\ t \in Threads \ {ServerThread, Stopper} /\ pc' = [pc EXCEPT ![t] = "closed"]
        /\ UNCHANGED <<slots, server, client, broken>>
    BY <1>2, ThreadFacts DEF DropCovers, on_close, Goto
  <2> QED
    BY <1>0, <2>1, ThreadFacts, LockFrame DEF LockInv, Running, slots, server, TypeOK
<1>3. ASSUME NEW t \in Senders, Event(t) PROVE LockInv'
  <2>1. PICK c \in Clients : SendTo(t, c)
    BY <1>3, EventSteps
  <2>2. /\ t \in Threads \ {ServerThread, Stopper} /\ pc' = [pc EXCEPT ![t] = "check"]
        /\ UNCHANGED <<slots, server, broken>>
        /\ \A u \in Threads : u # t => client'[u] = client[u]
    BY <1>0, <2>1, ThreadFacts DEF SendTo, Call, TypeOK
  <2> QED
    BY <1>0, <2>2, ThreadFacts, LockFrame DEF LockInv, Running, slots, server, TypeOK
<1>4. CASE UNCHANGED vars
  BY <1>4, LockFrame DEF vars, slots, server, LockInv, Running
<1>5. ASSUME NEW t \in Conns, Handler(t) PROVE LockInv'
  BY <1>1, <1>2, <1>4, <1>5
  DEF Handler, Message, Added, AddedInVain, Updated, Removed, Cover, CoverTooEarly,
      KeepCover, Ignored, RemovePlayers
<1>6. ASSUME NEW t \in Senders, EventSent(t) PROVE LockInv'
  BY <1>4, <1>6 DEF EventSent
<1>7. CASE Uninit
  BY <1>7, StopLocks DEF Uninit, cws_stop
<1>8. CASE Library
  <2>1. CASE server_thread
    BY <2>1, ServerLocks
  <2>2. CASE Stop \/ Stopping
    BY <2>2, StopLocks DEF cws_stop, Stopping
  <2>3. CASE \E t \in Conns : Connection(t)
    BY <2>3, ConnectionLocks
  <2>4. CASE \E t \in Senders : cws_send(t)
    BY <2>4, SendLocks
  <2> QED
    BY <1>8, <2>1, <2>2, <2>3, <2>4 DEF Library
<1> QED
  BY <1>3, <1>4, <1>5, <1>6, <1>7, <1>8 DEF WebNext, Library, web_vars

(* cws.c:135-145, 697-701, web.c:407-412: a slot's lock is live while the  *)
(* slot is in use, and a thread that sends holds it.                        *)
THEOREM WebLocks == WebSpec => []LockInv
<1> QED
  BY InitLocks, LockStep, WebTypesOK, WebSlots, WebOwners, PTL DEF WebSpec

(* cws.c:135-145: frames do not mix on the wire, unless a thread released  *)
(* a lock that another one holds, as cws.c:710 may.                         *)
THEOREM WebSendsExclusive == WebSpec => []SendsExclusive
<1>1. LockInv => SendsExclusive
  <2> SUFFICES ASSUME LockInv, Running, NEW t \in Threads, NEW u \in Threads,
                      t # u, pc[t] = "send", pc[u] = "send", client[t] = client[u]
               PROVE  client[t] \in broken
    BY DEF SendsExclusive
  <2>1. t \in Conns \cup Senders /\ u \in Conns \cup Senders
    BY DEF LockInv, Running, Threads
  <2> QED
    BY <2>1 DEF LockInv, Holds
<1> QED
  BY <1>1, WebLocks, PTL

-----------------------------------------------------------------------------
(* The table and what the clients announced.                               *)

Entry(x) == [port |-> x.port, text |-> x.text]

(* The players of a client are what it announced, and the other way round. *)
Lists(t) ==
  \A p \in PlayerIds :
    players[p] # Nothing /\ players[p].conn = t => Entry(players[p]) \in announced[t]
Shows(t) ==
  \A a \in announced[t] : \E p \in PlayerIds :
    players[p] # Nothing /\ players[p].conn = t /\ Entry(players[p]) = a

Agrees == Running /\ ~CycleLeftOpen => \A t \in Conns : Lists(t) /\ Shows(t)

TableInv == Agrees /\ CoverIsOwn

LEMMA InitTable == WebInit => TableInv
BY DEF WebInit, TableInv, Agrees, Lists, Shows, CoverIsOwn

(* Until the stop, the slot tells the connection.                          *)
LEMMA SameSlot ==
  ASSUME WebTypeOK, SlotInv, OwnerInv, Running, NEW t \in Conns, Opened(t)
  PROVE  /\ \A p \in PlayerIds : players[p] # Nothing =>
              (players[p].client = client[t] <=> players[p].conn = t)
         /\ \A b \in Buffers : cover_buffers[b] # Nothing =>
              (cover_buffers[b].client = client[t] <=> cover_buffers[b].conn = t)
BY DEF SlotInv, OwnConnection, Serving, OwnerInv, AllOwned, Owned, Opened,
       WebTypeOK, Player, Buffer

LEMMA TableFrame ==
  ASSUME TableInv, Running' => Running, players' = players, announced' = announced,
         players_lock' = players_lock \/ ~CycleLeftOpen
  PROVE  TableInv'
BY DEF TableInv, Agrees, Lists, Shows, CoverIsOwn, CycleLeftOpen

LEMMA RunningBefore == ASSUME WebTypeOK, [WebNext]_web_vars PROVE Running' => Running
<1>0. TypeOK
  BY DEF WebTypeOK
<1>1. ASSUME NEW u \in Conns \cup Senders, cws_send(u) PROVE Running' => Running
  BY <1>0, <1>1, ThreadFacts
  DEF cws_send, SendCheck, SendLock, Send, Back, Goto, Running, TypeOK
<1>2. ASSUME NEW u \in Conns, Handshake(u) \/ Receive(u) \/ Closing(u)
      PROVE  Running' => Running
  BY <1>0, <1>2, ReceiveLocks DEF Running
<1>3. ASSUME NEW u \in Conns, Closed(u) \/ Close(u) \/ Leave(u) PROVE Running' => Running
  BY <1>0, <1>3, ThreadFacts DEF Closed, Close, Leave, Goto, Running, TypeOK
<1>4. ASSUME NEW u \in Conns, on_message(u) \/ on_close(u) PROVE Running' => Running
  BY <1>0, <1>4, ThreadFacts DEF on_message, on_close, Goto, Running, TypeOK
<1>5. ASSUME server_thread PROVE Running' => Running
  BY <1>0, <1>5, ThreadFacts
  DEF server_thread, ServerStep, ServerInit, ServerLoop, AcceptFails, NoPlace, CreateThread,
      Place, Accept, Goto, Running, TypeOK
<1>6. ASSUME cws_stop PROVE Running' => Running
  BY <1>0, <1>6, ThreadFacts
  DEF cws_stop, Stop, StopClient, StopClose, SetExitFlag, TermMutex, CloseServer,
      AfterSlot, Goto, Running, TypeOK
<1>7. ASSUME NEW t \in Senders, NEW c \in Clients, SendTo(t, c) PROVE Running' => Running
  BY <1>0, <1>7, ThreadFacts DEF SendTo, Call, Running, TypeOK
<1>8. CASE UNCHANGED vars
  BY <1>8 DEF vars, Running
<1> QED
  BY <1>1, <1>2, <1>3, <1>4, <1>5, <1>6, <1>7, <1>8, WebSteps
  DEF Next, ServerNext, ClientThread, Handshake, Receive, Finish

(* A new player has an entry, a port and a cover of its own.               *)
LEMMA AddedTable ==
  ASSUME WebTypeOK, SlotInv, OwnerInv, TableInv, Running,
         NEW t \in Conns, NEW port \in Ports, NEW text \in Texts, Added(t, port, text)
  PROVE  Agrees' /\ CoverIsOwn'
<1>0. Opened(t) /\ Unlocked /\ ~CycleLeftOpen
  BY ThreadFacts DEF Added, Starts, Opened, Unlocked, CycleLeftOpen
<1> DEFINE c == cover_buffers[CHOOSE b \in Buffers : First(Waiting(t, port), b)]
<1>1. PICK p \in PlayerIds, path \in CoverPath :
        /\ First({q \in PlayerIds : players[q] = Nothing}, p)
        /\ LET cover == IF Waiting(t, port) # {} /\ path
                        THEN [conn |-> c.conn, port |-> c.port] ELSE Nothing
           IN players' = [players EXCEPT ![p] =
                [conn |-> t, client |-> client[t], port |-> port, text |-> text,
                 cover |-> cover]]
  BY DEF Added
<1>2. ASSUME Waiting(t, port) # {} PROVE c.conn = t /\ c.port = port
  <2>1. PICK b \in Buffers : First(Waiting(t, port), b) /\ c = cover_buffers[b]
    BY <1>2, FirstWaiting
  <2> QED
    BY <1>0, <2>1, SameSlot DEF First, Waiting, IsFor
<1>3. PICK cover \in Covers :
        /\ cover # Nothing => cover = [conn |-> t, port |-> port]
        /\ players' = [players EXCEPT ![p] =
             [conn |-> t, client |-> client[t], port |-> port, text |-> text,
              cover |-> cover]]
  <2>1. [conn |-> t, port |-> port] \in Covers /\ Nothing \in Covers
    BY DEF Covers
  <2> QED
    BY <1>1, <1>2, <2>1
<1>4. /\ players[p] = Nothing
      /\ \A q \in PlayerIds : q # p => players'[q] = players[q]
      /\ players'[p] # Nothing /\ players'[p].conn = t /\ players'[p].port = port
      /\ players'[p].text = text /\ players'[p].cover = cover
  BY <1>1, <1>3, NewPlayer, NothingAssumption DEF First, WebTypeOK
<1>5. /\ announced'[t] = {a \in announced[t] : a.port # port}
                           \cup {[port |-> port, text |-> text]}
      /\ \A u \in Conns : u # t => announced'[u] = announced[u]
      /\ \A a \in announced[t] : a.port # port
  BY DEF Added, Announce, Known, WebTypeOK
<1>6. \A u \in Conns : Lists(u) /\ Shows(u)
  BY <1>0 DEF TableInv, Agrees
<1>7. ASSUME NEW u \in Conns PROVE Lists(u)' /\ Shows(u)'
  <2>1. Lists(u)'
    BY <1>4, <1>5, <1>6 DEF Lists, Entry
  <2>2. Shows(u)'
    BY <1>4, <1>5, <1>6 DEF Shows, Entry
  <2> QED
    BY <2>1, <2>2
<1>8. CoverIsOwn'
  BY <1>3, <1>4 DEF TableInv, CoverIsOwn
<1> QED
  BY <1>7, <1>8 DEF Agrees

LEMMA UpdatedTable ==
  ASSUME WebTypeOK, SlotInv, OwnerInv, TableInv, Running,
         NEW t \in Conns, NEW port \in Ports, NEW text \in Texts, Updated(t, port, text)
  PROVE  Agrees' /\ CoverIsOwn'
<1>0. Opened(t) /\ Unlocked /\ ~CycleLeftOpen
  BY ThreadFacts DEF Updated, Starts, Opened, Unlocked, CycleLeftOpen
<1>1. ASSUME NEW p \in PlayerIds
      PROVE  /\ players[p] = Nothing => players'[p] = Nothing
             /\ players[p] # Nothing =>
                  /\ players'[p] # Nothing /\ players'[p].conn = players[p].conn
                  /\ players'[p].port = players[p].port
                  /\ players'[p].cover = players[p].cover
                  /\ players'[p].text = IF players[p].conn = t /\ players[p].port = port
                                        THEN text ELSE players[p].text
  <2>1. CASE p \in Matching(t, port)
    <3>1. players[p] # Nothing /\ players[p].port = port /\ players[p].conn = t
      BY <1>0, <2>1, SameSlot DEF Matching, IsFor
    <3>2. players'[p] = [players[p] EXCEPT !.text = text]
      BY <2>1 DEF Updated
    <3>3. players'[p] \in Player
      BY <3>1, <3>2 DEF WebTypeOK, Player
    <3> QED
      BY <3>1, <3>2, <3>3, NothingAssumption DEF WebTypeOK, Player
  <2>2. CASE p \notin Matching(t, port)
    BY <1>0, <2>2, SameSlot DEF Updated, Matching, IsFor
  <2> QED
    BY <2>1, <2>2
<1>2. /\ announced'[t] = {a \in announced[t] : a.port # port}
                           \cup {[port |-> port, text |-> text]}
      /\ \A u \in Conns : u # t => announced'[u] = announced[u]
      /\ \E a \in announced[t] : a.port = port
  BY DEF Updated, Announce, Known, WebTypeOK
<1>3. \A u \in Conns : Lists(u) /\ Shows(u)
  BY <1>0 DEF TableInv, Agrees
<1>4. \E p \in PlayerIds : /\ players[p] # Nothing /\ players[p].conn = t
                           /\ players[p].port = port
  BY <1>2, <1>3 DEF Shows, Entry
<1>5. ASSUME NEW u \in Conns PROVE Lists(u)' /\ Shows(u)'
  <2>1. Lists(u)'
    BY <1>1, <1>2, <1>3 DEF Lists, Entry
  <2>2. Shows(u)'
    <3> SUFFICES ASSUME NEW a \in announced'[u]
                 PROVE  \E p \in PlayerIds : /\ players'[p] # Nothing /\ players'[p].conn = u
                                             /\ Entry(players'[p]) = a
      BY DEF Shows, Entry
    <3>1. CASE u = t /\ a = [port |-> port, text |-> text]
      BY <1>1, <1>4, <3>1 DEF Entry
    <3>2. CASE a \in announced[u] /\ ~(u = t /\ a.port = port)
      BY <1>1, <1>3, <3>2 DEF Shows, Entry
    <3> QED
      BY <1>2, <3>1, <3>2
  <2> QED
    BY <2>1, <2>2
<1>6. CoverIsOwn'
  BY <1>1 DEF TableInv, CoverIsOwn
<1> QED
  BY <1>5, <1>6 DEF Agrees

(* The player of a port, or every player, of a client goes.                *)
LEMMA GoneTable ==
  ASSUME WebTypeOK, TableInv, Running, ~CycleLeftOpen, NEW t \in Conns,
         NEW ports \in SUBSET Ports,
         \A p \in PlayerIds :
           IF players[p] # Nothing /\ players[p].conn = t /\ players[p].port \in ports
           THEN players'[p] = Nothing ELSE players'[p] = players[p],
         announced'[t] = {a \in announced[t] : a.port \notin ports},
         \A u \in Conns : u # t => announced'[u] = announced[u]
  PROVE  Agrees' /\ CoverIsOwn'
<1>1. \A u \in Conns : Lists(u) /\ Shows(u)
  BY DEF TableInv, Agrees
<1>2. ASSUME NEW u \in Conns PROVE Lists(u)' /\ Shows(u)'
  <2>1. Lists(u)'
    BY <1>1 DEF Lists, Entry
  <2>2. Shows(u)'
    BY <1>1 DEF Shows, Entry
  <2> QED
    BY <2>1, <2>2
<1>3. CoverIsOwn'
  BY DEF TableInv, CoverIsOwn
<1> QED
  BY <1>2, <1>3 DEF Agrees

LEMMA RemovedTable ==
  ASSUME WebTypeOK, SlotInv, OwnerInv, TableInv, Running,
         NEW t \in Conns, NEW port \in Ports, Removed(t, port)
  PROVE  Agrees' /\ CoverIsOwn'
<1>0. Opened(t) /\ Unlocked /\ ~CycleLeftOpen
  BY ThreadFacts DEF Removed, Starts, Opened, Unlocked, CycleLeftOpen
<1>1. ASSUME NEW p \in PlayerIds
      PROVE  IF players[p] # Nothing /\ players[p].conn = t /\ players[p].port \in {port}
             THEN players'[p] = Nothing ELSE players'[p] = players[p]
  BY <1>0, SameSlot DEF Removed, Matching, IsFor
<1>2. /\ announced'[t] = {a \in announced[t] : a.port \notin {port}}
      /\ \A u \in Conns : u # t => announced'[u] = announced[u]
  BY DEF Removed, Announce, WebTypeOK
<1> QED
  BY <1>0, <1>1, <1>2, GoneTable

LEMMA RemovePlayersTable ==
  ASSUME WebTypeOK, SlotInv, OwnerInv, TableInv, Running,
         NEW t \in Conns, RemovePlayers(t)
  PROVE  Agrees' /\ CoverIsOwn'
<1>0. Opened(t) /\ ~CycleLeftOpen
  BY ThreadFacts DEF RemovePlayers, Opened, Unlocked, CycleLeftOpen
<1>1. ASSUME NEW p \in PlayerIds
      PROVE  IF players[p] # Nothing /\ players[p].conn = t /\ players[p].port \in Ports
             THEN players'[p] = Nothing ELSE players'[p] = players[p]
  BY <1>0, SameSlot DEF RemovePlayers, WebTypeOK, Player
<1>2. /\ announced'[t] = {a \in announced[t] : a.port \notin Ports}
      /\ \A u \in Conns : u # t => announced'[u] = announced[u]
  BY DEF RemovePlayers, WebTypeOK
<1> QED
  BY <1>0, <1>1, <1>2, GoneTable

LEMMA CoverTable ==
  ASSUME WebTypeOK, SlotInv, OwnerInv, TableInv, Running, Running' => Running,
         NEW t \in Conns, NEW port \in Ports, Cover(t, port)
  PROVE  TableInv'
<1>0. Opened(t) /\ Unlocked /\ ~CycleLeftOpen
  BY ThreadFacts DEF Cover, Starts, Opened, Unlocked, CycleLeftOpen
<1>1. PICK p \in Matching(t, port) :
        \/ players' = [players EXCEPT ![p].cover = [conn |-> t, port |-> port]]
        \/ UNCHANGED players
  BY DEF Cover
<1>2. announced' = announced
  BY DEF Cover
<1>3. CASE UNCHANGED players
  BY <1>0, <1>2, <1>3, TableFrame
<1>4. CASE players' = [players EXCEPT ![p].cover = [conn |-> t, port |-> port]]
  <2>1. /\ p \in PlayerIds /\ players[p] # Nothing /\ players[p].conn = t
        /\ players[p].port = port /\ players[p] \in Player
    BY <1>0, SameSlot DEF Matching, IsFor, WebTypeOK
  <2>2. /\ \A q \in PlayerIds : q # p => players'[q] = players[q]
        /\ players'[p] = [players[p] EXCEPT !.cover = [conn |-> t, port |-> port]]
    BY <1>4, <2>1 DEF WebTypeOK
  <2>3. players'[p] \in Player
    BY <2>1, <2>2 DEF Player, Covers
  <2>4. /\ players'[p] # Nothing /\ players'[p].conn = t /\ players'[p].port = port
        /\ players'[p].text = players[p].text
        /\ players'[p].cover = [conn |-> t, port |-> port]
    BY <2>1, <2>2, <2>3, NothingAssumption DEF Player
  <2>5. \A u \in Conns : Lists(u) /\ Shows(u)
    BY <1>0 DEF TableInv, Agrees
  <2>e. \A q \in PlayerIds :
          /\ players'[q] # Nothing <=> players[q] # Nothing
          /\ players[q] # Nothing => /\ players'[q].conn = players[q].conn
                                     /\ players'[q].port = players[q].port
                                     /\ players'[q].text = players[q].text
    BY <2>1, <2>2, <2>4
  <2>6. ASSUME NEW u \in Conns PROVE Lists(u)' /\ Shows(u)'
    <3>1. Lists(u)'
      BY <1>2, <2>5, <2>e DEF Lists, Entry
    <3>2. Shows(u)'
      BY <1>2, <2>5, <2>e DEF Shows, Entry
    <3> QED
      BY <3>1, <3>2
  <2>7. CoverIsOwn'
    BY <2>2, <2>4 DEF TableInv, CoverIsOwn
  <2> QED
    BY <2>6, <2>7 DEF TableInv, Agrees
<1> QED
  BY <1>1, <1>3, <1>4

LEMMA TableStep ==
  WebTypeOK /\ SlotInv /\ OwnerInv /\ TableInv /\ [WebNext]_web_vars => TableInv'
<1> SUFFICES ASSUME WebTypeOK, SlotInv, OwnerInv, TableInv, [WebNext]_web_vars
             PROVE  TableInv'
  OBVIOUS
<1>0. Running' => Running
  BY RunningBefore
<1>1. ASSUME ~Running' PROVE TableInv'
  BY <1>1 DEF TableInv, Agrees, CoverIsOwn
<1> SUFFICES ASSUME Running PROVE TableInv'
  BY <1>0, <1>1
<1>2. ASSUME NEW t \in Conns, Handler(t) PROVE TableInv'
  <2>1. ASSUME NEW port \in Ports, NEW text \in Texts, Added(t, port, text) PROVE TableInv'
    BY <2>1, AddedTable DEF TableInv
  <2>2. ASSUME NEW port \in Ports, NEW text \in Texts, AddedInVain(t, port, text)
        PROVE  TableInv'
    BY <1>0, <2>2 DEF AddedInVain, TableInv, Agrees, CycleLeftOpen, CoverIsOwn
  <2>3. ASSUME NEW port \in Ports, NEW text \in Texts, Updated(t, port, text)
        PROVE  TableInv'
    BY <2>3, UpdatedTable DEF TableInv
  <2>4. ASSUME NEW port \in Ports, Removed(t, port) PROVE TableInv'
    BY <2>4, RemovedTable DEF TableInv
  <2>5. ASSUME NEW port \in Ports, Cover(t, port) PROVE TableInv'
    BY <1>0, <2>5, CoverTable
  <2>6. ASSUME NEW port \in Ports, CoverTooEarly(t, port) PROVE TableInv'
    BY <1>0, <2>6, TableFrame DEF CoverTooEarly
  <2>7. CASE KeepCover(t) \/ Ignored(t) \/ DropCovers(t)
    BY <1>0, <2>7, TableFrame DEF KeepCover, Ignored, DropCovers
  <2>8. CASE RemovePlayers(t)
    BY <2>8, RemovePlayersTable DEF TableInv
  <2> QED
    BY <1>2, <2>1, <2>2, <2>3, <2>4, <2>5, <2>6, <2>7, <2>8 DEF Handler, Message
<1>3. ASSUME NEW t \in Senders, Event(t) PROVE TableInv'
  BY <1>0, <1>3, ThreadFacts, TableFrame DEF Event, Unlocked, CycleLeftOpen
<1>4. ASSUME NEW t \in Senders, EventSent(t) PROVE TableInv'
  BY <1>0, <1>4, ThreadFacts, TableFrame DEF EventSent, CycleLeftOpen
<1>5. CASE Uninit
  BY <1>0, <1>5, TableFrame DEF Uninit
<1>6. CASE UNCHANGED web
  BY <1>0, <1>6, TableFrame DEF web
<1> QED
  BY <1>2, <1>3, <1>4, <1>5, <1>6 DEF WebNext, web_vars

(* web.c:206-332: the table shows what the clients announced, and no cover  *)
(* is another player's.                                                    *)
THEOREM WebTable == WebSpec => []TableInv
<1> QED
  BY InitTable, TableStep, WebTypesOK, WebSlots, WebOwners, PTL DEF WebSpec

(* web.c:251-332: between two messages the table holds exactly what the    *)
(* client announced, until a cycle is left open.                            *)
THEOREM WebTableFollowsClients == WebSpec => []TableFollowsClients
<1>1. TableInv => TableFollowsClients
  BY DEF TableInv, Agrees, Lists, Shows, Entry, TableFollowsClients
<1> QED
  BY <1>1, WebTable, PTL

(* web.c:206-232, 276-291: a player shows only an image that its own       *)
(* client sent for it.                                                      *)
THEOREM WebCoverIsOwn == WebSpec => []CoverIsOwn
<1>1. TableInv => CoverIsOwn
  BY DEF TableInv
<1> QED
  BY <1>1, WebTable, PTL
=============================================================================
