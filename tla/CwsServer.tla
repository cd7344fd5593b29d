------------------------------ MODULE CwsServer ------------------------------
(***************************************************************************)
(* The WebSocket server (cws.c): one server thread that accepts            *)
(* connections and gives each a slot of g_clients and a thread of its own, *)
(* the client threads, cws_send, which any thread may call, and cws_stop.  *)
(*                                                                         *)
(* A connection stands for its thread and for its descriptor.  What the    *)
(* server's user does in on_open, on_message and on_close is left open     *)
(* here and filled in by WebAdapter; on_open only sends.                   *)
(***************************************************************************)
EXTENDS Integers

CONSTANTS
  MAX_CLIENTS,
  Conns,           \* the connections that are made
  Senders,         \* application threads that call cws_send
  ServerThread,    \* the thread of server_thread
  Stopper,         \* the thread that calls cws_stop
  NoConn           \* descriptor -1; nobody holds a mutex

Clients == 0 .. MAX_CLIENTS - 1
Threads == Conns \cup Senders \cup {ServerThread, Stopper}

ASSUME MaxClientsAssumption == MAX_CLIENTS \in Nat \ {0}
ASSUME DistinctAssumption ==
  /\ Conns \cap Senders = {}
  /\ ServerThread # Stopper
  /\ {ServerThread, Stopper} \cap (Conns \cup Senders) = {}
  /\ NoConn \notin Threads

VARIABLES
  fd,              \* g_clients[c].fd
  state,           \* g_clients[c].state
  lock,            \* g_clients[c].lock
  clients_mutex,   \* g_clients_mutex is initialised; each section under it is one step
  exit_flag,       \* g_exit_flag
  listening,       \* g_server_data.fd is open
  pc,              \* where each thread is
  client,          \* the slot a thread works on
  back,            \* where a thread goes on after cws_send
  accepted,        \* client_fd of the server thread
  broken           \* slots of whose lock a thread released another one's hold

slots  == <<fd, state, lock>>
server == <<clients_mutex, exit_flag, listening, accepted>>
vars   == <<slots, server, pc, client, back, broken>>

PCs == {"new", "done",
        "handshake", "check", "lock", "send", "open", "read", "message", "closing",
        "on_close", "closed", "close", "unlock",
        "init", "exit_flag", "accept", "place", "create", "refuse",
        "stop", "stop_close", "set_flag", "term", "close_fd"}

States == {"UNUSED", "CONNECTING", "OPEN", "CLOSING", "CLOSED"}

-----------------------------------------------------------------------------
(* thread.h's mutexes, as pthreads.  To lock one that is not initialised   *)
(* has no effect: pthread_mutex_lock returns an error, which nobody looks   *)
(* at.  One that is held may refuse to be terminated.                       *)

Mutex    == [live : BOOLEAN, holder : Threads \cup {NoConn}]
Fresh    == [live |-> TRUE, holder |-> NoConn]
Dead     == [live |-> FALSE, holder |-> NoConn]
Free(m)  == m.holder = NoConn
Held(m, t) == IF m.live THEN [live |-> TRUE, holder |-> t] ELSE m
Released(m) == [live |-> m.live, holder |-> NoConn]
Terminated(m) == {Dead} \cup (IF Free(m) THEN {} ELSE {m})

Goto(t, p) == pc' = [pc EXCEPT ![t] = p]

(* thread_mutex_unlock(&client->lock): frees it whoever holds it.          *)
Unlock(t, c) ==
  /\ lock' = [lock EXCEPT ![c] = Released(@)]
  /\ broken' = IF lock[c].holder \in {t, NoConn} THEN broken ELSE broken \cup {c}

Init ==
  /\ fd = [c \in Clients |-> NoConn]
  /\ state = [c \in Clients |-> "UNUSED"]
  /\ lock = [c \in Clients |-> Dead]
  /\ clients_mutex = FALSE
  /\ exit_flag = 0
  /\ listening = TRUE
  /\ pc = [t \in Threads |-> IF t = ServerThread THEN "init" ELSE "new"]
  /\ client = [t \in Threads |-> 0]
  /\ back = [t \in Threads |-> "done"]
  /\ accepted = NoConn
  /\ broken = {}

-----------------------------------------------------------------------------
(* cws_send: the descriptor is tested before the lock is taken.            *)

(* The thread calls cws_send for slot c and goes on at p afterwards.       *)
Call(t, c, p) ==
  /\ pc' = [pc EXCEPT ![t] = "check"]
  /\ client' = [client EXCEPT ![t] = c]
  /\ back' = [back EXCEPT ![t] = p]

(* Only the handshake looks whether sending failed.                        *)
Failed(t) == IF back[t] = "open" THEN "closed" ELSE back[t]

Back(t, p) ==
  /\ Goto(t, p)
  /\ back' = [back EXCEPT ![t] = "done"]

SendCheck(t) ==
  /\ pc[t] = "check"
  /\ IF fd[client[t]] = NoConn
     THEN Back(t, Failed(t))
     ELSE Goto(t, "lock") /\ UNCHANGED back
  /\ UNCHANGED <<slots, server, client, broken>>

(* Mutant of SendLock: the lock is forgotten.                               *)
SendUnlocked(t) ==
  /\ pc[t] = "lock"
  /\ Goto(t, "send")
  /\ UNCHANGED <<slots, server, client, back, broken>>

SendLock(t) ==
  /\ pc[t] = "lock"
  /\ Free(lock[client[t]])
  /\ lock' = [lock EXCEPT ![client[t]] = Held(@, t)]
  /\ Goto(t, "send")
  /\ UNCHANGED <<fd, state, server, client, back, broken>>

(* send(client->fd, ...) until all is sent or one fails; a closed          *)
(* descriptor fails, a peer that has gone may make any send fail.           *)
Send(t) ==
  /\ pc[t] = "send"
  /\ \E ok \in BOOLEAN :
       /\ ok => fd[client[t]] # NoConn
       /\ Back(t, IF ok THEN back[t] ELSE Failed(t))
  /\ Unlock(t, client[t])
  /\ UNCHANGED <<fd, state, server, client>>

cws_send(t) == SendCheck(t) \/ SendLock(t) \/ Send(t)

-----------------------------------------------------------------------------
(* client_thread.                                                          *)

(* recv is given whatever descriptor the slot has now.                     *)
Reads(t, p) == pc[t] = p /\ fd[client[t]] # NoConn

handle_handshake(t) ==
  /\ Reads(t, "handshake")
  /\ Call(t, client[t], "open")
  /\ UNCHANGED <<slots, server, broken>>

HandshakeFails(t) ==
  /\ pc[t] = "handshake"
  /\ Goto(t, "closed")
  /\ UNCHANGED <<slots, server, client, back, broken>>

(* state = STATE_OPEN under the lock, then on_open, which sends the        *)
(* version line.                                                            *)
on_open(t) ==
  /\ pc[t] = "open"
  /\ Free(lock[client[t]])
  /\ state' = [state EXCEPT ![client[t]] = "OPEN"]
  /\ Call(t, client[t], "read")
  /\ UNCHANGED <<fd, lock, server, broken>>

(* recv_next_frame, which takes the lock to look at the state.  The frame  *)
(* is a message, a ping, which is answered, a pong, a close frame, or text  *)
(* that is refused with a close frame.                                      *)
recv_next_frame(t) ==
  /\ Reads(t, "read")
  /\ Free(lock[client[t]])
  /\ \/ /\ state[client[t]] # "CLOSING"
        /\ \/ Goto(t, "message") /\ UNCHANGED <<client, back>>
           \/ Call(t, client[t], "read")
           \/ UNCHANGED <<pc, client, back>>
           \/ Call(t, client[t], "on_close")
     \/ Goto(t, "closing") /\ UNCHANGED <<client, back>>
  /\ UNCHANGED <<slots, server, broken>>

(* recv fails, the peer is gone, or the frame is refused.                  *)
RecvFails(t) ==
  /\ pc[t] = "read"
  /\ Goto(t, "on_close")
  /\ UNCHANGED <<slots, server, client, back, broken>>

(* A close frame is answered, once.                                        *)
Closing(t) ==
  /\ pc[t] = "closing"
  /\ Free(lock[client[t]])
  /\ IF state[client[t]] # "CLOSING"
     THEN /\ state' = [state EXCEPT ![client[t]] = "CLOSING"]
          /\ Call(t, client[t], "on_close")
     ELSE /\ Goto(t, "on_close")
          /\ UNCHANGED <<state, client, back>>
  /\ UNCHANGED <<fd, lock, server, broken>>

(* The handlers of the server's user; WebAdapter says what they do.        *)
on_message(t) ==
  /\ pc[t] = "message"
  /\ Goto(t, "read")
  /\ UNCHANGED <<slots, server, client, back, broken>>

on_close(t) ==
  /\ pc[t] = "on_close"
  /\ Goto(t, "closed")
  /\ UNCHANGED <<slots, server, client, back, broken>>

(* Mutant of Closed: a client that said goodbye counts as closed.           *)
ClosedIfOpen(t) ==
  /\ pc[t] = "closed"
  /\ Free(lock[client[t]])
  /\ lock' = [lock EXCEPT ![client[t]] = Held(@, t)]
  /\ Goto(t, IF state[client[t]] \in {"CONNECTING", "OPEN"} THEN "close" ELSE "unlock")
  /\ UNCHANGED <<fd, state, server, client, back, broken>>

(* "if (client->state != STATE_CLOSED) close_client(client)"; the lock is  *)
(* held from here to the end.                                              *)
Closed(t) ==
  /\ pc[t] = "closed"
  /\ Free(lock[client[t]])
  /\ lock' = [lock EXCEPT ![client[t]] = Held(@, t)]
  /\ Goto(t, IF state[client[t]] # "CLOSED" THEN "close" ELSE "unlock")
  /\ UNCHANGED <<fd, state, server, client, back, broken>>

(* close_client returns when the slot is closed already, and otherwise     *)
(* waits for g_clients_mutex: the slot may be closed by then, and is again. *)
close_client(c) ==
  \/ /\ fd[c] = NoConn
     /\ UNCHANGED slots
  \/ /\ state' = [state EXCEPT ![c] = "CLOSED"]
     /\ fd' = [fd EXCEPT ![c] = NoConn]
     /\ \E m \in Terminated(lock[c]) : lock' = [lock EXCEPT ![c] = m]

Close(t) ==
  /\ pc[t] = "close"
  /\ close_client(client[t])
  /\ Goto(t, "unlock")
  /\ UNCHANGED <<server, client, back, broken>>

Leave(t) ==
  /\ pc[t] = "unlock"
  /\ Unlock(t, client[t])
  /\ Goto(t, "done")
  /\ UNCHANGED <<fd, state, server, client, back>>

-----------------------------------------------------------------------------
(* server_thread.                                                          *)

ServerInit ==
  /\ pc[ServerThread] = "init"
  /\ clients_mutex' = TRUE
  /\ Goto(ServerThread, "exit_flag")
  /\ UNCHANGED <<slots, exit_flag, listening, accepted, client, back, broken>>

ServerLoop ==
  /\ pc[ServerThread] = "exit_flag"
  /\ Goto(ServerThread, IF exit_flag = 0 THEN "accept" ELSE "done")
  /\ UNCHANGED <<slots, server, client, back, broken>>

Accept(k) ==
  /\ pc[ServerThread] = "accept"
  /\ listening
  /\ pc[k] = "new"
  /\ accepted' = k
  /\ Goto(ServerThread, "place")
  /\ UNCHANGED <<slots, clients_mutex, exit_flag, listening, client, back, broken>>

(* accept fails when the socket is closed; a failure that passes only goes *)
(* round the loop and is left out.                                          *)
AcceptFails ==
  /\ pc[ServerThread] = "accept"
  /\ ~listening
  /\ Goto(ServerThread, "exit_flag")
  /\ UNCHANGED <<slots, server, client, back, broken>>

(* Mutant of FirstFree: a slot whose client is closing is taken.            *)
FirstUnused(c) ==
  /\ fd[c] = NoConn \/ state[c] = "CLOSING"
  /\ \A d \in Clients : d < c => fd[d] # NoConn

(* Without the mutex a close_client may still be about to terminate the    *)
(* slot's lock.                                                             *)
FirstFree(c) == fd[c] = NoConn /\ \A d \in Clients : d < c => fd[d] # NoConn

Place(c) ==
  /\ pc[ServerThread] = "place"
  /\ FirstFree(c)
  /\ fd' = [fd EXCEPT ![c] = accepted]
  /\ state' = [state EXCEPT ![c] = "CONNECTING"]
  /\ \E m \in (IF clients_mutex THEN {Fresh} ELSE {Fresh, Dead}) :
       lock' = [lock EXCEPT ![c] = m]
  /\ client' = [client EXCEPT ![accepted] = c]
  /\ Goto(ServerThread, "create")
  /\ UNCHANGED <<server, back, broken>>

NoPlace ==
  /\ pc[ServerThread] = "place"
  /\ \A c \in Clients : fd[c] # NoConn
  /\ Goto(ServerThread, "refuse")
  /\ UNCHANGED <<slots, server, client, back, broken>>

(* thread_create, or close_fd when there was no slot.                      *)
CreateThread ==
  /\ pc[ServerThread] \in {"create", "refuse"}
  /\ pc' = [pc EXCEPT ![ServerThread] = "exit_flag",
                      ![accepted] = IF pc[ServerThread] = "create"
                                    THEN "handshake" ELSE "done"]
  /\ accepted' = NoConn
  /\ UNCHANGED <<slots, clients_mutex, exit_flag, listening, client, back, broken>>

-----------------------------------------------------------------------------
(* cws_stop.                                                               *)

Stop ==
  /\ pc[Stopper] = "new"
  /\ Goto(Stopper, "stop")
  /\ UNCHANGED <<slots, server, client, back, broken>>

(* Mutant of NextSlot: the loop runs past the last slot.                    *)
NextSlotToo(c) == c + 1

(* The loop's next slot, or the end of the loop.                           *)
AfterSlot(c) == IF c + 1 \in Clients THEN "stop" ELSE "set_flag"
NextSlot(c) == IF c + 1 \in Clients THEN c + 1 ELSE c

StopClient ==
  /\ pc[Stopper] = "stop"
  /\ LET c == client[Stopper] IN
       IF fd[c] # NoConn
       THEN Goto(Stopper, "stop_close") /\ UNCHANGED client
       ELSE Goto(Stopper, AfterSlot(c)) /\ client' = [client EXCEPT ![Stopper] = NextSlot(c)]
  /\ UNCHANGED <<slots, server, back, broken>>

(* close_client without the client's lock.                                 *)
StopClose ==
  /\ pc[Stopper] = "stop_close"
  /\ LET c == client[Stopper] IN
       /\ close_client(c)
       /\ Goto(Stopper, AfterSlot(c))
       /\ client' = [client EXCEPT ![Stopper] = NextSlot(c)]
  /\ UNCHANGED <<server, back, broken>>

SetExitFlag ==
  /\ pc[Stopper] = "set_flag"
  /\ exit_flag' = 1
  /\ Goto(Stopper, "term")
  /\ UNCHANGED <<slots, clients_mutex, listening, accepted, client, back, broken>>

TermMutex ==
  /\ pc[Stopper] = "term"
  /\ clients_mutex' = FALSE
  /\ Goto(Stopper, "close_fd")
  /\ UNCHANGED <<slots, exit_flag, listening, accepted, client, back, broken>>

(* Mutant of CloseServer: the descriptor stays open.                        *)
LeaveServer ==
  /\ pc[Stopper] = "close_fd"
  /\ Goto(Stopper, "done")
  /\ UNCHANGED <<slots, server, client, back, broken>>

CloseServer ==
  /\ pc[Stopper] = "close_fd"
  /\ listening' = FALSE
  /\ Goto(Stopper, "done")
  /\ UNCHANGED <<slots, clients_mutex, exit_flag, accepted, client, back, broken>>

-----------------------------------------------------------------------------
(* An application thread sends to a slot.                                  *)
SendTo(t, c) ==
  /\ pc[t] = "new"
  /\ Call(t, c, "new")
  /\ UNCHANGED <<slots, server, broken>>

Handshake(t) == handle_handshake(t) \/ HandshakeFails(t) \/ on_open(t)
Receive(t)   == recv_next_frame(t) \/ RecvFails(t)
Finish(t)    == Closing(t) \/ Closed(t) \/ Close(t) \/ Leave(t)

(* What a client thread does outside its handlers.                         *)
ClientThread(t) == Handshake(t) \/ Receive(t) \/ Finish(t)

(* What the server thread does without waiting for a connection.           *)
ServerStep ==
  \/ ServerInit \/ ServerLoop \/ AcceptFails \/ NoPlace \/ CreateThread
  \/ \E c \in Clients : Place(c)

server_thread == ServerStep \/ \E k \in Conns : Accept(k)

cws_stop == Stop \/ StopClient \/ StopClose \/ SetExitFlag \/ TermMutex \/ CloseServer

(* Everything but the handlers and the application's calls.                *)
ServerNext ==
  \/ server_thread
  \/ cws_stop
  \/ \E t \in Conns : ClientThread(t)
  \/ \E t \in Conns \cup Senders : cws_send(t)

Next ==
  \/ ServerNext
  \/ \E t \in Conns : on_message(t) \/ on_close(t)
  \/ \E t \in Senders, c \in Clients : SendTo(t, c)

Spec == Init /\ [][Next]_vars

-----------------------------------------------------------------------------
TypeOK ==
  /\ fd \in [Clients -> Conns \cup {NoConn}]
  /\ state \in [Clients -> States]
  /\ lock \in [Clients -> Mutex]
  /\ clients_mutex \in BOOLEAN
  /\ exit_flag \in {0, 1}
  /\ listening \in BOOLEAN
  /\ pc \in [Threads -> PCs]
  /\ client \in [Threads -> Clients]
  /\ back \in [Threads -> PCs]
  /\ accepted \in Conns \cup {NoConn}
  /\ broken \in SUBSET Clients

(* The threads between their creation and the release of their slot.       *)
Serving(t) == pc[t] \notin {"new", "unlock", "done"}
Running == pc[Stopper] = "new"

(* cws.c:732-749, 703-710: every open descriptor has a thread that will    *)
(* close it, also while and after the server is stopped.                   *)
NoDescriptorLeaks ==
  \A c \in Clients : fd[c] # NoConn =>
    IF pc[fd[c]] = "new"
    THEN pc[ServerThread] = "create" /\ accepted = fd[c]
    ELSE Serving(fd[c])

(* cws.c:670-713: until cws_stop a client thread works on its own          *)
(* connection: the slot it was given holds the descriptor it was made for. *)
OwnConnection ==
  Running => \A t \in Conns : Serving(t) => fd[client[t]] = t

(* cws.c:135-145: frames do not mix on the wire - no two threads are       *)
(* inside sendn_client for a slot - as long as nobody has released a lock  *)
(* that another thread holds, as cws.c:710 may.                            *)
SendsExclusive ==
  Running => \A t, u \in Threads :
    /\ t # u /\ pc[t] = "send" /\ pc[u] = "send" /\ client[t] = client[u]
    => client[t] \in broken
=============================================================================
