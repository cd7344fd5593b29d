------------------------------ MODULE Lifecycle ------------------------------
(***************************************************************************)
(* wnp_init and wnp_uninit (wnp.c), the init and uninit of each platform,  *)
(* and the threads these start: the server's and its clients' threads,     *)
(* which are detached, and the one thread of the desktop adapter, which    *)
(* uninit joins.  One application thread calls; what the threads do is     *)
(* reduced to entering and leaving sections under players_lock.            *)
(*                                                                         *)
(* Locking a mutex that is terminated has no effect, terminating one that  *)
(* is held frees it, and initialising it again makes it free.              *)
(***************************************************************************)
EXTENDS Integers, FiniteSets

CONSTANTS
  Servers,        \* server threads that may exist at a time
  Clients,        \* client threads that may exist at a time
  MaxInits        \* calls of wnp_init that start something; not in the code

(* What is assumed of the constants; MCThreads assumes it of its own.    *)
LifecycleAssumption ==
  /\ MaxInits \in Nat \ {0}
  /\ Servers \cap Clients = {} /\ {"native", "nobody"} \cap (Servers \cup Clients) = {}

VARIABLES
  native,         \* the desktop the library is built for
  is_initialized,
  locks,          \* players_lock and event_results_lock
  cover_lock,     \* cover_buffers_lock
  owner,          \* who holds players_lock
  inside,         \* the threads in a section under players_lock
  web_port,       \* _web_state.args.web_port # 0
  listening,      \* the server's descriptor
  exit_flag,
  server, client, loop,   \* the threads
  told,           \* the desktop adapter's thread has been told to end
  calling, pc,    \* the application's call
  retval,         \* what the last wnp_init returned
  inits,          \* how many started something (not in the code)
  born,           \* by which of them a thread was started (not in the code)
  stray           \* since then an older thread has unlocked (not in the code)

mutexes == <<locks, cover_lock, owner, inside>>
threads == <<server, client, loop, told, born>>
app     == <<calling, pc, retval, inits>>
web     == <<web_port, listening, exit_flag>>
vars    == <<native, is_initialized, mutexes, web, threads, app, stray>>

Threads == Servers \cup Clients \cup {"native"}
Failure == {"WEB_PORT_IN_USE", "LINUX_DBUS_ERROR", "DARWIN_FAILED"}

Init ==
  /\ native \in {"linux", "windows", "darwin"}
  /\ is_initialized = FALSE
  /\ locks = "dead" /\ cover_lock = "dead"
  /\ owner = "nobody" /\ inside = {}
  /\ web_port = FALSE /\ listening = FALSE /\ exit_flag = FALSE
  /\ server = [s \in Servers |-> "none"]
  /\ client = [c \in Clients |-> "none"]
  /\ loop = "none" /\ told = FALSE
  /\ calling = "nothing" /\ pc = "idle" /\ retval = "SUCCESS"
  /\ inits = 0
  /\ born = [t \in Threads |-> 0]
  /\ stray = FALSE

-----------------------------------------------------------------------------
(* Mutant of AlreadyInitialized: the flag is not looked at.                 *)
NeverInitialized == FALSE

AlreadyInitialized == is_initialized

(* wnp.c:554-563.                                                          *)
wnp_init ==
  /\ pc = "idle"
  /\ IF AlreadyInitialized
       THEN retval' = "ALREADY_INITIALIZED" /\ UNCHANGED <<locks, owner, is_initialized, inits,
                                                         calling, pc, stray>>
       ELSE /\ inits < MaxInits /\ inits' = inits + 1
            /\ locks' = "live" /\ owner' = "nobody"
            /\ is_initialized' = TRUE /\ stray' = FALSE
            /\ retval' = "SUCCESS"
            /\ calling' = "init" /\ pc' = "web_init"
  /\ UNCHANGED <<native, cover_lock, inside, web, threads>>

(* __wnp_platform_web_init up to the return of cws_start.                  *)
StartServer ==
  \E s \in Servers :
    /\ server[s] = "none"
    /\ server' = [server EXCEPT ![s] = "accepting"]
    /\ born' = [born EXCEPT ![s] = inits]
    /\ exit_flag' = FALSE /\ listening' = TRUE
    /\ pc' = "web_buffers"
    /\ UNCHANGED retval

web_init ==
  /\ pc = "web_init"
  /\ web_port' \in BOOLEAN
  /\ \/ web_port' /\ StartServer
     \/ /\ web_port'
        /\ retval' = "WEB_PORT_IN_USE"
        /\ pc' = "native_init"
        /\ UNCHANGED <<server, born, exit_flag, listening>>
     \/ /\ ~web_port'
        /\ pc' = "native_init"
        /\ UNCHANGED <<retval, server, born, exit_flag, listening>>
  /\ UNCHANGED <<native, is_initialized, mutexes, client, loop, told, calling, inits, stray>>

CoverLock == cover_lock' = "live"

(* web.c:374-377.                                                          *)
web_buffers ==
  /\ pc = "web_buffers"
  /\ CoverLock
  /\ pc' = "native_init"
  /\ UNCHANGED <<native, is_initialized, locks, owner, inside, web, threads,
                 calling, retval, inits, stray>>

(* The three desktops' init.                                               *)
Fails == \/ native = "linux" /\ retval' = "LINUX_DBUS_ERROR"
         \/ native = "darwin" /\ retval' = "DARWIN_FAILED"

native_init ==
  /\ pc = "native_init"
  /\ \/ Fails /\ UNCHANGED <<loop, born>>
     \/ native = "darwin" /\ UNCHANGED <<retval, loop, born>>
     \/ /\ native # "darwin"
        /\ loop' = "created"
        /\ born' = [born EXCEPT !["native"] = inits]
        /\ UNCHANGED retval
  /\ told' = FALSE
  /\ IF retval' = "SUCCESS" THEN pc' = "idle" /\ calling' = "nothing"
                            ELSE pc' = "web_uninit" /\ UNCHANGED calling
  /\ UNCHANGED <<native, is_initialized, mutexes, web, server, client, inits, stray>>

-----------------------------------------------------------------------------
wnp_uninit ==
  /\ pc = "idle"
  /\ IF is_initialized THEN calling' = "uninit" /\ pc' = "web_uninit"
                       ELSE UNCHANGED <<calling, pc>>
  /\ UNCHANGED <<native, is_initialized, mutexes, web, threads, retval, inits, stray>>

(* cws_stop closes the clients (803-807), though not those whose slots an    *)
(* earlier cws_start has overwritten ...                                     *)
web_uninit ==
  /\ pc = "web_uninit"
  /\ IF web_port
       THEN /\ client' = [c \in Clients |-> IF client[c] = "open" /\ born[c] = inits
                                              THEN "closed" ELSE client[c]]
            /\ pc' = "cws_stop"
       ELSE pc' = "native_uninit" /\ UNCHANGED client
  /\ UNCHANGED <<native, is_initialized, mutexes, web, server, loop, told, born,
                 calling, retval, inits, stray>>

(* ... and then tells the server thread; web.c:389-393.                    *)
cws_stop ==
  /\ pc = "cws_stop"
  /\ exit_flag' = TRUE
  /\ web_port' = FALSE /\ listening' = FALSE
  /\ cover_lock' = "dead"
  /\ pc' = "native_uninit"
  /\ UNCHANGED <<native, is_initialized, locks, owner, inside, threads, calling, retval, inits, stray>>

(* Mutant of Quit: the thread is joined before it is told.                  *)
QuitLate == told' = FALSE

(* A loop that does not run yet cannot be quit and is freed all the same    *)
(* (linux.c:633-634): it then runs for ever, or ends at once.               *)
Quit == told' \in (IF native = "linux" /\ loop = "created" THEN BOOLEAN ELSE {TRUE})

(* linux.c:636: without a thread there is nothing to join, or a thread is    *)
(* joined a second time: the process crashes or the join fails.              *)
native_uninit ==
  /\ pc = "native_uninit"
  /\ \/ /\ loop \in {"created", "running"}
        /\ Quit
        /\ pc' = "join"
     \/ /\ loop \in {"none", "done"}
        /\ pc' \in (IF native = "linux" THEN {"finish", "crashed"} ELSE {"finish"})
        /\ UNCHANGED told
  /\ UNCHANGED <<native, is_initialized, mutexes, web, server, client, loop, born,
                 calling, retval, inits, stray>>

(* Mutant of Joined: the thread is not waited for.                          *)
NotJoined == TRUE

Joined == loop = "done"

join ==
  /\ pc = "join"
  /\ Joined
  /\ pc' = "finish"
  /\ UNCHANGED <<native, is_initialized, mutexes, web, threads, calling, retval,
                 inits, stray>>

(* Mutant of Uninitialized: a failed wnp_init leaves the flag as it is.     *)
UninitializedNever == TRUE

(* wnp.c:583 and 609.                                                      *)
Uninitialized == calling = "uninit"

(* wnp.c:582-583, 609-610.                                                 *)
finish ==
  /\ pc = "finish"
  /\ locks' = "dead" /\ owner' = "nobody"
  /\ is_initialized' = Uninitialized
  /\ calling' = "nothing" /\ pc' = "idle"
  /\ UNCHANGED <<native, cover_lock, inside, web, threads, retval, inits, stray>>

Call == \/ web_init \/ web_buffers \/ native_init
        \/ web_uninit \/ cws_stop \/ native_uninit \/ join \/ finish

-----------------------------------------------------------------------------
Alive == pc # "crashed"

(* server_thread; two of them share the descriptor and the flag.           *)
accept(s, c) ==
  /\ Alive /\ server[s] = "accepting" /\ listening
  /\ client[c] = "none"
  /\ client' = [client EXCEPT ![c] = "open"]
  /\ born' = [born EXCEPT ![c] = inits]
  /\ UNCHANGED <<native, is_initialized, mutexes, web, server, loop, told, app, stray>>

server_ends(s) ==
  /\ Alive /\ server[s] = "accepting" /\ exit_flag
  /\ server' = [server EXCEPT ![s] = "none"]
  /\ born' = [born EXCEPT ![s] = 0]
  /\ UNCHANGED <<native, is_initialized, mutexes, web, client, loop, told, app, stray>>

(* The peer goes; on_close is still to come.                               *)
peer_closes(c) ==
  /\ Alive /\ client[c] = "open"
  /\ client' = [client EXCEPT ![c] = "closed"]
  /\ UNCHANGED <<native, is_initialized, mutexes, web, server, loop, told, born,
                 app, stray>>

client_ends(c) ==
  /\ Alive /\ client[c] = "closed" /\ c \notin inside
  /\ client' = [client EXCEPT ![c] = "none"]
  /\ born' = [born EXCEPT ![c] = 0]
  /\ UNCHANGED <<native, is_initialized, mutexes, web, server, loop, told, app, stray>>

Runs(t) == IF t = "native" THEN loop = "running" ELSE client[t] # "none"

(* An update cycle, or any other section under players_lock.               *)
enter(t) ==
  /\ Alive /\ Runs(t) /\ t \notin inside
  /\ locks = "dead" \/ owner = "nobody"
  /\ inside' = inside \cup {t}
  /\ owner' = IF locks = "live" THEN t ELSE owner
  /\ UNCHANGED <<native, is_initialized, locks, cover_lock, web, threads, app, stray>>

leave(t) ==
  /\ Alive /\ t \in inside
  /\ inside' = inside \ {t}
  /\ owner' = "nobody"
  /\ stray' = (stray \/ (owner # t /\ born[t] < inits))
  /\ UNCHANGED <<native, is_initialized, locks, cover_lock, web, threads, app>>

native_runs ==
  /\ Alive /\ loop = "created"
  /\ loop' = "running"
  /\ UNCHANGED <<native, is_initialized, mutexes, web, server, client, told, born,
                 app, stray>>

native_ends ==
  /\ Alive /\ loop = "running" /\ told /\ "native" \notin inside
  /\ loop' = "done"
  /\ born' = [born EXCEPT !["native"] = 0]
  /\ UNCHANGED <<native, is_initialized, mutexes, web, server, client, told, app, stray>>

(* Nothing happens any more.                                               *)
crashed == pc = "crashed" /\ UNCHANGED vars

Next ==
  \/ wnp_init \/ wnp_uninit \/ Call \/ crashed
  \/ \E s \in Servers : server_ends(s) \/ \E c \in Clients : accept(s, c)
  \/ \E c \in Clients : peer_closes(c) \/ client_ends(c)
  \/ \E t \in Clients \cup {"native"} : enter(t) \/ leave(t)
  \/ native_runs \/ native_ends

Spec == Init /\ [][Next]_vars

(* Calls go on, and so does the desktop's thread, whose loop looks whether   *)
(* it is to end between any two sections.                                    *)
FairSpec ==
  Spec /\ WF_vars(Call) /\ WF_vars(native_runs) /\ WF_vars(leave("native")) /\ SF_vars(native_ends)

-----------------------------------------------------------------------------
(* The types of the state.                                                 *)
TypeOK ==
  /\ native \in {"linux", "windows", "darwin"}
  /\ {is_initialized, web_port, listening, exit_flag, told, stray} \subseteq BOOLEAN
  /\ locks \in {"live", "dead"} /\ cover_lock \in {"live", "dead"}
  /\ inside \subseteq Clients \cup {"native"} /\ owner \in inside \cup {"nobody"}
  /\ server \in [Servers -> {"none", "accepting"}]
  /\ client \in [Clients -> {"none", "open", "closed"}]
  /\ loop \in {"none", "created", "running", "done"}
  /\ calling \in {"nothing", "init", "uninit"}
  /\ pc \in {"idle", "web_init", "web_buffers", "native_init", "web_uninit", "cws_stop",
             "native_uninit", "join", "finish", "crashed"}
  /\ retval \in Failure \cup {"SUCCESS", "ALREADY_INITIALIZED"}
  /\ inits \in 0..MaxInits
  /\ born \in [Threads -> 0..MaxInits]

(* wnp.c:578-584: an init that failed, whichever platform did, leaves nothing *)
(* started behind, and the library can be initialised again.                 *)
FailedInitIsUndone ==
  pc = "idle" /\ retval \in Failure =>
    /\ ~is_initialized /\ ~web_port /\ locks = "dead" /\ cover_lock = "dead"
    /\ loop \notin {"created", "running"}

(* wnp.c:214-341: two threads are in sections under players_lock at a time    *)
(* only after uninit has terminated it, or if a client thread left over from   *)
(* an initialisation that failed is one of them or has unlocked it since.     *)
SectionsExclude ==
  locks = "live" /\ ~stray =>
    \A t, u \in inside : t # u => \E v \in {t, u} : v \in Clients /\ born[v] < inits

(* wnp.c:595-610, linux.c:636, windows.cpp:471, web.c:368-377, 388-393: the    *)
(* desktop's thread has ended when the locks are terminated, so it never uses *)
(* dead ones, nor those of a later initialisation; a client thread that still *)
(* has its connection finds cover_buffers_lock not initialised before         *)
(* web_init returns, and terminated once the server has stopped, but never    *)
(* in between.                                                                *)
LocksWhenUsed ==
  /\ loop \in {"created", "running"} => locks = "live" /\ born["native"] = inits
  /\ locks = "dead" => "native" \notin inside
  /\ \A c \in Clients : client[c] = "open" /\ born[c] = inits /\ cover_lock = "dead" =>
                           pc = "web_buffers" \/ ~listening

(* Both: players_lock and cover_buffers_lock do what they are there for.     *)
LocksHold == SectionsExclude /\ LocksWhenUsed

(* wnp.c:540-612: every call returns, unless the process crashed or the quit  *)
(* was lost.                                                                 *)
QuitLost    == native = "linux" /\ pc = "join" /\ ~told
Returned    == pc \in {"idle", "crashed"} \/ QuitLost
CallsReturn == pc # "idle" ~> Returned
=============================================================================
