---------------------------- MODULE LifecycleProofs ----------------------------
(***************************************************************************)
(* wnp_init and wnp_uninit, for any number of threads and of calls.        *)
(***************************************************************************)
EXTENDS Lifecycle, TLAPS

Starting == pc \in {"web_init", "web_buffers", "native_init"}

(* The call and what it works on.                                           *)
AppInv ==
  /\ calling = "nothing" <=> pc = "idle"
  /\ Starting => calling = "init" /\ locks = "live"
  /\ calling = "uninit" \/ (pc = "idle" /\ is_initialized) => retval \notin Failure

Undone ==
  ~is_initialized => /\ pc = "idle" /\ ~web_port /\ locks = "dead"
                     /\ loop \notin {"created", "running"}

(* The port says whether the server has been started.                       *)
WebInv ==
  /\ listening \/ cover_lock = "live" \/ pc \in {"web_buffers", "cws_stop"} => web_port
  /\ pc \in {"web_init", "native_uninit", "join", "finish"} => ~web_port
  /\ listening /\ cover_lock = "dead" => pc = "web_buffers"

(* The desktop's thread lives within one initialisation.                    *)
Desktop ==
  /\ loop \in {"created", "running"} =>
       locks = "live" /\ born["native"] = inits /\ ~Starting /\ pc # "finish"
  /\ "native" \in inside => loop = "running"

(* Of the threads started by the last initialisation, who is in a section    *)
(* holds the lock, unless an older one unlocked it.                         *)
Mutual ==
  /\ \A t \in Threads : born[t] <= inits
  /\ \A c \in Clients \cap inside : client[c] # "none"
  /\ locks = "live" /\ ~stray => \A t \in inside : born[t] = inits => owner = t

LifecycleInv == TypeOK /\ AppInv /\ Undone /\ WebInv /\ Desktop /\ Mutual

LEMMA InitLifecycleInv ==
  ASSUME LifecycleAssumption, Init
  PROVE  LifecycleInv
<1>1. TypeOK
  <2>1. /\ 0 \in 0..MaxInits /\ inits \in 0..MaxInits
        /\ born \in [Threads -> 0..MaxInits]
    BY DEF Init, LifecycleAssumption
  <2>2. /\ server \in [Servers -> {"none", "accepting"}]
        /\ client \in [Clients -> {"none", "open", "closed"}]
    BY DEF Init
  <2> QED
    BY <2>1, <2>2 DEF Init, TypeOK
<1>2. AppInv /\ Undone /\ WebInv /\ Desktop /\ Mutual
  BY DEF Init, AppInv, Undone, WebInv, Desktop, Mutual, Starting, Failure
<1> QED
  BY <1>1, <1>2 DEF LifecycleInv

LEMMA StepWnpInit ==
  ASSUME LifecycleAssumption, LifecycleInv, wnp_init
  PROVE  LifecycleInv'
<1> USE DEF LifecycleInv, wnp_init, AlreadyInitialized, mutexes, threads, web, app
<1>1. TypeOK'
  <2>1. inits' \in 0..MaxInits
    BY DEF TypeOK, LifecycleAssumption
  <2>2. /\ {is_initialized, web_port, listening, exit_flag, told, stray}' \subseteq BOOLEAN
        /\ locks' \in {"live", "dead"} /\ (owner' = owner \/ owner' = "nobody")
        /\ calling' \in {"nothing", "init", "uninit"}
        /\ retval' \in {"SUCCESS", "ALREADY_INITIALIZED"}
        /\ pc' \in {"idle", "web_init"}
    BY DEF TypeOK
  <2> QED
    BY <2>1, <2>2 DEF TypeOK
<1>2. AppInv' /\ Undone'
  BY DEF TypeOK, AppInv, Undone, WebInv, Desktop, Starting, Failure
<1>3. WebInv'
  BY DEF TypeOK, AppInv, Undone, WebInv, Starting
<1>4. Desktop'
  BY DEF TypeOK, AppInv, Undone, Desktop, Starting, Threads, LifecycleAssumption
<1>5. Mutual'
  BY DEF TypeOK, Desktop, Mutual, Threads, LifecycleAssumption
<1> QED
  BY <1>1, <1>2, <1>3, <1>4, <1>5

LEMMA StepWebInit ==
  ASSUME LifecycleAssumption, LifecycleInv, web_init
  PROVE  LifecycleInv'
<1> USE DEF LifecycleInv, web_init, StartServer, Failure, mutexes, threads, web, app
<1>1. TypeOK'
  <2>1. /\ born' \in [Threads -> 0..MaxInits]
        /\ server' \in [Servers -> {"none", "accepting"}]
    BY DEF TypeOK, Threads
  <2>2. /\ {web_port, listening, exit_flag}' \subseteq BOOLEAN
        /\ retval' \in Failure \cup {"SUCCESS", "ALREADY_INITIALIZED"}
        /\ pc' \in {"web_buffers", "native_init"}
    BY DEF TypeOK
  <2> QED
    BY <2>1, <2>2 DEF TypeOK
<1>2. AppInv' /\ Undone'
  BY DEF TypeOK, AppInv, Undone, WebInv, Desktop, Starting
<1>3. WebInv'
  BY DEF TypeOK, AppInv, Undone, WebInv, Starting
<1>4. Desktop'
  BY DEF TypeOK, AppInv, Undone, Desktop, Starting, Threads, LifecycleAssumption
<1>5. Mutual'
  BY DEF TypeOK, Desktop, Mutual, Threads, LifecycleAssumption
<1> QED
  BY <1>1, <1>2, <1>3, <1>4, <1>5

LEMMA StepWebBuffers ==
  ASSUME LifecycleAssumption, LifecycleInv, web_buffers
  PROVE  LifecycleInv'
<1> USE DEF LifecycleInv, web_buffers, CoverLock, mutexes, threads, web, app
<1>1. TypeOK'
  BY DEF TypeOK, Threads, LifecycleAssumption
<1>2. AppInv' /\ Undone'
  BY DEF TypeOK, AppInv, Undone, WebInv, Desktop, Starting
<1>3. WebInv'
  BY DEF TypeOK, AppInv, Undone, WebInv, Starting
<1>4. Desktop'
  BY DEF TypeOK, AppInv, Undone, Desktop, Starting, Threads, LifecycleAssumption
<1>5. Mutual'
  BY DEF TypeOK, Desktop, Mutual, Threads, LifecycleAssumption
<1> QED
  BY <1>1, <1>2, <1>3, <1>4, <1>5

LEMMA StepNativeInit ==
  ASSUME LifecycleAssumption, LifecycleInv, native_init
  PROVE  LifecycleInv'
<1> USE DEF LifecycleInv, native_init, Fails, Failure, mutexes, threads, web, app
<1>1. TypeOK'
  <2>1. /\ told' = FALSE
        /\ born' = born \/ born' = [born EXCEPT !["native"] = inits]
    OBVIOUS
  <2>3. born' \in [Threads -> 0..MaxInits]
    <3>1. born \in [Threads -> 0..MaxInits] /\ inits \in 0..MaxInits
      BY DEF TypeOK
    <3> QED
      BY ONLY <2>1, <3>1
  <2>2. /\ loop' \in {"none", "created", "running", "done"}
        /\ retval' \in Failure \cup {"SUCCESS", "ALREADY_INITIALIZED"}
        /\ pc' \in {"idle", "web_uninit"} /\ calling' \in {"nothing", "init", "uninit"}
    BY DEF TypeOK
  <2> QED
    BY <2>1, <2>2, <2>3 DEF TypeOK
<1>2. AppInv' /\ Undone'
  BY DEF TypeOK, AppInv, Undone, WebInv, Desktop, Starting
<1>3. WebInv'
  BY DEF TypeOK, AppInv, Undone, WebInv, Starting
<1>4. Desktop'
  BY DEF TypeOK, AppInv, Undone, Desktop, Starting, Threads, LifecycleAssumption
<1>5. Mutual'
  BY DEF TypeOK, Desktop, Mutual, Threads, LifecycleAssumption
<1> QED
  BY <1>1, <1>2, <1>3, <1>4, <1>5

LEMMA StepWnpUninit ==
  ASSUME LifecycleAssumption, LifecycleInv, wnp_uninit
  PROVE  LifecycleInv'
<1> USE DEF LifecycleInv, wnp_uninit, mutexes, threads, web, app
<1>1. TypeOK'
  BY DEF TypeOK, Threads, LifecycleAssumption
<1>2. AppInv' /\ Undone'
  BY DEF TypeOK, AppInv, Undone, WebInv, Desktop, Starting
<1>3. WebInv'
  BY DEF TypeOK, AppInv, Undone, WebInv, Starting
<1>4. Desktop'
  BY DEF TypeOK, AppInv, Undone, Desktop, Starting, Threads, LifecycleAssumption
<1>5. Mutual'
  BY DEF TypeOK, Desktop, Mutual, Threads, LifecycleAssumption
<1> QED
  BY <1>1, <1>2, <1>3, <1>4, <1>5

LEMMA StepWebUninit ==
  ASSUME LifecycleAssumption, LifecycleInv, web_uninit
  PROVE  LifecycleInv'
<1> USE DEF LifecycleInv, web_uninit, mutexes, threads, web, app
<1>1. TypeOK'
  BY DEF TypeOK, Threads, LifecycleAssumption
<1>2. AppInv' /\ Undone'
  BY DEF TypeOK, AppInv, Undone, WebInv, Desktop, Starting
<1>3. WebInv'
  BY DEF TypeOK, AppInv, Undone, WebInv, Starting
<1>4. Desktop'
  BY DEF TypeOK, AppInv, Undone, Desktop, Starting, Threads, LifecycleAssumption
<1>5. Mutual'
  BY DEF TypeOK, Desktop, Mutual, Threads, LifecycleAssumption
<1> QED
  BY <1>1, <1>2, <1>3, <1>4, <1>5

LEMMA StepCwsStop ==
  ASSUME LifecycleAssumption, LifecycleInv, cws_stop
  PROVE  LifecycleInv'
<1> USE DEF LifecycleInv, cws_stop, mutexes, threads, web, app
<1>1. TypeOK'
  BY DEF TypeOK, Threads, LifecycleAssumption
<1>2. AppInv' /\ Undone'
  BY DEF TypeOK, AppInv, Undone, WebInv, Desktop, Starting
<1>3. WebInv'
  BY DEF TypeOK, AppInv, Undone, WebInv, Starting
<1>4. Desktop'
  BY DEF TypeOK, AppInv, Undone, Desktop, Starting, Threads, LifecycleAssumption
<1>5. Mutual'
  BY DEF TypeOK, Desktop, Mutual, Threads, LifecycleAssumption
<1> QED
  BY <1>1, <1>2, <1>3, <1>4, <1>5

LEMMA StepNativeUninit ==
  ASSUME LifecycleAssumption, LifecycleInv, native_uninit
  PROVE  LifecycleInv'
<1> USE DEF LifecycleInv, native_uninit, Quit, mutexes, threads, web, app
<1>1. TypeOK'
  BY DEF TypeOK, Threads, LifecycleAssumption
<1>2. AppInv' /\ Undone'
  BY DEF TypeOK, AppInv, Undone, WebInv, Desktop, Starting
<1>3. WebInv'
  BY DEF TypeOK, AppInv, Undone, WebInv, Starting
<1>4. Desktop'
  BY DEF TypeOK, AppInv, Undone, Desktop, Starting, Threads, LifecycleAssumption
<1>5. Mutual'
  BY DEF TypeOK, Desktop, Mutual, Threads, LifecycleAssumption
<1> QED
  BY <1>1, <1>2, <1>3, <1>4, <1>5

LEMMA StepJoin ==
  ASSUME LifecycleAssumption, LifecycleInv, join
  PROVE  LifecycleInv'
<1> USE DEF LifecycleInv, join, Joined, mutexes, threads, web, app
<1>1. TypeOK'
  BY DEF TypeOK, Threads, LifecycleAssumption
<1>2. AppInv' /\ Undone'
  BY DEF TypeOK, AppInv, Undone, WebInv, Desktop, Starting
<1>3. WebInv'
  BY DEF TypeOK, AppInv, Undone, WebInv, Starting
<1>4. Desktop'
  BY DEF TypeOK, AppInv, Undone, Desktop, Starting, Threads, LifecycleAssumption
<1>5. Mutual'
  BY DEF TypeOK, Desktop, Mutual, Threads, LifecycleAssumption
<1> QED
  BY <1>1, <1>2, <1>3, <1>4, <1>5

LEMMA StepFinish ==
  ASSUME LifecycleAssumption, LifecycleInv, finish
  PROVE  LifecycleInv'
<1> USE DEF LifecycleInv, finish, Uninitialized, mutexes, threads, web, app
<1>1. TypeOK'
  BY DEF TypeOK, Threads, LifecycleAssumption
<1>2. AppInv' /\ Undone'
  BY DEF TypeOK, AppInv, Undone, WebInv, Desktop, Starting
<1>3. WebInv'
  BY DEF TypeOK, AppInv, Undone, WebInv, Starting
<1>4. Desktop'
  BY DEF TypeOK, AppInv, Undone, Desktop, Starting, Threads, LifecycleAssumption
<1>5. Mutual'
  BY DEF TypeOK, Desktop, Mutual, Threads, LifecycleAssumption
<1> QED
  BY <1>1, <1>2, <1>3, <1>4, <1>5

LEMMA StepAccept ==
  ASSUME LifecycleAssumption, LifecycleInv, NEW s \in Servers, NEW c \in Clients, accept(s, c)
  PROVE  LifecycleInv'
<1> USE DEF LifecycleInv, accept, mutexes, threads, web, app
<1>1. TypeOK'
  BY DEF TypeOK, Threads, LifecycleAssumption
<1>2. AppInv' /\ Undone'
  BY DEF TypeOK, AppInv, Undone, WebInv, Desktop, Starting
<1>3. WebInv'
  BY DEF TypeOK, AppInv, Undone, WebInv, Starting
<1>4. Desktop'
  BY DEF TypeOK, AppInv, Undone, Desktop, Starting, Threads, LifecycleAssumption
<1>5. Mutual'
  BY DEF TypeOK, Desktop, Mutual, Threads, LifecycleAssumption
<1> QED
  BY <1>1, <1>2, <1>3, <1>4, <1>5

LEMMA StepServerEnds ==
  ASSUME LifecycleAssumption, LifecycleInv, NEW s \in Servers, server_ends(s)
  PROVE  LifecycleInv'
<1> USE DEF LifecycleInv, server_ends, mutexes, threads, web, app
<1>1. TypeOK'
  BY DEF TypeOK, Threads, LifecycleAssumption
<1>2. AppInv' /\ Undone'
  BY DEF TypeOK, AppInv, Undone, WebInv, Desktop, Starting
<1>3. WebInv'
  BY DEF TypeOK, AppInv, Undone, WebInv, Starting
<1>4. Desktop'
  BY DEF TypeOK, AppInv, Undone, Desktop, Starting, Threads, LifecycleAssumption
<1>5. Mutual'
  BY DEF TypeOK, Desktop, Mutual, Threads, LifecycleAssumption
<1> QED
  BY <1>1, <1>2, <1>3, <1>4, <1>5

LEMMA StepPeerCloses ==
  ASSUME LifecycleAssumption, LifecycleInv, NEW c \in Clients, peer_closes(c)
  PROVE  LifecycleInv'
<1> USE DEF LifecycleInv, peer_closes, mutexes, threads, web, app
<1>1. TypeOK'
  BY DEF TypeOK, Threads, LifecycleAssumption
<1>2. AppInv' /\ Undone'
  BY DEF TypeOK, AppInv, Undone, WebInv, Desktop, Starting
<1>3. WebInv'
  BY DEF TypeOK, AppInv, Undone, WebInv, Starting
<1>4. Desktop'
  BY DEF TypeOK, AppInv, Undone, Desktop, Starting, Threads, LifecycleAssumption
<1>5. Mutual'
  BY DEF TypeOK, Desktop, Mutual, Threads, LifecycleAssumption
<1> QED
  BY <1>1, <1>2, <1>3, <1>4, <1>5

LEMMA StepClientEnds ==
  ASSUME LifecycleAssumption, LifecycleInv, NEW c \in Clients, client_ends(c)
  PROVE  LifecycleInv'
<1> USE DEF LifecycleInv, client_ends, mutexes, threads, web, app
<1>1. TypeOK'
  BY DEF TypeOK, Threads, LifecycleAssumption
<1>2. AppInv' /\ Undone'
  BY DEF TypeOK, AppInv, Undone, WebInv, Desktop, Starting
<1>3. WebInv'
  BY DEF TypeOK, AppInv, Undone, WebInv, Starting
<1>4. Desktop'
  BY DEF TypeOK, AppInv, Undone, Desktop, Starting, Threads, LifecycleAssumption
<1>5. Mutual'
  BY DEF TypeOK, Desktop, Mutual, Threads, LifecycleAssumption
<1> QED
  BY <1>1, <1>2, <1>3, <1>4, <1>5

LEMMA StepEnter ==
  ASSUME LifecycleAssumption, LifecycleInv, NEW t \in Clients \cup {"native"}, enter(t)
  PROVE  LifecycleInv'
<1> USE DEF LifecycleInv, enter, Runs, mutexes, threads, web, app
<1>1. TypeOK'
  BY DEF TypeOK, Threads, LifecycleAssumption
<1>2. AppInv' /\ Undone'
  BY DEF TypeOK, AppInv, Undone, WebInv, Desktop, Starting
<1>3. WebInv'
  BY DEF TypeOK, AppInv, Undone, WebInv, Starting
<1>4. Desktop'
  BY DEF TypeOK, AppInv, Undone, Desktop, Starting, Threads, LifecycleAssumption
<1>5. Mutual'
  BY DEF TypeOK, Desktop, Mutual, Threads, LifecycleAssumption
<1> QED
  BY <1>1, <1>2, <1>3, <1>4, <1>5

LEMMA StepLeave ==
  ASSUME LifecycleAssumption, LifecycleInv, NEW t \in Clients \cup {"native"}, leave(t)
  PROVE  LifecycleInv'
<1> USE DEF LifecycleInv, leave, mutexes, threads, web, app
<1>1. TypeOK'
  BY DEF TypeOK, Threads, LifecycleAssumption
<1>2. AppInv' /\ Undone'
  BY DEF TypeOK, AppInv, Undone, WebInv, Desktop, Starting
<1>3. WebInv'
  BY DEF TypeOK, AppInv, Undone, WebInv, Starting
<1>4. Desktop'
  BY DEF TypeOK, AppInv, Undone, Desktop, Starting, Threads, LifecycleAssumption
<1>5. Mutual'
  <2>1. /\ \A u \in Threads : born[u] <= inits /\ born[u] \in Nat
        /\ inits \in Nat /\ t \in Threads /\ inside \subseteq Threads /\ stray \in BOOLEAN
    BY DEF TypeOK, Mutual, Threads, LifecycleAssumption
  <2>2. ASSUME locks = "live", ~stray', NEW u \in inside', born[u] = inits PROVE FALSE
    <3>1. u \in inside /\ u # t
      BY <2>2
    <3>3. ~stray /\ ~(owner # t /\ born[t] < inits)
      BY <2>2
    <3>4. born[t] = inits \/ born[t] < inits
      BY <2>1
    <3>2. owner = t /\ owner = u
      BY <2>2, <3>1, <3>3, <3>4 DEF Mutual
    <3> QED
      BY <3>1, <3>2
  <2> QED
    BY <2>1, <2>2 DEF Mutual
<1> QED
  BY <1>1, <1>2, <1>3, <1>4, <1>5

LEMMA StepNativeRuns ==
  ASSUME LifecycleAssumption, LifecycleInv, native_runs
  PROVE  LifecycleInv'
<1> USE DEF LifecycleInv, native_runs, mutexes, threads, web, app
<1>1. TypeOK'
  BY DEF TypeOK, Threads, LifecycleAssumption
<1>2. AppInv' /\ Undone'
  BY DEF TypeOK, AppInv, Undone, WebInv, Desktop, Starting
<1>3. WebInv'
  BY DEF TypeOK, AppInv, Undone, WebInv, Starting
<1>4. Desktop'
  BY DEF TypeOK, AppInv, Undone, Desktop, Starting, Threads, LifecycleAssumption
<1>5. Mutual'
  BY DEF TypeOK, Desktop, Mutual, Threads, LifecycleAssumption
<1> QED
  BY <1>1, <1>2, <1>3, <1>4, <1>5

LEMMA StepNativeEnds ==
  ASSUME LifecycleAssumption, LifecycleInv, native_ends
  PROVE  LifecycleInv'
<1> USE DEF LifecycleInv, native_ends, mutexes, threads, web, app
<1>1. TypeOK'
  BY DEF TypeOK, Threads, LifecycleAssumption
<1>2. AppInv' /\ Undone'
  BY DEF TypeOK, AppInv, Undone, WebInv, Desktop, Starting
<1>3. WebInv'
  BY DEF TypeOK, AppInv, Undone, WebInv, Starting
<1>4. Desktop'
  BY DEF TypeOK, AppInv, Undone, Desktop, Starting, Threads, LifecycleAssumption
<1>5. Mutual'
  BY DEF TypeOK, Desktop, Mutual, Threads, LifecycleAssumption
<1> QED
  BY <1>1, <1>2, <1>3, <1>4, <1>5

-----------------------------------------------------------------------------
(* wnp.c:540-612 with the platforms' init and uninit, and their threads: the  *)
(* locks, the port, the flag and the threads stay in step, whatever fails.  *)
THEOREM LifecycleInvariant ==
  ASSUME LifecycleAssumption
  PROVE  Spec => []LifecycleInv
<1>1. Init => LifecycleInv
  BY InitLifecycleInv
<1>2. LifecycleInv /\ [Next]_vars => LifecycleInv'
  <2> SUFFICES ASSUME LifecycleInv, [Next]_vars PROVE LifecycleInv'
    OBVIOUS
  <2>1. CASE wnp_init \/ wnp_uninit \/ Call
    BY <2>1, StepWnpInit, StepWnpUninit, StepWebInit, StepWebBuffers, StepNativeInit, StepWebUninit,
       StepCwsStop, StepNativeUninit, StepJoin, StepFinish DEF Call
  <2>2. CASE \E s \in Servers : server_ends(s) \/ \E c \in Clients : accept(s, c)
    BY <2>2, StepServerEnds, StepAccept
  <2>3. CASE \E c \in Clients : peer_closes(c) \/ client_ends(c)
    BY <2>3, StepPeerCloses, StepClientEnds
  <2>4. CASE \E t \in Clients \cup {"native"} : enter(t) \/ leave(t)
    BY <2>4, StepEnter, StepLeave
  <2>5. CASE native_runs \/ native_ends
    BY <2>5, StepNativeRuns, StepNativeEnds
  <2>6. CASE crashed \/ UNCHANGED vars
    BY <2>6 DEF crashed, vars, mutexes, threads, web, app, LifecycleInv, TypeOK, AppInv, Undone,
                WebInv, Desktop, Mutual, Starting
  <2> QED
    BY <2>1, <2>2, <2>3, <2>4, <2>5, <2>6 DEF Next
<1> QED
  BY <1>1, <1>2, PTL DEF Spec

(* The types of the state of wnp.c and its platforms' threads.              *)
THEOREM LifecycleTypeOK ==
  ASSUME LifecycleAssumption
  PROVE  Spec => []TypeOK
<1>1. LifecycleInv => TypeOK
  BY DEF LifecycleInv
<1> QED
  BY <1>1, LifecycleInvariant, PTL

(* wnp.c:578-584: whichever platform made wnp_init fail, nothing it started   *)
(* is left behind.                                                          *)
THEOREM LifecycleFailedInitIsUndone ==
  ASSUME LifecycleAssumption
  PROVE  Spec => []FailedInitIsUndone
<1>1. LifecycleInv => FailedInitIsUndone
  BY DEF LifecycleInv, TypeOK, AppInv, Undone, WebInv, FailedInitIsUndone
<1> QED
  BY <1>1, LifecycleInvariant, PTL

(* wnp.c:214-341, 595-610, linux.c:636, windows.cpp:471, web.c:368-393: the   *)
(* locks exclude and are alive when used, for any number of client threads, *)
(* up to those that outlive an initialisation.                              *)
THEOREM LifecycleLocksHold ==
  ASSUME LifecycleAssumption
  PROVE  Spec => []LocksHold
<1>1. LifecycleInv => SectionsExclude
  <2> SUFFICES ASSUME LifecycleInv, locks = "live", ~stray,
                      NEW t \in inside, NEW u \in inside, t # u
               PROVE  \E v \in {t, u} : v \in Clients /\ born[v] < inits
    BY DEF SectionsExclude
  <2>1. t \in Threads /\ u \in Threads /\ inside \subseteq Clients \cup {"native"}
    BY DEF LifecycleInv, TypeOK, Threads
  <2>2. PICK v \in {t, u} : owner # v
    OBVIOUS
  <2>3. born[v] # inits /\ born[v] <= inits /\ born[v] \in Nat /\ inits \in Nat
    BY <2>1, <2>2 DEF LifecycleInv, TypeOK, Mutual, LifecycleAssumption
  <2>4. v \in Clients
    BY <2>1, <2>3 DEF LifecycleInv, Desktop
  <2> QED
    BY <2>3, <2>4
<1>2. LifecycleInv => LocksWhenUsed
  BY DEF LifecycleInv, TypeOK, WebInv, Desktop, LocksWhenUsed
<1> QED
  BY <1>1, <1>2, LifecycleInvariant, PTL DEF LocksHold

=============================================================================
