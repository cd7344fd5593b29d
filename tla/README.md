# TLA+ models of WebNowPlaying-Library

libwnp collects the media players of a machine – the tabs a browser extension
reports over a WebSocket and the players the desktop reports over MPRIS, GSMTC
or MediaRemote – in one table, tells an application about changes through
callbacks, and passes the application's requests back to the players.

These modules describe what the threads of the library do to that table and to
the state around it, check it with TLC on small instances, and prove most of the
safety properties with TLAPS for every number of slots, threads and messages.

## 1. The system

| Component | State | Operations | Used by |
|---|---|---|---|
| Player table (`wnp.c`) | `players`, `total_web_players`, `players_lock`, `update_cycle` | `__wnp_start_update_cycle`, `__wnp_add_player`, `__wnp_update_player`, `__wnp_remove_player`, `__wnp_end_update_cycle` | the adapters |
| Notification queues (`wnp.c`) | `update_cycle_added/updated/removed_players` | filled in a cycle, emptied after it | the adapters' threads, which run the application's callbacks |
| Active player (`wnp.c`) | `active_player_id` | `_wnp_recalculate_active_player` after every cycle | `wnp_get_active_player` |
| Lookups (`wnp.c`) | – | `wnp_get_player`, `wnp_get_active_player`, `wnp_get_all_players` | the application, and every callback |
| Events (`wnp.c`) | `event_results` (a ring), the static id counter, `event_results_lock` | `wnp_try_...`, `wnp_get_event_result`, `wnp_wait_for_event_result`, `__wnp_set_event_result` | the application; platforms answer |
| Lifecycle (`wnp.c`) | `is_initialized`, `args` | `wnp_init`, `wnp_uninit` | the application |
| Web adapter (`web.c`) | cover buffers, `_platform_data` of its players | on_open, on_close, on_message, event | client threads of the server |
| WebSocket server (`cws.c`) | client slots, their mutexes, the exit flag | start, stop, send, one server thread, one thread per client, the frame parser | the web adapter |
| Linux adapter (`linux.c`) | a GLib loop thread, subscriptions | name-owner and property signals, events | D-Bus |
| Windows adapter (`windows.cpp`) | a polling thread, a session per player | one cycle per poll, events | GSMTC |
| Darwin adapter (`darwin.m`) | one object, what it wrote last | MediaRemote callbacks on concurrent queues, events | MediaRemote |
| Utilities (`wnp.c`) | – | formatting, UTF-8 to UTF-16, percentages, argument clamping | the application |

How they interact.  An adapter thread starts an *update cycle*, which takes
`players_lock` and a snapshot of the table; it adds, updates and removes its own
players; ending the cycle releases the lock and *then*, on the same thread and
without any lock, walks the three queues calling the application back and
recalculates the active player.  Several adapter threads can be in that second
phase at once.  Application threads look players up and send events under the
same lock.  The application's callbacks run on adapter threads.

What is hard.  The phase after a cycle is concurrent and unlocked; lookups copy
after the unlock; the active player is computed under the lock and stored without
it; event ids come from an unprotected counter and cells are reused; waits race
with late answers; adapters have error paths inside a cycle; clients come and go
while the server stops; desktops change between any two calls of an adapter and
answer in any order; an init may fail after it has started
threads.  `PROJECT.json` lists every hazard with its line and the property that
covers it.

What makes each component correct:

* table: the lock discipline, the count of web players, a slot that belongs to
  one owner until it is freed;
* queues: nothing dropped, nothing left behind, each callback in its order;
* active player: the documented rule, and a value that fits the table;
* lookups: what is returned as found is a copy of that player;
* events: a result that belongs to the event, and a wait that ends;
* lifecycle: a failed init is undone, no lock is used dead, calls return;
* web adapter and server: every cycle ended, every buffer and slot released once;
* frames: a message is what its fragments carry, text is UTF-8;
* desktop adapters: the table is what the desktop says, up to what the order of
  the calls makes it lose, and no other adapter's player is touched;
* utilities: positions inside the track, a text that is the same text.

## 2. Modules

| Module | Models |
|---|---|
| `WnpPlayer` | slots, `wnp_player_t` as far as the core looks at it, hiding, and the closed form of the selection (`Selected`) |
| `ActiveScan` | the selection loop, `wnp.c:110-137`, one action per branch |
| `WnpCore` | the core with all its threads, `wnp.c:209-342, 424-505, 625-655` |
| `CallbackContract` | the abstract specification of `wnp.h:163-176` |
| `WnpApp` | the core with the application of `examples/debug.c` on top |
| `WnpAppProofs` | the proofs of `WnpCore`, and those with one adapter thread and an application |
| `EventResults` | the result ring, the id counter, answers and waits, `wnp.c:395-505, 789-828` |
| `EventResultsProofs` | its proofs |
| `CwsServer` | the WebSocket server's slots, threads, locks and its stop, `cws.c:127-251, 387-511, 602-819` |
| `WebAdapter` | `web.c`'s handlers, cover buffers and requests, on top of `CwsServer` |
| `WebAdapterProofs` | the proofs of `CwsServer`, and those of the adapter on top of it |
| `CwsFrames` | a client thread's frames: assembly, control frames, UTF-8, `cws.c:202-511` |
| `LinuxAdapter` | `linux.c:357-759` against a session bus |
| `LinuxAdapterProofs` | its proofs |
| `WindowsAdapter` | `windows.cpp:348-568` against the system's media sessions |
| `WindowsAdapterProofs` | its proofs |
| `DarwinAdapter` | `darwin.m:76-324` against MediaRemote |
| `DarwinAdapterProofs` | its proofs |
| `Lifecycle` | `wnp_init`, `wnp_uninit` and the platforms' init and uninit, with the threads they start |
| `LifecycleProofs` | its proofs |
| `Utilities` | the controls that compute what they ask for, `wnp.c:668-672, 851-942` |
| `Utf16` | `wnp_utf8_to_utf16`, `wnp.c:701-781` |
| `Unicode` | what UTF-8 and UTF-16 are: the reference `CwsFrames` and `Utf16` are checked against, no code |
| `SequentialProofs` | the proofs of `ActiveScan`, `CwsFrames`, `Utf16` and `Utilities` |
| `MC...` | instances for TLC |

`WnpCore` is extended by `WnpApp`, which instantiates `CallbackContract`;
`CwsServer` by `WebAdapter`.  `MCSequential`, `MCSignals` and `MCThreads` put
modules that do not interact side by side: the initial state chooses one
(`subject`) and only its variables change.  `MCSequential` extends all of its
four, so their properties are checked as they stand; in the other two one module
is extended and the others are instances, because their names clash.
The assumptions on these modules' constants are definitions (`LinuxAssumption`
and so on), which the instances assume and the theorems have as hypotheses.

### WnpPlayer and ActiveScan

`Player` keeps the fields the core reads: `id`, `platform`, `is_web_browser`,
`state`, `volume`, `active_at` and `_platform_data` (`data`: the adapter that
allocated it).  LINUX, WINDOWS and DARWIN are one platform `"NATIVE"`, because
the core only asks whether a player is a web player.

`ActiveScan`'s variables are the function's locals.  The loop holds the lock, so
the table is constant.  `Selected(ps, S, r)` says without a loop what it
returns: if some audible player's timestamp beats whatever is held when the loop
reaches it (`Rises`), the freshest audible one from there on; else the last
playing one; else the freshest idle one; else -1.  This is not the rule of
`wnp.h:207-209`, see *Findings*.

### WnpCore

Each thread has a program counter.  One step is what the code does between two
points where another thread can interfere: a cycle's operations are steps of
their own because other calls can be made between them, a section under the lock
that calls nothing else is one step, and an unlocked access to shared state is a
step of its own.

| Action | Code |
|---|---|
| `StartCycle`, `AddPlayer`, `UpdatePlayer`, `RemovePlayer`, `EndCycle` | the functions of that name; `EndCycle` ends with the unlock |
| `ReadEntry`, `ReadRemoved`, `HandOver`, `Clear` | the bodies of the three delivery loops; `Advance` is the loops' bookkeeping |
| `Lookup`, `Copy` | `wnp_get_player` up to the unlock, and the copy after it |
| `Recalculate`, `Compare`, `Publish` | the recalculation under the lock, the comparison, the store and its callback |
| `CallGetPlayer`, `CallGetActive`, `Reread`, `TrySetState` | the application's calls |

`wnp_get_player` is a subroutine: `call[t]` says who called it.  `mine[t]` is
what of the snapshot `players_out` an adapter has still to handle.  `out` is
what the last step handed to the application, nothing otherwise.  The adapters
differ only in which of the cycle's operations they use: the web adapter adds,
updates or removes in one cycle, Windows does all three in every poll.
`is_web_browser` may change with an update because the Darwin adapter does that.

Data races.  `Copy` reads a slot that may be written meanwhile, `HandOver`'s
callback reads a queue entry that may be cleared meanwhile: every field is the
old or the new one (`Torn`).  Reads and writes of `int`s are atomic.  A queue
entry for a removed player is written in one step, although it is a struct that
a delivering thread may already be looking at.

### WnpApp and CallbackContract

The callbacks of `examples/debug.c` are conjoined to the core's steps through
`out`.  `announced` and `app_active` are what the application was told; they are
the refinement mapping to `CallbackContract`, in which nothing is said about a
player before its ADDED or after its REMOVED.

### EventResults

Cells are read and written under `event_results_lock`: one step each.  The
counter is a static `int`; its read, its write and its later reads are steps of
their own, because calls that are refused before the lock is taken use it too
(`wnp.c:428, 435, 938`: the kind `"refused_unlocked"`).  After the write the
function may see its own value or what is there now (`Counter`): the compiler
may keep it in a register or load it again.  A platform answers at once (Linux),
later (web, Windows) or never.  `verdict` is what really became of an event.

### CwsServer

A connection stands for its descriptor and for the thread that serves it, so
`fd[c] = k` says that slot `c` belongs to connection `k`, and a thread that works
on `g_clients[c]` has `client[t] = c`.

| Action | Code |
|---|---|
| `SendCheck`, `SendLock`, `Send` | `sendn_client`: the test of the descriptor, the lock, the sending and the unlock |
| `handle_handshake`, `HandshakeFails`, `on_open` | the handshake up to its answer, its failures, and `STATE_OPEN` with the version line |
| `recv_next_frame`, `RecvFails`, `Closing` | one frame: a message, a ping, a pong, a close frame, or text that is refused |
| `on_message`, `on_close` | the calls of the user's handlers |
| `Closed`, `Close`, `Leave` | the end of `client_thread`: lock, `close_client`, unlock |
| `ServerInit` ... `CreateThread` | `server_thread`: the flag, `accept`, the search for a slot, `thread_create` |
| `Stop` ... `CloseServer` | `cws_stop`, one step per access to shared state |

A section under `g_clients_mutex` is one step; after `cws_stop` has terminated
that mutex it excludes nobody, and `Place` may then interleave with the end of a
`close_client`.  The mutexes of the slots are modelled with their life, because
the code locks and unlocks some that are terminated or initialised again: as
with pthreads, locking a dead mutex has no effect, an unlock frees it whoever
holds it, and terminating one that is held may be refused.  `broken` records
where an unlock released somebody else's hold.  `memset(g_clients, -1)` gives
the slots' initial state.  A `recv` blocks or delivers as long as the
descriptor is open; the peer may go at any time.

### WebAdapter

`WebAdapter` extends `CwsServer` and gives `on_message` and `on_close` their
contents; its table is the core's, seen by this adapter.  An update cycle holds
`players_lock` throughout and is one step; what happens after its end and the
sections under `cover_buffers_lock` outside it are steps of their own
(`KeepCover`, `DropCovers`).  `players_lock` is visible where something else
happens while it is held: a request is sent to a client (`Event`, `cws_send`'s
steps, `EventSent`), or a handler returns without ending its cycle
(`AddedInVain`, `Cover` without a path), after which nobody gets it any more.

`conn` in a player, a buffer or a cover is the connection it came from, which
the code does not know: it only has the slot.  `announced` is what each client
has said.  The text of a player carries its port id, and the model lets it be the
id of the message, as the browser extension does.  A player's text is one value.
The parsing of a message is one step, see the hazard at `web.c:246`.
`_web_ws_on_open` only sends and is a step of `CwsServer`.

### CwsFrames

One action per kind of frame; `op`, `msg` and `utf8_state` are the fields of
`recv_next_frame` that outlive a frame.  A frame's payload is unmasked and its
length a number: `rsv` stands for the reserved bits, `long` for a length field
above 125.  The table `utf8d` is two operators, the type of a byte and the
transitions; the unused code point is left out.  The other threads do not take
part: the connection may end before any frame (`Cut`) and an answer may fail.

### LinuxAdapter

`owned` and `text` are the bus; `pc` follows `__wnp_platform_linux_init` up to
`loop`, and then the handlers, which the GLib loop runs one at a time.  An update
cycle with nothing in between is one step; `_linux_player_added` is three,
because the bus changes while it asks for the properties and before it
subscribes.  `signals` is what was received and not yet handled, in order; a
signal is only received for a subscription that exists, and those of one that is
given up are turned into `Dropped` where they are in the queue and heard by
nobody (`Drop`).  The names of `unwatched` and `stale` are those whose
coming, going or saying was missed; they are not in the code and say in
`FollowsBus` what the order of the calls makes the adapter lose.  A name is no
longer `stale` once the last change of it that is queued was handled (`Latest`);
that an earlier one is not enough takes three pending signals to see.

### WindowsAdapter

One action per step of `_windows_thread_func`; the loop over the sessions and the
loop over the snapshot have one step per round, as the system may change in
between.  The cycle holds `players_lock`, so the application and the web adapter
wait, and the system does not.

### DarwinAdapter

A call of `getNowPlayingInfo` is two questions; an answer is given
(`AnswerPlaying`, `AnswerInfo`) and later runs as a block, and the block with the
information is two steps, because `old_title` and the rest are written before the
cycle starts.  `players[self.player_id]` reads the compacted snapshot (`AtIndex`);
beyond its end the array is uninitialised and any slot's earlier contents may be
there (`Copies`).  `alone` and `clean` record, for `ShowsMedia`, whether anything
was lost.

### Lifecycle

The initial state chooses the desktop.  `pc` goes through `wnp_init` and
`wnp_uninit`, one step per platform call that other threads can see half done.
The threads only enter and leave sections under `players_lock`; `born` is the
initialisation a thread belongs to and `stray` records that an older one has
unlocked since.  As in `CwsServer`, locking a dead mutex has no effect.
`wnp_init` calls every platform although one has failed, and undoes them in the
same order.

### Utilities and Utf16

`Utilities` has the row of one web player and the application's copy of it, which
the controls compute from; a control's request is in the row at once
(`web.c:415-436`).  Positions are counted modulo `Unsigned`.  Percentages are
fractions, as only the rounding of `percent / 100 * duration + 0.5` matters.
`Utf16` has one action per branch of the loop; the branch for four bytes is
modelled with the shifts as they are.

## 3. What is checked

Every property has a mutant of a mapped definition that TLC finds violating it.

| Run | Instance | Shows |
|---|---|---|
| `sequential` | 4 slots, 9 kinds of player, timestamps 0-3; 4 frames out of 30, messages of at most 5 bytes, and all texts of at most 4 bytes over 13 classes of bytes; texts of 3 characters out of 9, outputs of 0, 2 and 6 units; positions modulo 16 | the loop returns what the closed form selects for every table; a message is what its fragments carry and its text is checked; the conversion agrees with UTF-16; the controls stay inside the track and invert one another |
| `two_adapters` | 2 slots, a web client and a desktop adapter | the web counter, each queue entry has its owner's thread on its way to it, nothing dropped from a queue, slots keep their owner |
| `library_returns` | 1 slot, an adapter and an application thread | delivery and recalculation end, the application's calls return |
| `one_adapter` | 2 slots, 1 adapter, three contents | the callbacks keep the contract; an application that only listens has the table; the stored active player is the selected one when nothing is under way |
| `events` | 3 cells, 2 callers, 2 events | a result belongs to its event, a wait ends without an answer |
| `cws` | 1 slot, 2 connections, a sender, a stop at any point | every open descriptor has a thread that will close it; until the stop a client thread works on its own connection |
| `web` | 2 slots, 2 connections, 2 port ids, 2 texts, 2 players, 1 buffer, a sender; no stop | frames do not mix; a client's players, covers and requests stay its own and are gone before its slot is reused; the table is what the clients announced |
| `web_ends` | 1 slot, 1 connection, 2 port ids, 1 player, a sender, a stop | a client that goes is cleaned up, the server thread ends |
| `signals` | Linux: 2 slots, 2 names, 2 texts, 3 pending signals; Darwin: 3 slots, 2 texts, 2 calls | one player and one subscription per name, the table is the bus; the Darwin player shows the media and no other is written |
| `threads` | Windows: 2 slots, 3 sessions of 2 applications, 2 texts; lifecycle: each desktop, 2 server threads, 1 client, 2 initialisations | the poll converges; failed inits are undone, locks hold, calls return |

Runs expected to find a violation are under *Findings*.

Bounds.  Two slots let a slot be free while another is in use, an entry be
behind another in a queue, and a slot be reused while its former player's
removal is pending; two adapters are enough for two deliveries at once, and one
web and one native thread for hiding.  Four slots in `ActiveScan` are enough for
a held player, one that fails to beat it, one that rises, and a later tie.
Liveness runs have one slot: the loops then have one iteration each and all
calls are still there.  The ring has three cells for at most two live events,
and fewer than the ids a run hands out, so it wraps.  `OrderlySpec` of
`MCEventResults` states an assumption about the environment: nobody is concerned
any more with an event when its cell is reused (511 events later, in the code);
its run leaves out the calls refused before the lock, which are what
`events_race` adds.

One slot and two connections make the server reuse and refuse slots (two slots
and three connections, 5.1 million states, gave the same answers).  In `web`, two
clients with two port ids each can announce four players for two places, under
equal ids; the table and the buffer overflow, and a cover without a path is left
to `web_ends`.  The buffers are as many as the players in the code; one is used
here so that it can be full while both players are there, and two were tried as
well (7.8 million states).  The constraint `Running` leaves out what follows a
`cws_stop`: the properties are about the running server, and `cws` and
`web_ends` stop it.  `CHECK_DEADLOCK FALSE` stands in the three configurations
of the server, which has nothing left to do when all connections are over.

Four frames are enough for a fragment, a control frame, a second fragment and
what follows the message.  Three characters of text reach every branch after
every other.  Two names and two places, of which web players take some, make the
Linux table overflow; three pending signals let a name go, come back and speak
before any of them is handled.  In Darwin a web player sits before the adapter's
own, whose removal moves the snapshot.  Three sessions of two applications share
one. Two initialisations are the failed one and its retry, with two server
threads because the first may still be there.  `threads` with two clients has 199
164 states and no violation either. Symmetry is used on connections, port ids,
names, calls and texts in the runs without liveness.

Fairness.  A thread inside the library is scheduled (WF).  A mutex that is
released again and again is eventually granted (SF on the steps that take it):
neither POSIX nor Windows promises this, a scheduler that is not adversarial
delivers it.  An adapter ends the cycle it started: this is what the adapters'
code does except on the two error paths of `web.c` listed under hazards.  In
`WindowsAdapter` the thread polls (WF), and `GetSessions` and the reading of a
session do not fail for ever (SF).  In `Lifecycle` a call goes on, the desktop's
thread starts and leaves its sections (WF), and looks at its exit condition
between two of them (SF); its clients need not.  In
`WebAdapter` a client thread gets on once it has left its loop, `cws_send` ends
(a peer that stops reading would block it), and `cws_stop` goes on once called.
No fairness is assumed of adapters starting cycles, of the application, of
answers to events, or of connections, frames and requests.

## 4. What is proved

TLAPS checks these for every value of the constants; only the constants'
assumptions are used.

*SequentialProofs*, the loop.  `IInv` adds to the types that ids are slot numbers
and that free slots hold `WNP_DEFAULT_PLAYER`, and that the loop's locals are
what the closed form gives for the slots looked at so far (`LoopInv`).  It is
needed because the result says nothing about how the candidate was reached:
whether the next player replaces it depends on `found_active`, i.e. on the
history, which `Found` recovers from the table.  One lemma per branch shows that
adding one slot to the set changes the selection as the branch does.  Hence
`ScanTypeOK`, `ScanSelects` (the property of the run `sequential`), and
`ScanNeverHidden` and `ScanPlayingWins`, which no run repeats.

*SequentialProofs*, the text.  The table of `cws.c` is used from a byte to the
next, so what it makes of a text is a recursive function (`RunExists`).
`AcceptsUtf8` says for a text of any length that the table ends in its accepting
state exactly if the text is UTF-8 as `Unicode` defines it.  Between two
characters the table is in state 0, and from there one lemma per length of a
character (`OneByteOfTable` ... `FourBytesOfTable`) says which bytes lead back to
0; `PieceRun` takes the table over one character, and the text is then read
character by character.  Where an induction is needed, the theorem of the library
that takes a predicate cannot be used here, so the proof takes the least
position at which the claim fails and refutes it.

*SequentialProofs*, the frames.  `MessagesAreWhole` and `TextIsChecked` compare
what was delivered with what was received, and hold between two frames only
because the fields that outlive a frame say what is pending.  `Gathering` says
so: `op` is the opcode of the first fragment of the message that is still open
(`OpenOf`), `msg` what its fragments carry, and if each of these fragments is
UTF-8 by itself, so is `msg`, and `utf8_state` is 0.  It cannot say more, for the
reason given under *Findings*: the last fragment is checked by itself, without
the state in which the ones before it have ended.  `CarriedAppend`, `OpenAppend`
and `CountAppend` say how the fragments of the open message, and the number of
messages, change when one more frame has come.  Hence `FramesTypes`,
`FramesAreWhole` and `FramesAreChecked`, for frames of any payloads in any
number.

*SequentialProofs*, the conversion.  For a text that is UTF-8 the loop is always
at the beginning of a character, and what it has written are the units of all the
characters before it (`Converting`).  One lemma per length of a character
(`TwoBytesSpell` ...) takes the reference's code point and the code's shifts to
the same number.  After a character of four bytes the units are wrong (see
*Findings*) and only their number is kept: it is the right one if the output has
room for the whole text.  Hence `AlwaysConverts`, for texts and outputs of any
length.

*SequentialProofs*, the controls.  `ControlsInv` is the types and that the
position is inside the track.  The rest of `ControlsAgree` holds in any such
state and is arithmetic: a subtraction of unsigned numbers wraps once at most
(`Wraps`), so a seek back too far is behind the end of any track for the seeks
named in the property, and adding half of the divisor before dividing gives the
number itself back (`Rounds`).  Percentages are fractions in the model and
floats in the code, whose error stays below the half second that is added for
tracks of up to 2^20 seconds.  Hence `ControlsTypes` and `ControlsAlwaysAgree`.

*WnpAppProofs*, the core.  `BasicInv` is the types, the lock discipline and
`ThreadShape`: which locals go with which program counter.  Types alone are not
inductive (an entry read must be a slot when it is looked up, the index must be
0 when a loop starts, `mine` must be empty outside a cycle).  One lemma per
group of actions; hence `CoreTypeOK` and `CoreCycleHoldsLock`, which is proved
and not in a run: `update_cycle` is set exactly while the thread that set it has
the lock.

`TableInv` ties a slot's contents to its owner and
platform and the count of web players to the table; it is about any number of
adapters in any phase, as only the thread with the lock writes (`CoreWebCount`,
and `CoreSlotKeepsOwner` as an action property).  `QueueInv` is the invariant of
the three queues.  `EveryEntryIsVisited` alone is not inductive: when a thread
clears an entry the others must still be ahead of theirs, so the entries of a
queue differ (`EntriesDiffer`), a slot that is used again while its former
player's removal is queued belongs to a thread that will come to that entry
(`FormerIsVisited`), and what a thread in a cycle may still update or remove is
in no queue (`MineIsFresh`).  Since entries differ and a queue is as
long as the table, there is always room: `CoreNothingDropped`.

*WnpAppProofs*, one adapter.  With one adapter thread and no other (`OneAdapter`,
the instance of the run `one_adapter`), `Alone` says that the thread's locals are
up to date whenever they are used, and the active player is the selected one
before and after a recalculation: `AloneActiveIsFresh`.  A second invariant says,
for each program counter, how what was announced differs from the table by what
is still in the queues.  From it follow `AloneMirrorAgrees` and
`AloneKeepsContract`: each step of the core maps to a step of `CallbackContract`
or to none.  With two adapter threads all three are false (see *Findings*), so
the hypothesis is needed.

*EventResultsProofs.*  `EventTypeOK` holds on every path.  `EventResultIsOwn` is
about the paths that take `players_lock` and the orderly applications: while a
thread is between reading the counter and its platform's answer it has the lock
(`LockInv`), the cell it is about to return is nobody's and is cleared before it
is returned (`CounterInv`); cells, events, callers and requests belong to one
another one to one (`OneHolder` ... `Requested`); and a cell says no more than
the truth about its event (`CellIsTrue`).  The conjunct that fails without the
lock is `CounterInv`, which is what the run `events_race` shows.

*WebAdapterProofs*, the server.  `NoDescriptorLeaks` is not inductive: that a
thread which leaves has closed the descriptor it was made for needs that its slot
is not marked closed while the descriptor is open and that the thread is on that
slot (`OpenSlots`), that a connection has no thread while the server thread
places it (`Accepted`), and that a send comes back to the client's loop
(`SendsReturn`). `OwnConnection` needs that the slot is still there when its
thread is created (`Placed`).  `SlotInv` is all of these.  The steps in which a
thread keeps its slot are shown once (`Works`); each step that opens or closes a
slot has a lemma. Hence `CwsTypeOK`, `CwsNoDescriptorLeaks`, `CwsOwnConnection`.

*WebAdapterProofs*, the adapter.  Each action of the handlers is one the server
allows its user or leaves the server alone (`WebSteps`), so `WebImplementsServer`:
`WebSpec => Spec`, and `SlotInv` holds under the adapter (`WebSlots`).  On top of
it there are three invariants, each resting on the one before.  `OwnerInv` ties
what is kept for a client to the connection: every player and every buffer
belongs to a connection that is in the slot they name (`AllOwned`), a handler is
on that slot while it handles a message, and a request in progress has
`players_lock` and a player that is still there (`Requests`).  It is what makes
`NothingOutlives` and `RequestReachesOwner` inductive: a slot is only given away
by a thread that has been through both halves of `on_close`, and while a request
is on its way nobody can remove its player.  `LockInv` says that the lock of a
slot in use is live and that a thread that sends has it, unless somebody else's
unlock has broken it.  `WebSendsExclusive` is a theorem of the adapter and not of
the server alone, because it rests on the caller: a request is sent under
`players_lock` for a player that is there, so its slot is in use and the lock it
waits for is not a terminated one, which would let it through.  `TableInv` reads
`TableFollowsClients` as two inclusions, player by player, which is what the
messages change; `WebCoverIsOwn` needs `OwnerInv` to know that a buffer found by
slot and port id is not a former client's.  The one assumption added for this is
that `Nothing` is not a player (`NothingAssumption`).

*LinuxAdapterProofs.*  `OneEach` says which name is between its player and its
subscription.  `Heard`, `Present` and `Shown` are about the queue: the last
owner signal queued for a name says whether it is owned now, and the last change
what it says now, unless the name is stale (`Heard`); a name without a queued
owner signal is in the table exactly if it is owned (`Present`); and a player
without a queued change says what its owner says (`Shown`).  Only the last
signals matter, which is why `stale` looks at them, too.
Hence `LinuxTypeOK`, `LinuxOneSubscriptionEach` and `LinuxFollowsBus`, for a
queue of any length.

*WindowsAdapterProofs.*  A cycle marks all its players, takes the mark off those
whose session is listed and removes what is still marked.  `WindowsInv` says that
the slots a cycle still has to read hold players (`CycleInOwn`: it has the lock,
but the system changes under it), that a player keeps the application id of its
session (`OfItsApp`), and in each phase which players are unmarked (`Survivors`):
none at first, then at most the first one of each id, because the search by id
finds no other.  Hence `WindowsTypes`, and `WindowsCycles`: of the players it
began with, a cycle that got the list of sessions leaves none that is marked and
no two of one id.  No run states these two; the run `threads` has `Converges`,
whose safety half this is.

*DarwinAdapterProofs.*  `TypeOK` says which slot the player is in; that is all
`DarwinOthersUntouched` needs.  For `DarwinShowsMedia` a call that no other
overlaps (`Sole`) has, answer by answer, read the media as they are now, or a
notification is still to come.

*LifecycleProofs.*  The invariant has one conjunct per part: what each program
counter of the application's call implies (`AppInv`), what an undone init has
taken back (`Undone`), the server's descriptor and threads (`WebInv`), the
desktop's thread (`Desktop`), and the holder of `players_lock` against the
threads inside (`Mutual`).  Hence `LifecycleTypeOK`,
`LifecycleFailedInitIsUndone` and `LifecycleLocksHold`.

The inductive invariants were checked with TLC on the instances of the runs
before they were proved.

What is only model-checked, and why:

* liveness (`Converges`, `ClosingEnds`, `ServerEnds`, `CallsReturn` and the
  others): it rests on fairness and `ENABLED`, which the provers do not handle;
* the table of `WindowsAdapter` from one poll to the next: `Converges` is
  liveness, and no state predicate describes the table between two polls, since
  one poll may announce an application twice and the next takes it back
  (`WindowsCycles` is about the players that were there before it);
* `TypesOK` of the `MC` modules with a `subject`, and what those modules read off
  an instance: the theorems are about the module itself, for instance
  `DarwinShowsMedia` for `ShowsMedia` of `MCSignals`.

## 5. Findings

Each is a run that TLC must find violated; the property says what a header line
says.

* `added_race` – two deliveries at once: a player is never announced.
* `events_race` – two events share an id.

Seen in the code and true of the models, without a run of their own:

* `wnp.h:208` promises the most recent audible player; with paused@3, playing@2,
  playing@1 the loop chooses playing@1 (`wnp.c:129`);
* two recalculations can store in the wrong order, and the active player is then
  a slot that was freed (`wnp.c:140`);
* `wnp_get_active_player` returns true with nothing copied (`wnp.c:645-655`), and
  `wnp_get_player` with a player removed before the copy (`wnp.c:641`);
* a desktop browser that is hidden when its queue entry is delivered is never
  announced, not even when it becomes visible; no concurrency needed
  (`wnp.c:635`);
* the removed callback comes after the removal, `wnp.h:171` says before
  (`wnp.c:305`);
* a wait that timed out returns success if the answer comes between its two looks
  at the cell (`wnp.c:819-827`);
* a full table, or a cover without a path, leaves `players_lock` locked for ever
  (`web.c:271`, `web.c:237`): `TableFollowsClients` and `ClosingEnds` end there;
* a client thread can release the lock of the client that took over its slot
  (`cws.c:710`): `SendsExclusive` without its exemption is violated;
* a client accepted while `cws_stop` runs stays connected (`cws.c:803-812`);
* `wnp_uninit` leaves `is_initialized` set, so the library cannot be initialised
  again and a second `wnp_uninit` terminates the mutexes again (`wnp.c:609`);
* on Linux, undoing an init that failed for want of a bus joins a thread that was
  never made (`linux.c:636`), and a loop that is quit before it runs is freed and
  may run for ever (`linux.c:633`);
* after a failed init, client threads of its server can unlock `players_lock`
  under the retry's threads (`cws.c:758`, `stray` in `Lifecycle`);
* a text fragment that ends inside a character is fine only before the last one:
  the last is checked by itself, so a split character is refused there and a
  truncated one before it accepted (`cws.c:456`); a close code with a reason is
  not checked (`cws.c:210`);
* characters of four bytes are converted wrongly: the topmost bits are not
  shifted, and the low surrogate is written first (`wnp.c:758-769`); the loop goes
  on while either size is not used up, so the output must have room for the whole
  text (`wnp.c:707`);
* a revert past the start goes to the end of the track (`wnp.c:892`), and a
  control computed from the copy of an earlier track can put the position behind
  the end of the new one; `ControlsAgree` exempts only that;
* `wnp.h:236` says 6969 seconds are 1:59:09, the code and the line for the padded
  form say 1:56:09;
* a Linux player that finds the table full is not tried again (`linux.c:424`), and
  a name that changes hands keeps the old owner's words until the new one speaks
  (`linux.c:403`);
* what Darwin loses it does not make up for: an update while another call is under
  way or while a slot before the player's is free, the state after an event the
  system disregards (`darwin.m:125, 138, 293`).

## 6. Plan

Every module of the plan is written: `WnpPlayer`, `ActiveScan`, `WnpCore`,
`WnpApp`, `CallbackContract`, `EventResults`, `CwsServer`, `WebAdapter`,
`CwsFrames`, `LinuxAdapter`, `WindowsAdapter`, `DarwinAdapter`, `Lifecycle`,
`Utilities`, `Utf16`.  What is left is to prove more about them:

1. `WnpApp` with two adapters: what of `CallbackContract` is left of it (see
   `added_race`), for instance for a slot only one thread delivers;
2. lookups: what `wnp_get_player` returns is a player that was in the slot at
   some moment of the call, where no update runs beside it.

Runs of later modules that answer a question of an earlier one better replace
it.

### Not modelled

* Image codecs, base64 and cover files; logging; the rest of the vendored
  `thread.h`; examples and build files: no state of their own, or pure I/O.
* The WebSocket handshake's parsing and hash, masks and the 16- and 64-bit length
  fields: sequential byte work without a property beyond its formula.
* The parsing of the web extension's text and of MPRIS, GSMTC and MediaRemote
  properties field by field: a player's text is one value.  The two things in it
  the core looks at, the state and `active_at`, are chosen freely in `WnpCore`.
* `wnp_format_seconds`, `wnp_get_remaining_seconds`: one expression each.
* Liveness of the Linux and Darwin adapters: they only react, and say what they
  know as soon as the signals are handled, which `FollowsBus` and `ShowsMedia`
  state.  What stays wrong after a loss stays wrong until the next signal.
* Exceptions of the Windows media API.
