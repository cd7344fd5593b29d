------------------------------ MODULE ActiveScan ------------------------------
(***************************************************************************)
(* The loop of `_wnp_recalculate_active_player` (wnp.c:110-137) that picks *)
(* the active player.  players_lock is held from the first step to the    *)
(* last, so the table does not change under it: the state is that of one  *)
(* thread, and each disjunct of Next is one branch of the loop's body.     *)
(***************************************************************************)
EXTENDS WnpPlayer, FiniteSets

CONSTANT Rows   \* what a slot of the table can hold; its id is the slot's number

ASSUME RowsAssumption == Rows \subseteq Player

VARIABLES
  players,               \* _wnp_state.players
  total_web_players,     \* _wnp_state.total_web_players
  i,                     \* the loop's index
  active_player_id,      \* the loop's candidate (a local of the function)
  max_active_at,
  found_active

vars == <<players, total_web_players, i, active_player_id, max_active_at, found_active>>

(* A free slot holds WNP_DEFAULT_PLAYER, a used one a player whose id is   *)
(* the slot's number; the counter is the number of web players.            *)
Stored(s, row) ==
  IF row = WNP_DEFAULT_PLAYER THEN row ELSE [row EXCEPT !.id = s]

WebSlots == {s \in Slots : players[s].platform = "WEB"}

Init ==
  /\ \E table \in [Slots -> Rows \cup {WNP_DEFAULT_PLAYER}] :
       players = [s \in Slots |-> Stored(s, table[s])]
  /\ total_web_players = Cardinality(WebSlots)
  /\ i = 0
  /\ active_player_id = -1
  /\ max_active_at = 0
  /\ found_active = FALSE

cur == players[i]

(* Mutant of Advance: a hidden slot counts twice.                           *)
AdvanceTwice == /\ i' = i + (IF Hidden(cur, total_web_players) THEN 2 ELSE 1)
                /\ UNCHANGED <<players, total_web_players>>

Advance == /\ i' = i + 1
           /\ UNCHANGED <<players, total_web_players>>

Take == /\ active_player_id' = cur.id
        /\ max_active_at' = cur.active_at

Keep == UNCHANGED <<active_player_id, max_active_at, found_active>>

SkipHidden ==
  /\ i < MaxPlayers
  /\ Hidden(cur, total_web_players)
  /\ Keep
  /\ Advance

Look == i < MaxPlayers /\ ~Hidden(cur, total_web_players)

(* Mutant of BeatsAudibly: ties replace the candidate.                      *)
BeatsOrTies == Audible(cur) /\ cur.active_at >= max_active_at

BeatsAudibly == Audible(cur) /\ cur.active_at > max_active_at

TakeAudible ==
  /\ Look
  /\ BeatsAudibly
  /\ Take
  /\ found_active' = TRUE
  /\ Advance

TakePlaying ==
  /\ Look
  /\ ~BeatsAudibly
  /\ Playing(cur) /\ ~found_active
  /\ Take
  /\ UNCHANGED found_active
  /\ Advance

IdleButFresher == ~Playing(cur) /\ cur.active_at > max_active_at /\ ~found_active

is_active_playing == active_player_id # -1 /\ Playing(players[active_player_id])

TakeIdle ==
  /\ Look
  /\ IdleButFresher /\ ~is_active_playing
  /\ Take
  /\ UNCHANGED found_active
  /\ Advance

Pass ==
  /\ Look
  /\ ~BeatsAudibly
  /\ Playing(cur) => found_active
  /\ IdleButFresher => is_active_playing
  /\ Keep
  /\ Advance

Done == i = MaxPlayers /\ UNCHANGED vars

Next == SkipHidden \/ TakeAudible \/ TakePlaying \/ TakeIdle \/ Pass \/ Done

Spec == Init /\ [][Next]_vars /\ WF_vars(Next)

-----------------------------------------------------------------------------
Looked == {s \in Slots : s < i /\ ~Hidden(players[s], total_web_players)}

Returned == i = MaxPlayers

TypeOK ==
  /\ players \in [Slots -> Player]
  /\ total_web_players \in Nat
  /\ i \in 0..MaxPlayers
  /\ active_player_id \in Slots \cup {-1}
  /\ max_active_at \in Nat
  /\ found_active \in BOOLEAN

(* wnp.c:118-136: whatever the table holds, the loop returns exactly what  *)
(* the closed form says: the freshest audible player once one beats the    *)
(* player held before it, the last playing one if none does, else the      *)
(* freshest idle one, and -1 when nothing was ever active.                 *)
ResultIsSelected ==
  Returned => Selected(players, Visible(players, total_web_players), active_player_id)

(* wnp.c:120: the active player is always one an application can see: a    *)
(* used slot that is not hidden behind a web player, so that              *)
(* `wnp_get_active_player` would find it.                                  *)
NeverHiddenOrEmpty ==
  active_player_id # -1 =>
    /\ players[active_player_id].id = active_player_id
    /\ ~Hidden(players[active_player_id], total_web_players)

(* wnp.c:126-135: a visible playing player is never passed over for an     *)
(* idle one, however recent the idle one's timestamp is.                   *)
PlayingWins ==
  Returned /\ (\E s \in Visible(players, total_web_players) : Playing(players[s]))
    => active_player_id # -1 /\ Playing(players[active_player_id])

(* wnp.c:126-135, the loop invariant behind the result: what is held is    *)
(* what the closed form selects from the slots looked at so far, and       *)
(* found_active says that an audible player has beaten what was held.      *)
LoopInv ==
  /\ Selected(players, Looked, active_player_id)
  /\ found_active <=> Found(players, Looked)
  /\ max_active_at = IF active_player_id = -1 THEN 0
                     ELSE players[active_player_id].active_at
=============================================================================
