------------------------------ MODULE WnpPlayer ------------------------------
(***************************************************************************)
(* The vocabulary every module of the library core shares: the slots of   *)
(* the player table `_wnp_state.players`, the fields of `wnp_player_t`    *)
(* that the core looks at, and the two questions it asks of a slot (is it *)
(* hidden behind a web player? is it the best candidate to be active?).   *)
(* Titles, covers, positions and the other fields the core only copies    *)
(* are left out.                                                           *)
(***************************************************************************)
EXTENDS Integers

CONSTANTS
  MaxPlayers,      \* WNP_MAX_PLAYERS
  Owners           \* who `_platform_data` can belong to: the adapters

ASSUME MaxPlayersAssumption == MaxPlayers \in Nat \ {0}
ASSUME OwnersAssumption     == "NULL" \notin Owners

Slots == 0..(MaxPlayers - 1)

States    == {"PLAYING", "PAUSED", "STOPPED"}
Platforms == {"NONE", "WEB", "NATIVE"}

(* `data` is `_platform_data`: NULL, or the allocation of the adapter that *)
(* added the player.                                                        *)
Player ==
  [ id             : Slots \cup {-1},
    platform       : Platforms,
    is_web_browser : BOOLEAN,
    state          : States,
    volume         : Nat,
    active_at      : Nat,
    data           : Owners \cup {"NULL"} ]

WNP_DEFAULT_PLAYER ==
  [ id |-> -1, platform |-> "NONE", is_web_browser |-> FALSE,
    state |-> "STOPPED", volume |-> 100, active_at |-> 0, data |-> "NULL" ]

(* A browser reported by the desktop is skipped while the browser          *)
(* extension itself reports players.                                       *)
Hidden(player, web) == web > 0 /\ player.is_web_browser

Playing(player) == player.state = "PLAYING"
Audible(player) == Playing(player) /\ player.volume # 0

-----------------------------------------------------------------------------
(***************************************************************************)
(* What the loop of `_wnp_recalculate_active_player` selects, without the *)
(* loop.  ps is the table, S the set of slots the loop has looked at and  *)
(* not skipped.                                                            *)
(***************************************************************************)

(* No slot of S plays: the first one with the greatest non-zero timestamp. *)
Freshest(ps, S, r) ==
  IF \A s \in S : ps[s].active_at = 0
  THEN r = -1
  ELSE /\ r \in S
       /\ ps[r].active_at > 0
       /\ \A s \in S : /\ ps[s].active_at <= ps[r].active_at
                       /\ s < r => ps[s].active_at < ps[r].active_at

(* While nothing audible was found, the slot the loop holds before it      *)
(* reaches s is the last playing one, or the freshest idle one.            *)
HeldBefore(ps, S, s, q) ==
  /\ q \in S /\ q < s
  /\ \A p \in S : p < s /\ Playing(ps[p]) => Playing(ps[q]) /\ p <= q

(* s is audible and beats whatever is held when the loop reaches it.       *)
Rises(ps, S, s) ==
  /\ s \in S
  /\ Audible(ps[s])
  /\ ps[s].active_at > 0
  /\ \A q \in S : HeldBefore(ps, S, s, q) => ps[q].active_at < ps[s].active_at

Found(ps, S) == \E s \in S : Rises(ps, S, s)

LastPlaying(ps, S, r) ==
  /\ r \in S
  /\ Playing(ps[r])
  /\ \A s \in S : Playing(ps[s]) => s <= r

(* The first of the freshest audible slots from the first riser on.        *)
FreshestAudible(ps, S, r) ==
  /\ r \in S
  /\ Audible(ps[r])
  /\ \E b \in S : b <= r /\ Rises(ps, S, b)
  /\ \A s \in S :
       Audible(ps[s]) /\ (\E b \in S : b <= s /\ Rises(ps, S, b)) =>
         /\ ps[s].active_at <= ps[r].active_at
         /\ s < r => ps[s].active_at < ps[r].active_at

Selected(ps, S, r) ==
  IF Found(ps, S) THEN FreshestAudible(ps, S, r)
  ELSE IF \E s \in S : Playing(ps[s]) THEN LastPlaying(ps, S, r)
  ELSE Freshest(ps, S, r)

Visible(ps, web) == {s \in Slots : ~Hidden(ps[s], web)}
=============================================================================
