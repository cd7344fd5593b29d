--------------------------- MODULE SequentialProofs ---------------------------
(***************************************************************************)
(* The parts of the library that one thread runs, proved for all values of *)
(* their constants: the loop that selects the active player, the assembly  *)
(* of a message from frames and the table that checks its text, the        *)
(* conversion to UTF-16, and the controls.                                 *)
(***************************************************************************)
EXTENDS ActiveScan, CwsFrames, Utf16, Utilities,
        TLAPS, FiniteSetTheorems, SequenceTheorems, WellFoundedInduction

-----------------------------------------------------------------------------
(* THE LOOP OF _wnp_recalculate_active_player, for every number of slots    *)
(* and every table: it returns what the closed form Selected says.  The     *)
(* argument is a loop invariant: after i slots the candidate is what        *)
(* Selected says of the slots looked at, max_active_at its timestamp, and   *)
(* found_active whether an audible player has risen.                        *)

(* A slot already looked at rises or not whatever comes after it: wnp.c:118 *)
(* visits the slots in order.                                               *)
LEMMA RisesStable ==
  ASSUME NEW ps \in [Slots -> Player], NEW S \in SUBSET Slots, NEW k \in Slots,
         \A s \in S : s < k,
         NEW s \in S
  PROVE  Rises(ps, S \cup {k}, s) <=> Rises(ps, S, s)
<1>1. \A q \in S \cup {k} : HeldBefore(ps, S \cup {k}, s, q) <=> HeldBefore(ps, S, s, q)
  BY MaxPlayersAssumption DEF HeldBefore, Slots
<1>2. ~HeldBefore(ps, S, s, k)
  BY MaxPlayersAssumption DEF HeldBefore, Slots
<1> QED
  BY <1>1, <1>2 DEF Rises

(* wnp.c:122: while nothing has been found, the next slot rises exactly     *)
(* when it is audible and beats max_active_at, the held player's timestamp. *)
LEMMA RisesNext ==
  ASSUME NEW ps \in [Slots -> Player], NEW S \in SUBSET Slots, NEW k \in Slots,
         \A s \in S : s < k,
         NEW c \in Slots \cup {-1}, Selected(ps, S, c), ~Found(ps, S)
  PROVE  Rises(ps, S \cup {k}, k) <=>
           Audible(ps[k]) /\ ps[k].active_at > (IF c = -1 THEN 0 ELSE ps[c].active_at)
<1> DEFINE when(s) == ps[s].active_at
<1>0. /\ \A s \in Slots : when(s) \in Nat
      /\ -1 \notin Slots
      /\ Slots \subseteq Int
  BY MaxPlayersAssumption DEF Player, Slots
<1>1. CASE \E s \in S : Playing(ps[s])
  <2>1. LastPlaying(ps, S, c)
    BY <1>1 DEF Selected
  <2>2. \A q \in S : HeldBefore(ps, S \cup {k}, k, q) <=> q = c
    BY <2>1, <1>0 DEF HeldBefore, LastPlaying
  <2>3. ~HeldBefore(ps, S \cup {k}, k, k)
    BY <1>0 DEF HeldBefore
  <2>4. c \in S /\ c # -1
    BY <2>1, <1>0 DEF LastPlaying
  <2>5. (\A q \in S \cup {k} : HeldBefore(ps, S \cup {k}, k, q) => when(q) < when(k))
        <=> when(c) < when(k)
    BY <2>2, <2>3, <2>4
  <2>6. /\ when(c) \in Nat /\ when(k) \in Nat
        /\ (IF c = -1 THEN 0 ELSE ps[c].active_at) = when(c)
    BY <2>4, <1>0
  <2>7. Rises(ps, S \cup {k}, k) <=> Audible(ps[k]) /\ when(k) > 0 /\ when(c) < when(k)
    BY <2>5 DEF Rises
  <2> HIDE DEF when
  <2>8. Rises(ps, S \cup {k}, k) <=> Audible(ps[k]) /\ when(k) > when(c)
    BY <2>6, <2>7
  <2> QED
    BY <2>6, <2>8 DEF when
<1>2. CASE ~ \E s \in S : Playing(ps[s])
  <2>1. Freshest(ps, S, c)
    BY <1>2 DEF Selected
  <2>2. \A q \in S : HeldBefore(ps, S \cup {k}, k, q)
    BY <1>2, <1>0 DEF HeldBefore
  <2>3. ~HeldBefore(ps, S \cup {k}, k, k)
    BY <1>0 DEF HeldBefore
  <2>4. CASE \A s \in S : when(s) = 0
    BY <2>1, <2>2, <2>3, <2>4, <1>0 DEF Rises, Freshest
  <2>5. CASE ~ \A s \in S : when(s) = 0
    <3>1. c \in S /\ c # -1 /\ when(c) > 0 /\ \A s \in S : when(s) <= when(c)
      BY <2>1, <2>5, <1>0 DEF Freshest
    <3> QED
      BY <3>1, <2>2, <2>3, <1>0 DEF Rises
  <2> QED
    BY <2>4, <2>5
<1> QED
  BY <1>1, <1>2

(* Found, one slot later.                                                   *)
LEMMA FoundNext ==
  ASSUME NEW ps \in [Slots -> Player], NEW S \in SUBSET Slots, NEW k \in Slots,
         \A s \in S : s < k,
         NEW c \in Slots \cup {-1}, Selected(ps, S, c)
  PROVE  Found(ps, S \cup {k}) <=>
           \/ Found(ps, S)
           \/ Audible(ps[k]) /\ ps[k].active_at > (IF c = -1 THEN 0 ELSE ps[c].active_at)
<1>1. CASE Found(ps, S)
  BY <1>1, RisesStable DEF Found
<1>2. CASE ~Found(ps, S)
  BY <1>2, RisesStable, RisesNext DEF Found
<1> QED
  BY <1>1, <1>2

(* The candidate is -1 or a slot looked at.                                 *)
LEMMA SelectedIn ==
  ASSUME NEW ps, NEW S, NEW c, Selected(ps, S, c)
  PROVE  c \in S \cup {-1}
BY DEF Selected, FreshestAudible, LastPlaying, Freshest

-----------------------------------------------------------------------------
(* One lemma per branch of the loop's body: the candidate that the branch   *)
(* leaves is the one Selected names for one slot more.                      *)

HeldAt(ps, c) == IF c = -1 THEN 0 ELSE ps[c].active_at

Beats(ps, c, k) == Audible(ps[k]) /\ ps[k].active_at > HeldAt(ps, c)

(* wnp.c:122-125                                                            *)
LEMMA SelectAudible ==
  ASSUME NEW ps \in [Slots -> Player], NEW S \in SUBSET Slots, NEW k \in Slots,
         \A s \in S : s < k,
         NEW c \in Slots \cup {-1}, Selected(ps, S, c),
         Beats(ps, c, k)
  PROVE  Selected(ps, S \cup {k}, k)
<1> DEFINE T == S \cup {k}
           when(s) == ps[s].active_at
<1>0. /\ \A s \in Slots : when(s) \in Nat
      /\ -1 \notin Slots
      /\ Slots \subseteq Int
  BY MaxPlayersAssumption DEF Player, Slots
<1>1. Found(ps, T)
  BY FoundNext DEF Beats, HeldAt
<1>2. CASE Found(ps, S)
  <2>1. FreshestAudible(ps, S, c)
    BY <1>2 DEF Selected
  <2>2. c \in S /\ c # -1 /\ when(c) < when(k)
    BY <2>1, <1>0 DEF FreshestAudible, Beats, HeldAt
  <2>3. \E b \in T : b <= k /\ Rises(ps, T, b)
    BY <1>1, <1>0 DEF Found
  <2>4. \A s \in S : Audible(ps[s]) /\ (\E b \in T : b <= s /\ Rises(ps, T, b))
                     => when(s) <= when(c)
    <3> SUFFICES ASSUME NEW s \in S, Audible(ps[s]),
                        NEW b \in T, b <= s, Rises(ps, T, b)
                 PROVE  when(s) <= when(c)
      OBVIOUS
    <3>1. b \in S
      BY <1>0
    <3>2. Rises(ps, S, b)
      BY <3>1, RisesStable
    <3> QED
      BY <3>1, <3>2, <2>1 DEF FreshestAudible
  <2>5. FreshestAudible(ps, T, k)
    BY <2>2, <2>3, <2>4, <1>0 DEF FreshestAudible, Beats
  <2> QED
    BY <2>5, <1>1 DEF Selected
<1>3. CASE ~Found(ps, S)
  <2>1. Rises(ps, T, k)
    BY <1>3, RisesNext DEF Beats, HeldAt
  <2>2. \A b \in S : ~Rises(ps, T, b)
    BY <1>3, RisesStable DEF Found
  <2>3. FreshestAudible(ps, T, k)
    BY <2>1, <2>2, <1>0 DEF FreshestAudible, Beats
  <2> QED
    BY <2>3, <1>1 DEF Selected
<1> QED
  BY <1>2, <1>3

(* wnp.c:126-128                                                            *)
LEMMA SelectPlaying ==
  ASSUME NEW ps \in [Slots -> Player], NEW S \in SUBSET Slots, NEW k \in Slots,
         \A s \in S : s < k,
         NEW c \in Slots \cup {-1}, Selected(ps, S, c),
         ~Beats(ps, c, k), Playing(ps[k]), ~Found(ps, S)
  PROVE  Selected(ps, S \cup {k}, k)
<1>1. ~Found(ps, S \cup {k})
  BY FoundNext DEF Beats, HeldAt
<1>2. LastPlaying(ps, S \cup {k}, k)
  BY MaxPlayersAssumption DEF LastPlaying, Slots
<1> QED
  BY <1>1, <1>2 DEF Selected

(* wnp.c:129-134                                                            *)
LEMMA SelectIdle ==
  ASSUME NEW ps \in [Slots -> Player], NEW S \in SUBSET Slots, NEW k \in Slots,
         \A s \in S : s < k,
         NEW c \in Slots \cup {-1}, Selected(ps, S, c),
         ~Playing(ps[k]), ps[k].active_at > HeldAt(ps, c), ~Found(ps, S),
         c = -1 \/ ~Playing(ps[c])
  PROVE  Selected(ps, S \cup {k}, k)
<1>0. /\ \A s \in Slots : ps[s].active_at \in Nat
      /\ -1 \notin Slots
      /\ Slots \subseteq Int
  BY MaxPlayersAssumption DEF Player, Slots
<1>1. ~Found(ps, S \cup {k})
  BY FoundNext DEF Audible, HeldAt
<1>2. ~ \E s \in S : Playing(ps[s])
  BY <1>0 DEF Selected, LastPlaying
<1>3. Freshest(ps, S, c)
  BY <1>2 DEF Selected
<1>4. \A s \in S : ps[s].active_at < ps[k].active_at
  <2>1. CASE \A s \in S : ps[s].active_at = 0
    BY <2>1, <1>3, <1>0 DEF Freshest, HeldAt
  <2>2. CASE ~ \A s \in S : ps[s].active_at = 0
    <3>1. c \in S /\ c # -1 /\ \A s \in S : ps[s].active_at <= ps[c].active_at
      BY <2>2, <1>3, <1>0 DEF Freshest
    <3> QED
      BY <3>1, <1>0 DEF HeldAt
  <2> QED
    BY <2>1, <2>2
<1>5. ps[k].active_at > 0
  BY <1>0 DEF HeldAt
<1>6. Freshest(ps, S \cup {k}, k)
  BY <1>4, <1>5, <1>0 DEF Freshest
<1> QED
  BY <1>1, <1>2, <1>6 DEF Selected

(* The body takes no branch: the candidate stays.                           *)
LEMMA SelectPass ==
  ASSUME NEW ps \in [Slots -> Player], NEW S \in SUBSET Slots, NEW k \in Slots,
         \A s \in S : s < k,
         NEW c \in Slots \cup {-1}, Selected(ps, S, c),
         ~Beats(ps, c, k),
         Playing(ps[k]) => Found(ps, S),
         ~Playing(ps[k]) /\ ps[k].active_at > HeldAt(ps, c) /\ ~Found(ps, S)
           => c # -1 /\ Playing(ps[c])
  PROVE  Selected(ps, S \cup {k}, c)
<1> DEFINE T == S \cup {k}
           when(s) == ps[s].active_at
<1>0. /\ \A s \in Slots : when(s) \in Nat
      /\ -1 \notin Slots
      /\ Slots \subseteq Int
  BY MaxPlayersAssumption DEF Player, Slots
<1>1. CASE Found(ps, S)
  <2>1. FreshestAudible(ps, S, c)
    BY <1>1 DEF Selected
  <2>2. c \in S /\ c # -1 /\ c < k
    BY <2>1, <1>0 DEF FreshestAudible
  <2>3. \E b \in T : b <= c /\ Rises(ps, T, b)
    BY <2>1, RisesStable DEF FreshestAudible
  <2>4. \A s \in S : Audible(ps[s]) /\ (\E b \in T : b <= s /\ Rises(ps, T, b))
                     => when(s) <= when(c) /\ (s < c => when(s) < when(c))
    <3> SUFFICES ASSUME NEW s \in S, Audible(ps[s]),
                        NEW b \in T, b <= s, Rises(ps, T, b)
                 PROVE  when(s) <= when(c) /\ (s < c => when(s) < when(c))
      OBVIOUS
    <3>1. b \in S
      BY <1>0
    <3>2. Rises(ps, S, b)
      BY <3>1, RisesStable
    <3> QED
      BY <3>1, <3>2, <2>1 DEF FreshestAudible
  <2>5. Audible(ps[k]) => when(k) <= when(c)
    BY <2>2, <1>0 DEF Beats, HeldAt
  <2>6. FreshestAudible(ps, T, c)
    <3>1. c \in T /\ Audible(ps[c])
      BY <2>1 DEF FreshestAudible
    <3>2. \A s \in T : Audible(ps[s]) /\ (\E b \in T : b <= s /\ Rises(ps, T, b))
                     => when(s) <= when(c) /\ (s < c => when(s) < when(c))
      BY <2>2, <2>4, <2>5, <1>0
    <3> HIDE DEF T
    <3> QED
      BY <3>1, <3>2, <2>3 DEF FreshestAudible
  <2>7. Found(ps, T)
    BY <1>1, FoundNext
  <2> QED
    BY <2>6, <2>7 DEF Selected
<1>2. CASE ~Found(ps, S)
  <2>1. ~Found(ps, T)
    BY <1>2, FoundNext DEF Beats, HeldAt
  <2>2. ~Playing(ps[k])
    BY <1>2
  <2>3. CASE \E s \in S : Playing(ps[s])
    <3>1. LastPlaying(ps, T, c)
      BY <1>2, <2>2, <2>3 DEF Selected, LastPlaying
    <3> QED
      BY <2>1, <2>3, <3>1 DEF Selected
  <2>4. CASE ~ \E s \in S : Playing(ps[s])
    <3>1. Freshest(ps, S, c)
      BY <1>2, <2>4 DEF Selected
    <3>2. when(k) <= HeldAt(ps, c)
      BY <1>2, <2>2, <2>4, <3>1, <1>0 DEF Freshest, HeldAt
    <3>3. CASE c = -1
      BY <3>1, <3>2, <3>3, <2>1, <2>2, <2>4, <1>0 DEF Freshest, HeldAt, Selected
    <3>4. CASE c # -1
      <4>1. Freshest(ps, T, c)
        BY <3>1, <3>2, <3>4, <1>0 DEF Freshest, HeldAt
      <4> QED
        BY <4>1, <2>1, <2>2, <2>4 DEF Selected
    <3> QED
      BY <3>3, <3>4
  <2> QED
    BY <2>3, <2>4
<1> QED
  BY <1>1, <1>2

-----------------------------------------------------------------------------
(* The scan's inductive invariant: types, the shape of a slot, what the     *)
(* loop holds.                                                              *)
SlotShape == \A s \in Slots : players[s] = WNP_DEFAULT_PLAYER \/ players[s].id = s

IInv == TypeOK /\ SlotShape /\ LoopInv

LEMMA InitIInv == Init => IInv
<1> SUFFICES ASSUME Init PROVE IInv
  OBVIOUS
<1>0. WNP_DEFAULT_PLAYER \in Player
  BY DEF WNP_DEFAULT_PLAYER, Player, States, Platforms
<1> PICK table \in [Slots -> Rows \cup {WNP_DEFAULT_PLAYER}] :
           players = [s \in Slots |-> Stored(s, table[s])]
  BY DEF Init
<1>1. \A s \in Slots : table[s] \in Player
  BY <1>0, RowsAssumption
<1>2. players \in [Slots -> Player]
  <2>1. \A s \in Slots : Stored(s, table[s]) \in Player
    BY <1>0, <1>1 DEF Stored, Player
  <2> QED
    BY <2>1
<1>3. SlotShape
  BY <1>1 DEF SlotShape, Stored, Player
<1>4. total_web_players \in Nat
  <2>1. IsFiniteSet(Slots)
    BY FS_Interval, MaxPlayersAssumption DEF Slots
  <2>2. IsFiniteSet(WebSlots)
    BY <2>1, FS_Subset DEF WebSlots
  <2> QED
    BY <2>2, FS_CardinalityType DEF Init
<1>5. i = 0 /\ active_player_id = -1 /\ max_active_at = 0 /\ found_active = FALSE
  BY DEF Init
<1>6. TypeOK
  <2>1. i \in 0..MaxPlayers /\ max_active_at \in Nat
    BY <1>5, MaxPlayersAssumption
  <2>2. active_player_id \in Slots \cup {-1} /\ found_active \in BOOLEAN
    BY <1>5
  <2> QED
    BY <1>2, <1>4, <2>1, <2>2 DEF TypeOK
<1>7. Looked = {}
  <2>1. \A s \in Slots : ~(s < i)
    BY <1>5, MaxPlayersAssumption DEF Slots
  <2> QED
    BY <2>1 DEF Looked
<1>8. LoopInv
  BY <1>5, <1>7 DEF LoopInv, Selected, Found, Freshest
<1> QED
  BY <1>3, <1>6, <1>8 DEF IInv

LEMMA StepIInv == IInv /\ [Next]_vars => IInv'
<1> SUFFICES ASSUME IInv, [Next]_vars PROVE IInv'
  OBVIOUS
<1> USE DEF IInv
<1>t. TypeOK
  OBVIOUS
<1>a. /\ players \in [Slots -> Player]
      /\ active_player_id \in Slots \cup {-1}
      /\ i \in 0..MaxPlayers
      /\ Looked \in SUBSET Slots
  BY DEF TypeOK, Looked
<1>b. \A s \in Looked : s < i
  BY DEF Looked
<1>c. Selected(players, Looked, active_player_id)
  BY DEF LoopInv
<1>d. max_active_at = HeldAt(players, active_player_id)
  BY DEF LoopInv, HeldAt
<1>e. found_active <=> Found(players, Looked)
  BY DEF LoopInv
<1>f. i < MaxPlayers => i \in Slots
  BY MaxPlayersAssumption, <1>a DEF Slots
(* One more slot has been looked at, or skipped.                            *)
<1>g. ASSUME i < MaxPlayers, Advance
      PROVE  Looked' = IF Hidden(players[i], total_web_players) THEN Looked
                       ELSE Looked \cup {i}
  BY <1>g, <1>a, <1>f, MaxPlayersAssumption DEF Looked, Advance, Slots
<1>h. ASSUME i < MaxPlayers, Advance, cur = players[i],
             \/ Keep
             \/ Take /\ found_active' \in BOOLEAN /\ players[i].id = i
      PROVE  TypeOK' /\ SlotShape'
  <2>1. players[i] \in Player
    BY <1>a, <1>f, <1>h
  <2>2. players[i].active_at \in Nat
    BY <2>1 DEF Player
  <2>3. i + 1 \in 0..MaxPlayers
    BY <1>a, <1>h, MaxPlayersAssumption
  <2> QED
    BY <1>t, <1>f, <1>h, <2>2, <2>3 DEF TypeOK, SlotShape, Advance, Keep, Take
(* A slot that is taken is a used one.                                      *)
<1>i. ASSUME i < MaxPlayers,
             Playing(players[i]) \/ players[i].active_at > max_active_at
      PROVE  players[i].id = i
  <2>1. players[i] # WNP_DEFAULT_PLAYER
    BY <1>i, <1>t DEF Playing, WNP_DEFAULT_PLAYER, TypeOK
  <2> QED
    BY <2>1, <1>f, <1>i DEF SlotShape
<1>1. CASE SkipHidden
  <2>1. TypeOK' /\ SlotShape'
    BY <1>1, <1>h DEF SkipHidden, cur
  <2>2. Looked' = Looked
    BY <1>1, <1>g DEF SkipHidden, cur
  <2> QED
    BY <1>1, <2>1, <2>2, <1>c, <1>d, <1>e DEF SkipHidden, Keep, Advance, LoopInv, HeldAt
<1>2. CASE TakeAudible
  <2>1. i < MaxPlayers /\ Beats(players, active_player_id, i) /\ players[i].id = i
    BY <1>2, <1>d, <1>i DEF TakeAudible, Look, BeatsAudibly, Beats, cur, Audible
  <2>2. TypeOK' /\ SlotShape'
    BY <1>2, <1>h, <2>1 DEF TakeAudible, cur
  <2>3. Looked' = Looked \cup {i}
    BY <1>2, <1>g, <2>1 DEF TakeAudible, Look, cur
  <2>4. Selected(players, Looked \cup {i}, i)
    BY <1>a, <1>b, <1>c, <1>f, <2>1, SelectAudible
  <2>5. Found(players, Looked \cup {i})
    BY <1>a, <1>b, <1>c, <1>f, <2>1, FoundNext DEF Beats, HeldAt
  <2>6. i # -1
    BY <1>a
  <2> QED
    BY <1>2, <2>1, <2>2, <2>3, <2>4, <2>5, <2>6
       DEF TakeAudible, Take, Advance, LoopInv, cur
<1>3. CASE TakePlaying
  <2>1. /\ i < MaxPlayers /\ players[i].id = i
        /\ ~Beats(players, active_player_id, i)
        /\ Playing(players[i]) /\ ~Found(players, Looked)
    BY <1>3, <1>d, <1>e, <1>i DEF TakePlaying, Look, BeatsAudibly, Beats, cur
  <2>2. TypeOK' /\ SlotShape'
    BY <1>3, <1>h, <1>t, <2>1 DEF TakePlaying, cur, TypeOK
  <2>3. Looked' = Looked \cup {i}
    BY <1>3, <1>g, <2>1 DEF TakePlaying, Look, cur
  <2>4. Selected(players, Looked \cup {i}, i)
    BY <1>a, <1>b, <1>c, <1>f, <2>1, SelectPlaying
  <2>5. ~Found(players, Looked \cup {i})
    BY <1>a, <1>b, <1>c, <1>f, <2>1, FoundNext DEF Beats, HeldAt
  <2>6. i # -1
    BY <1>a
  <2> QED
    BY <1>3, <1>e, <2>1, <2>2, <2>3, <2>4, <2>5, <2>6
       DEF TakePlaying, Take, Advance, LoopInv, cur
<1>4. CASE TakeIdle
  <2>1. /\ i < MaxPlayers /\ players[i].id = i
        /\ ~Playing(players[i]) /\ ~Found(players, Looked)
        /\ players[i].active_at > HeldAt(players, active_player_id)
        /\ active_player_id = -1 \/ ~Playing(players[active_player_id])
    BY <1>4, <1>d, <1>e, <1>i DEF TakeIdle, Look, IdleButFresher, cur, is_active_playing
  <2>2. TypeOK' /\ SlotShape'
    BY <1>4, <1>h, <1>t, <2>1 DEF TakeIdle, cur, TypeOK
  <2>3. Looked' = Looked \cup {i}
    BY <1>4, <1>g, <2>1 DEF TakeIdle, Look, cur
  <2>4. Selected(players, Looked \cup {i}, i)
    BY <1>a, <1>b, <1>c, <1>f, <2>1, SelectIdle
  <2>5. ~Found(players, Looked \cup {i})
    BY <1>a, <1>b, <1>c, <1>f, <2>1, FoundNext DEF Audible, HeldAt
  <2>6. i # -1
    BY <1>a
  <2> QED
    BY <1>4, <1>e, <2>1, <2>2, <2>3, <2>4, <2>5, <2>6
       DEF TakeIdle, Take, Advance, LoopInv, cur
<1>5. CASE Pass
  <2>1. /\ i < MaxPlayers
        /\ ~Beats(players, active_player_id, i)
        /\ Playing(players[i]) => Found(players, Looked)
        /\ /\ ~Playing(players[i]) /\ ~Found(players, Looked)
           /\ players[i].active_at > HeldAt(players, active_player_id)
           => active_player_id # -1 /\ Playing(players[active_player_id])
    BY <1>5, <1>d, <1>e
       DEF Pass, Look, BeatsAudibly, Beats, IdleButFresher, cur, is_active_playing
  <2>2. TypeOK' /\ SlotShape'
    BY <1>5, <1>h, <2>1 DEF Pass, cur
  <2>3. Looked' = Looked \cup {i}
    BY <1>5, <1>g, <2>1 DEF Pass, Look, cur
  <2>4. Selected(players, Looked \cup {i}, active_player_id)
    BY <1>a, <1>b, <1>c, <1>f, <2>1, SelectPass
  <2>5. Found(players, Looked \cup {i}) <=> Found(players, Looked)
    BY <1>a, <1>b, <1>c, <1>f, <2>1, FoundNext DEF Beats, HeldAt
  <2> QED
    BY <1>5, <1>d, <1>e, <2>2, <2>3, <2>4, <2>5
       DEF Pass, Keep, Advance, LoopInv, HeldAt
<1>6. CASE UNCHANGED vars
  BY <1>6 DEF vars, TypeOK, SlotShape, LoopInv, Looked
<1> QED
  BY <1>1, <1>2, <1>3, <1>4, <1>5, <1>6 DEF Next, Done

(* wnp.c:110-137: after every round the loop holds what the closed form     *)
(* selects among the slots it has looked at.                               *)
THEOREM ScanInv == Spec => []IInv
BY InitIInv, StepIInv, PTL DEF Spec

(* wnp.c:110-137: the state of the loop stays within its types.             *)
THEOREM ScanTypeOK == Spec => []TypeOK
<1>1. IInv => TypeOK
  BY DEF IInv
<1> QED
  BY <1>1, ScanInv, PTL

(* wnp.c:118-136: for every table, the loop returns the player the closed   *)
(* form selects from the visible slots.                                     *)
THEOREM ScanSelects == Spec => []ResultIsSelected
<1>1. IInv => ResultIsSelected
  <2> SUFFICES ASSUME IInv, Returned
               PROVE  Selected(players, Visible(players, total_web_players), active_player_id)
    BY DEF ResultIsSelected
  <2>1. Looked = Visible(players, total_web_players)
    BY MaxPlayersAssumption DEF Returned, Looked, Visible, Slots
  <2> QED
    BY <2>1 DEF IInv, LoopInv
<1> QED
  BY <1>1, ScanInv, PTL

(* wnp.c:120: the player selected is a used slot and not a hidden one.      *)
THEOREM ScanNeverHidden == Spec => []NeverHiddenOrEmpty
<1>1. IInv => NeverHiddenOrEmpty
  <2> SUFFICES ASSUME IInv, active_player_id # -1
               PROVE  /\ players[active_player_id].id = active_player_id
                      /\ ~Hidden(players[active_player_id], total_web_players)
    BY DEF NeverHiddenOrEmpty
  <2> DEFINE p == players[active_player_id]
  <2>1. active_player_id \in Looked
    BY SelectedIn DEF IInv, LoopInv
  <2>2. active_player_id \in Slots /\ ~Hidden(p, total_web_players)
    BY <2>1 DEF Looked
  <2>3. Playing(p) \/ p.active_at > 0
    BY DEF IInv, LoopInv, Selected, FreshestAudible, LastPlaying, Freshest, Audible
  <2>4. p # WNP_DEFAULT_PLAYER
    BY <2>3 DEF Playing, WNP_DEFAULT_PLAYER
  <2> QED
    BY <2>2, <2>4 DEF IInv, SlotShape
<1> QED
  BY <1>1, ScanInv, PTL

(* wnp.c:126-135: no idle player is selected while a visible one plays.     *)
THEOREM ScanPlayingWins == Spec => []PlayingWins
<1>1. IInv => PlayingWins
  <2> SUFFICES ASSUME IInv, Returned,
                      NEW s \in Visible(players, total_web_players), Playing(players[s])
               PROVE  active_player_id # -1 /\ Playing(players[active_player_id])
    BY DEF PlayingWins
  <2>1. Looked = Visible(players, total_web_players)
    BY MaxPlayersAssumption DEF Returned, Looked, Visible, Slots
  <2>2. -1 \notin Looked
    BY MaxPlayersAssumption DEF Looked, Slots
  <2> QED
    BY <2>1, <2>2 DEF IInv, LoopInv, Selected, FreshestAudible, LastPlaying, Audible
<1> QED
  BY <1>1, ScanInv, PTL

-----------------------------------------------------------------------------
(* THE TEXT: what the table of cws.c accepts, the messages made of frames   *)
(* of any payloads, and the conversion to UTF-16.                           *)

(* Every nonempty set of numbers has a least.                              *)
LEMMA Least ==
  ASSUME NEW T \in SUBSET Nat, T # {}
  PROVE  \E x \in T : \A y \in T : x <= y
<1>1. \E x \in T : \A y \in T : ~(<<y, x>> \in OpToRel(<, Nat))
  BY NatLessThanWellFounded, WFMin, Zenon
<1>2. PICK x \in T : \A y \in T : ~(<<y, x>> \in OpToRel(<, Nat))
  BY <1>1, Zenon
<1>3. ASSUME NEW y \in T PROVE x <= y
  <2>1. <<y, x>> \notin OpToRel(<, Nat)
    BY <1>2, Zenon
  <2>2. x \in Nat /\ y \in Nat
    OBVIOUS
  <2>3. ~(y < x)
    BY <2>1, <2>2 DEF OpToRel
  <2> QED
    BY <2>2, <2>3
<1> QED
  BY <1>2, <1>3, Zenon

(* What holds at 0 and is handed on holds up to n.                         *)
HandsOn(f, g, n) == f[0] = g[0] /\ \A k \in 1..n : f[k - 1] = g[k - 1] => f[k] = g[k]

LEMMA AllAlong ==
  ASSUME NEW n \in Nat, NEW f, NEW g, HandsOn(f, g, n)
  PROVE  \A k \in 0..n : f[k] = g[k]
<1> DEFINE Bad == {k \in 0..n : f[k] # g[k]}
<1> SUFFICES ASSUME Bad # {} PROVE FALSE
  OBVIOUS
<1>0. Bad \in SUBSET Nat
  OBVIOUS
<1> HIDE DEF Bad
<1>1. PICK k \in Bad : \A m \in Bad : k <= m
  BY <1>0, Least
<1> USE DEF Bad
<1>2. k # 0
  BY <1>1 DEF HandsOn
<1>3. k - 1 \in 0..n /\ k \in 1..n /\ k - 1 < k
  BY <1>1, <1>2
<1>4. f[k - 1] = g[k - 1]
  BY <1>1, <1>3
<1> QED
  BY <1>1, <1>3, <1>4 DEF HandsOn

-----------------------------------------------------------------------------
(* FlattenSeq, one sequence after the other.                               *)

Joins(g, F, n) == g[0] = <<>> /\ \A k \in 1..n : g[k] = g[k - 1] \o F[k]

LEMMA JoinsExists ==
  ASSUME NEW B, NEW n \in Nat, NEW F \in [1..n -> Seq(B)]
  PROVE  \E g \in [0..n -> Seq(B)] : Joins(g, F, n)
<1> DEFINE Exists(m) == \E g \in [0..m -> Seq(B)] : Joins(g, F, m)
           Bad == {m \in 0..n : ~Exists(m)}
<1> HIDE DEF Exists
<1>q. ASSUME Bad = {} PROVE Exists(n)
  <2>1. n \in 0..n /\ n \notin Bad
    BY <1>q
  <2> QED
    BY <2>1
<1> SUFFICES ASSUME Bad # {} PROVE FALSE
  BY <1>q DEF Exists
<1>0. Bad \in SUBSET Nat
  OBVIOUS
<1> HIDE DEF Bad
<1>1. PICK m \in Bad : \A k \in Bad : m <= k
  BY <1>0, Least
<1> USE DEF Bad
<1>2. ASSUME m = 0 PROVE FALSE
  <2>1. [k \in 0..0 |-> <<>>] \in [0..0 -> Seq(B)] /\ Joins([k \in 0..0 |-> <<>>], F, 0)
    BY DEF Joins
  <2>2. Exists(0)
    BY <2>1 DEF Exists
  <2> QED
    BY <1>1, <1>2, <2>2
<1>3. m - 1 \in 0..n /\ m \in 1..n /\ ~(m <= m - 1)
  BY <1>1, <1>2
<1>a. m - 1 \notin Bad
  BY <1>1, <1>3
<1>b. Exists(m - 1)
  BY <1>3, <1>a
<1>4. PICK f \in [0..m-1 -> Seq(B)] : Joins(f, F, m - 1)
  BY <1>b DEF Exists
<1> DEFINE g == [k \in 0..m |-> IF k = m THEN f[m - 1] \o F[m] ELSE f[k]]
<1>5. g \in [0..m -> Seq(B)]
  <2>1. F[m] \in Seq(B) /\ f[m - 1] \in Seq(B)
    BY <1>3
  <2>2. f[m - 1] \o F[m] \in Seq(B)
    BY <2>1, ConcatProperties
  <2> QED
    BY <1>3, <2>2
<1>6. Joins(g, F, m)
  <2>1. g[0] = <<>>
    BY <1>3, <1>4 DEF Joins
  <2>2. g[m] = g[m - 1] \o F[m]
    <3>1. g[m] = f[m - 1] \o F[m] /\ g[m - 1] = f[m - 1]
      BY <1>3
    <3> QED
      BY <3>1
  <2>3. ASSUME NEW k \in 1..m-1 PROVE g[k] = g[k - 1] \o F[k]
    <3>1. g[k] = f[k] /\ g[k - 1] = f[k - 1]
      BY <1>3
    <3> QED
      BY <1>4, <3>1 DEF Joins
  <2>4. \A k \in 1..m : k = m \/ k \in 1..m-1
    BY <1>3
  <2> QED
    BY <2>1, <2>2, <2>3, <2>4 DEF Joins
<1>7. Exists(m)
  BY <1>5, <1>6 DEF Exists
<1> QED
  BY <1>1, <1>7

LEMMA FlattenIs ==
  ASSUME NEW B, NEW n \in Nat, NEW F \in [1..n -> Seq(B)],
         NEW f \in [0..n -> Seq(B)], Joins(f, F, n)
  PROVE  FlattenSeq(F) = f[n]
<1>0. F \in Seq(Seq(B)) /\ Len(F) = n
  OBVIOUS
<1>1. CASE n = 0
  <2>1. F = <<>>
    BY <1>0, <1>1, EmptySeq
  <2> QED
    BY <1>0, <1>1, <2>1 DEF FlattenSeq, Joins
<1>2. CASE n # 0
  <2> DEFINE Flat(g) == g = [z \in 1..n |-> IF z = 1 THEN F[z] ELSE g[z - 1] \o F[z]]
  <2>1. FlattenSeq(F) = (CHOOSE g : Flat(g))[n]
    BY <1>0, <1>2 DEF FlattenSeq
  <2>2. \A k \in 1..n : f[k] = f[k - 1] \o F[k]
    BY DEF Joins
  <2>3. f[0] = <<>>
    BY DEF Joins
  <2>4. 1 \in 1..n /\ F[1] \in Seq(B)
    BY <1>2
  <2>5. f[1] = F[1]
    <3>1. f[1] = f[0] \o F[1]
      BY <2>2, <2>4
    <3> QED
      BY <2>3, <2>4, <3>1, ConcatEmptySeq
  <2>6. Flat([k \in 1..n |-> f[k]])
    <3> DEFINE g == [k \in 1..n |-> f[k]]
    <3>1. ASSUME NEW k \in 1..n
          PROVE  g[k] = IF k = 1 THEN F[k] ELSE g[k - 1] \o F[k]
      <4>1. CASE k = 1
        BY <2>5, <4>1
      <4>2. CASE k # 1
        <5>1. k - 1 \in 1..n
          BY <4>2
        <5> QED
          BY <2>2, <4>2, <5>1
      <4> QED
        BY <4>1, <4>2
    <3> QED
      BY <3>1
  <2> DEFINE g == CHOOSE g : Flat(g)
  <2>7. Flat(g)
    BY <2>6
  <2> HIDE DEF g
  <2> DEFINE h == [k \in 0..n |-> IF k = 0 THEN <<>> ELSE g[k]]
  <2>8. \A k \in 1..n : g[k] = IF k = 1 THEN F[k] ELSE g[k - 1] \o F[k]
    BY <2>7
  <2>9. \A k \in 0..n : h[k] = f[k]
    <3>1. h[0] = f[0]
      BY <2>3
    <3>2. ASSUME NEW k \in 1..n, h[k - 1] = f[k - 1]
          PROVE  h[k] = f[k]
      <4>1. CASE k = 1
        <5>1. g[k] = F[k]
          BY <2>8, <4>1
        <5>2. f[k] = F[k]
          BY <2>5, <4>1
        <5>3. h[k] = g[k]
          BY <4>1
        <5> QED
          BY <5>1, <5>2, <5>3
      <4>2. CASE k # 1
        <5>0. g[k] = g[k - 1] \o F[k]
          BY <2>8, <4>2, Zenon
        <5>1. h[k - 1] = g[k - 1] /\ h[k] = g[k] /\ g[k] = g[k - 1] \o F[k]
          BY <4>2, <5>0
        <5>2. f[k] = f[k - 1] \o F[k]
          BY <2>2
        <5> QED
          BY <3>2, <5>1, <5>2
      <4> QED
        BY <4>1, <4>2
    <3>3. HandsOn(h, f, n)
      BY <3>1, <3>2 DEF HandsOn
    <3> HIDE DEF h
    <3> QED
      BY <3>3, AllAlong
  <2>10. n \in 0..n /\ h[n] = g[n]
    BY <1>2
  <2>11. FlattenSeq(F) = g[n]
    BY <2>1 DEF g
  <2> QED
    BY <2>9, <2>10, <2>11
<1> QED
  BY <1>1, <1>2

LEMMA FlattenMore ==
  ASSUME NEW B, NEW n \in Nat, NEW F \in [1..n -> Seq(B)], NEW G \in [1..n+1 -> Seq(B)],
         \A k \in 1..n : G[k] = F[k]
  PROVE  /\ FlattenSeq(F) \in Seq(B)
         /\ FlattenSeq(G) = FlattenSeq(F) \o G[n + 1]
<1>0. n + 1 \in Nat
  OBVIOUS
<1>1. PICK g \in [0..n+1 -> Seq(B)] : Joins(g, G, n + 1)
  BY <1>0, JoinsExists
<1> DEFINE f == [k \in 0..n |-> g[k]]
<1>2. f \in [0..n -> Seq(B)] /\ f[n] = g[n]
  OBVIOUS
<1>3. Joins(f, F, n)
  <2>1. ASSUME NEW k \in 1..n PROVE f[k] = f[k - 1] \o F[k]
    <3>1. f[k] = g[k] /\ f[k - 1] = g[k - 1] /\ k \in 1..n+1 /\ G[k] = F[k]
      OBVIOUS
    <3> QED
      BY <1>1, <3>1 DEF Joins
  <2> QED
    <3>1. f[0] = <<>>
      BY <1>1 DEF Joins
    <3> QED
      BY <2>1, <3>1 DEF Joins
<1> HIDE DEF f
<1>4. FlattenSeq(F) = g[n] /\ g[n] \in Seq(B)
  <2>1. FlattenSeq(F) = f[n]
    BY <1>2, <1>3, FlattenIs
  <2> QED
    BY <1>2, <2>1
<1>5. FlattenSeq(G) = g[n + 1]
  BY <1>0, <1>1, FlattenIs
<1>6. g[n + 1] = g[n] \o G[n + 1]
  <2>1. PICK m \in 1..n+1 : m = n + 1 /\ m - 1 = n
    OBVIOUS
  <2>2. g[m] = g[m - 1] \o G[m]
    BY <1>1 DEF Joins
  <2> QED
    BY <2>1, <2>2
<1> QED
  BY <1>4, <1>5, <1>6

LEMMA FlattenNone ==
  ASSUME NEW F \in [1..0 -> Seq({})]
  PROVE  FlattenSeq(F) = <<>>
<1>1. F = <<>>
  BY EmptySeq
<1> QED
  BY <1>1 DEF FlattenSeq

-----------------------------------------------------------------------------
(* The table of cws.c.                                                     *)

LEMMA Bytes ==
  ASSUME NEW b \in Byte
  PROVE  b \in Int /\ 0 <= b /\ b <= 255
BY SMT DEF Byte

LEMMA Continuations ==
  ASSUME NEW b \in Continuation
  PROVE  b \in Byte /\ b \in Int /\ 128 <= b /\ b <= 191
BY SMT DEF Byte, Continuation

LEMMA Types ==
  ASSUME NEW b \in Byte
  PROVE  /\ type(b) \in 0..11
         /\ b \in Continuation <=> type(b) \in {1, 7, 9}
         /\ type(b) = 0 <=> b < 128
         /\ type(b) = 2 <=> b \in 194..223
         /\ type(b) = 3 <=> b \in 225..236 \cup 238..239
         /\ type(b) = 10 <=> b = 224
         /\ type(b) = 4 <=> b = 237
         /\ type(b) = 11 <=> b = 240
         /\ type(b) = 6 <=> b \in 241..243
         /\ type(b) = 5 <=> b = 244
<1> USE Bytes
<1>1. b < 128 => type(b) = 0
  BY DEF type
<1>2. b \in 128..143 => type(b) = 1
  BY DEF type
<1>3. b \in 144..159 => type(b) = 9
  BY DEF type
<1>4. b \in 160..191 => type(b) = 7
  BY DEF type
<1>5. b \in 192..193 => type(b) = 8
  BY DEF type
<1>6. b \in 194..223 => type(b) = 2
  BY DEF type
<1>7. b = 224 => type(b) = 10
  BY DEF type
<1>8. b \in 225..236 \cup 238..239 => type(b) = 3
  BY DEF type
<1>9. b = 237 => type(b) = 4
  BY DEF type
<1>10. b = 240 => type(b) = 11
  BY DEF type
<1>11. b \in 241..243 => type(b) = 6
  BY DEF type
<1>12. b = 244 => type(b) = 5
  BY DEF type
<1>13. b \in 245..255 => type(b) = 8
  BY DEF type
<1> QED
  BY <1>1, <1>2, <1>3, <1>4, <1>5, <1>6, <1>7, <1>8, <1>9, <1>10, <1>11, <1>12, <1>13
  DEF Continuation

LEMMA Leads ==
  ASSUME NEW t \in 0..11
  PROVE  /\ goes_on(0, t) \in 0..8
         /\ goes_on(0, t) = 0 <=> t = 0
         /\ goes_on(0, t) = 2 <=> t = 2
         /\ goes_on(0, t) = 3 <=> t = 3
         /\ goes_on(0, t) = 4 <=> t = 10
         /\ goes_on(0, t) = 5 <=> t = 4
         /\ goes_on(0, t) = 6 <=> t = 11
         /\ goes_on(0, t) = 7 <=> t = 6
         /\ goes_on(0, t) = 8 <=> t = 5
         /\ t \in {1, 7, 9} => goes_on(0, t) = 1
<1>1. goes_on(0, t) = Lead[t + 1]
  BY DEF goes_on
<1>2. t = 0 \/ t = 1 \/ t = 2 \/ t = 3 \/ t = 4 \/ t = 5 \/ t = 6 \/ t = 7 \/ t = 8 \/ t = 9 \/ t = 10 \/ t = 11
  OBVIOUS
<1>3. /\ Lead[1] = 0 /\ Lead[2] = 1 /\ Lead[3] = 2 /\ Lead[4] = 3 /\ Lead[5] = 5 /\ Lead[6] = 8
      /\ Lead[7] = 7 /\ Lead[8] = 1 /\ Lead[9] = 1 /\ Lead[10] = 1 /\ Lead[11] = 4 /\ Lead[12] = 6
  BY DEF Lead
<1> QED
  BY <1>1, <1>2, <1>3

LEMMA Table ==
  /\ \A q \in 0..8, b \in Byte : goes_on(q, type(b)) \in 0..8
  /\ \A b \in Byte : goes_on(1, type(b)) = 1
  /\ \A b \in Continuation : goes_on(0, type(b)) = 1
  /\ \A q \in 1..8, b \in Byte \ Continuation : goes_on(q, type(b)) = 1
<1>1. \A q \in 0..8, t \in 0..11 : goes_on(q, t) \in 0..8
  <2>1. ASSUME NEW q \in 1..8, NEW t \in 0..11 PROVE goes_on(q, t) \in 0..8
    BY DEF goes_on
  <2> QED
    BY <2>1, Leads
<1>2. \A t \in 0..11 : goes_on(1, t) = 1
  BY DEF goes_on
<1>3. \A b \in Continuation : b \in Byte
  BY Continuations
<1>4. \A b \in Continuation : goes_on(0, type(b)) = 1
  BY <1>3, Types, Leads
<1>5. \A q \in 1..8, t \in 0..11 \ {1, 7, 9} : goes_on(q, t) = 1
  BY DEF goes_on
<1>0. \A b \in Byte : type(b) \in 0..11 /\ (b \notin Continuation => type(b) \notin {1, 7, 9})
  <2> SUFFICES ASSUME NEW b \in Byte
               PROVE  type(b) \in 0..11 /\ (b \notin Continuation => type(b) \notin {1, 7, 9})
    OBVIOUS
  <2>1. type(b) \in 0..11
    BY Types
  <2>2. b \in Continuation <=> type(b) \in {1, 7, 9}
    BY Types
  <2> QED
    BY <2>1, <2>2
<1>6. \A q \in 0..8, b \in Byte : goes_on(q, type(b)) \in 0..8
  BY <1>0, <1>1
<1>7. \A b \in Byte : goes_on(1, type(b)) = 1
  BY <1>0, <1>2
<1>8. \A q \in 1..8, b \in Byte \ Continuation : goes_on(q, type(b)) = 1
  BY <1>0, <1>5
<1> QED
  BY <1>4, <1>6, <1>7, <1>8

LEMMA OneByteOfTable ==
  ASSUME NEW b \in Byte
  PROVE  goes_on(0, type(b)) = 0 <=> b < 128
BY Types, Leads

(* What the states stand for: the bytes that lead to them from 0.          *)
LEMMA StatesOfTable ==
  ASSUME NEW b \in Byte
  PROVE  /\ goes_on(0, type(b)) = 3 <=> b \in 225..236 \cup 238..239
         /\ goes_on(0, type(b)) = 4 <=> b = 224
         /\ goes_on(0, type(b)) = 5 <=> b = 237
         /\ goes_on(0, type(b)) = 6 <=> b = 240
         /\ goes_on(0, type(b)) = 7 <=> b \in 241..243
         /\ goes_on(0, type(b)) = 8 <=> b = 244
BY Types, Leads

LEMMA StepsOfTable ==
  ASSUME NEW q \in 0..8, NEW c \in Continuation
  PROVE  /\ goes_on(q, type(c)) = 2 <=> q = 3 \/ (q = 4 /\ c >= 160) \/ (q = 5 /\ c < 160)
         /\ goes_on(q, type(c)) = 3 <=> (q = 6 /\ c >= 144) \/ q = 7 \/ (q = 8 /\ c < 144)
         /\ goes_on(q, type(c)) = 0 <=> q = 2
         /\ goes_on(q, type(c)) \in {0, 1, 2, 3}
<1>1. c \in 128..191
  BY DEF Continuation
<1>2. /\ type(c) = 1 <=> c < 144
      /\ type(c) = 9 <=> c >= 144 /\ c < 160
      /\ type(c) = 7 <=> c >= 160
  BY <1>1 DEF type
<1>3. type(c) \in {1, 7, 9}
  BY <1>1, <1>2
<1> HIDE DEF type
<1>4. ASSUME NEW t \in {1, 7, 9}
      PROVE  /\ goes_on(q, t) = 2 <=> q = 3 \/ (q = 4 /\ t = 7) \/ (q = 5 /\ t \in {1, 9})
             /\ goes_on(q, t) = 3 <=> (q = 6 /\ t \in {7, 9}) \/ q = 7 \/ (q = 8 /\ t = 1)
             /\ goes_on(q, t) = 0 <=> q = 2
             /\ goes_on(q, t) \in {0, 1, 2, 3}
  <2>1. CASE q = 0
    BY <2>1, Leads
  <2>2. CASE q # 0
    <3>1. goes_on(q, t) = 2 <=> q = 3 \/ (q = 4 /\ t = 7) \/ (q = 5 /\ t \in {1, 9})
      BY <2>2 DEF goes_on
    <3>2. goes_on(q, t) = 3 <=> (q = 6 /\ t \in {7, 9}) \/ q = 7 \/ (q = 8 /\ t = 1)
      BY <2>2 DEF goes_on
    <3>3. goes_on(q, t) = 0 <=> q = 2
      <4>1. CASE q = 2
        BY <4>1 DEF goes_on
      <4>2. CASE q # 2
        BY <2>2, <4>2 DEF goes_on
      <4> QED
        BY <4>1, <4>2
    <3>4. goes_on(q, t) \in {0, 1, 2, 3}
      <4>1. CASE q = 2
        BY <4>1 DEF goes_on
      <4>2. CASE q # 2
        BY <2>2, <4>2 DEF goes_on
      <4> QED
        BY <4>1, <4>2
    <3> QED
      BY <3>1, <3>2, <3>3, <3>4
  <2> QED
    BY <2>1, <2>2
<1> QED
  BY <1>1, <1>2, <1>3, <1>4

LEMMA TwoBytesOfTable ==
  ASSUME NEW b \in Byte, NEW c \in Continuation,
         NEW q, q = goes_on(0, type(b))
  PROVE  goes_on(q, type(c)) = 0 <=> b \in 194..223
<1>1. q = 2 <=> b \in 194..223
  BY Types, Leads
<1>2. q \in 0..8
  BY Table
<1>3. goes_on(q, type(c)) = 0 <=> q = 2
  BY <1>2, StepsOfTable
<1> QED
  BY <1>1, <1>3

LEMMA ThreeBytesOfTable ==
  ASSUME NEW b \in Byte, NEW c \in Continuation, NEW d \in Continuation,
         NEW q, q = goes_on(0, type(b)),
         NEW r, r = goes_on(q, type(c))
  PROVE  goes_on(r, type(d)) = 0 <=> \/ b \in 225..236 \cup 238..239
                                     \/ b = 224 /\ c >= 160
                                     \/ b = 237 /\ c < 160
<1>1. q \in 0..8
  BY Table
<1>2. r \in 0..8
  BY <1>1, StepsOfTable
<1>3. goes_on(r, type(d)) = 0 <=> r = 2
  BY <1>2, StepsOfTable
<1>4. r = 2 <=> q = 3 \/ (q = 4 /\ c >= 160) \/ (q = 5 /\ c < 160)
  BY <1>1, StepsOfTable
<1>5. /\ q = 3 <=> b \in 225..236 \cup 238..239
      /\ q = 4 <=> b = 224
      /\ q = 5 <=> b = 237
  BY StatesOfTable
<1> QED
  BY <1>3, <1>4, <1>5

LEMMA FourBytesOfTable ==
  ASSUME NEW b \in Byte, NEW c \in Continuation, NEW d \in Continuation, NEW e \in Continuation,
         NEW p, p = goes_on(0, type(b)),
         NEW q, q = goes_on(p, type(c)),
         NEW r, r = goes_on(q, type(d))
  PROVE  /\ goes_on(r, type(e)) = 0
              <=> (b = 240 /\ c >= 144) \/ b \in 241..243 \/ (b = 244 /\ c < 144)
         /\ goes_on(r, type(e)) \in {0, 1}
<1>1. p \in 0..8
  BY Table
<1>2. q \in {0, 1, 2, 3}
  BY <1>1, StepsOfTable
<1>3. q \in 0..8 /\ q # 4 /\ q # 5 /\ q # 6 /\ q # 7 /\ q # 8
  BY <1>2
<1>4. r \in {0, 1, 2} /\ (r = 2 <=> q = 3)
  BY <1>3, StepsOfTable
<1>5. r \in 0..8 /\ r # 3 /\ r # 4 /\ r # 5 /\ r # 6 /\ r # 7 /\ r # 8
  BY <1>4
<1>6. (goes_on(r, type(e)) = 0 <=> r = 2) /\ goes_on(r, type(e)) \in {0, 1}
  BY <1>5, StepsOfTable
<1>7. q = 3 <=> (p = 6 /\ c >= 144) \/ p = 7 \/ (p = 8 /\ c < 144)
  BY <1>1, StepsOfTable
<1>8. /\ p = 6 <=> b = 240
      /\ p = 7 <=> b \in 241..243
      /\ p = 8 <=> b = 244
  BY StatesOfTable
<1>9. q = 3 <=> (b = 240 /\ c >= 144) \/ b \in 241..243 \/ (b = 244 /\ c < 144)
  BY <1>7, <1>8
<1> QED
  BY <1>4, <1>6, <1>9

(* The run of the table over a text: the state after each byte.            *)
Run(f, s, q) == /\ f \in [0..Len(s) -> 0..8]
                /\ f[0] = q
                /\ \A k \in 1..Len(s) : f[k] = goes_on(f[k - 1], type(s[k]))

LEMMA RunExists ==
  ASSUME NEW s \in Seq(Byte), NEW q \in 0..8
  PROVE  \E f : Run(f, s, q)
<1> DEFINE n == Len(s)
           Upto(f, m) == /\ f \in [0..m -> 0..8]
                         /\ f[0] = q
                         /\ \A k \in 1..m : f[k] = goes_on(f[k - 1], type(s[k]))
           Exists(m) == \E f : Upto(f, m)
           Bad == {m \in 0..n : ~Exists(m)}
<1> HIDE DEF Exists
<1>0. n \in Nat /\ Bad \in SUBSET Nat /\ \A k \in 1..n : s[k] \in Byte
  BY ElementOfSeq
<1> HIDE DEF n
<1>1. ASSUME Bad = {} PROVE \E f : Run(f, s, q)
  <2>1. n \in 0..n /\ n \notin Bad
    BY <1>0, <1>1
  <2>2. Exists(n)
    BY <2>1
  <2> QED
    BY <2>2 DEF Exists, Run, n
<1> SUFFICES ASSUME Bad # {} PROVE FALSE
  BY <1>1
<1> HIDE DEF Bad
<1>2. PICK m \in Bad : \A k \in Bad : m <= k
  BY <1>0, Least
<1> USE DEF Bad
<1>3. ASSUME m = 0 PROVE FALSE
  <2>1. Upto([k \in 0..0 |-> q], 0)
    OBVIOUS
  <2>2. Exists(0)
    BY <2>1 DEF Exists
  <2> QED
    BY <1>2, <1>3, <2>2
<1>4. m - 1 \in 0..n /\ m \in 1..n /\ ~(m <= m - 1)
  BY <1>0, <1>2, <1>3
<1>5. Exists(m - 1)
  BY <1>2, <1>4
<1>6. PICK f : Upto(f, m - 1)
  BY <1>5 DEF Exists
<1> DEFINE g == [k \in 0..m |-> IF k = m THEN goes_on(f[m - 1], type(s[m])) ELSE f[k]]
<1>7. g \in [0..m -> 0..8]
  <2>1. f[m - 1] \in 0..8 /\ s[m] \in Byte
    BY <1>0, <1>4, <1>6
  <2>2. goes_on(f[m - 1], type(s[m])) \in 0..8
    BY <2>1, Table
  <2> QED
    BY <1>4, <1>6, <2>2
<1>8. g[0] = q
  BY <1>4, <1>6
<1>9. ASSUME NEW k \in 1..m PROVE g[k] = goes_on(g[k - 1], type(s[k]))
  <2>1. g[k - 1] = f[k - 1]
    BY <1>4
  <2>2. CASE k = m
    BY <1>4, <2>1, <2>2
  <2>3. CASE k # m
    <3>1. k \in 1..m-1 /\ g[k] = f[k]
      BY <1>4, <2>3
    <3> QED
      BY <1>6, <2>1, <3>1
  <2> QED
    BY <2>2, <2>3
<1>10. Upto(g, m)
  BY <1>7, <1>8, <1>9
<1>11. Exists(m)
  BY <1>10 DEF Exists
<1> QED
  BY <1>2, <1>4, <1>11

LEMMA RunIs ==
  ASSUME NEW s \in Seq(Byte), NEW q \in 0..8, NEW f, Run(f, s, q)
  PROVE  valid_utf8(s, q) = f[Len(s)]
<1> DEFINE n == Len(s)
           Recursive(g) == g = [k \in 0..n |-> IF k = 0 THEN q ELSE goes_on(g[k - 1], type(s[k]))]
           after == CHOOSE g : Recursive(g)
<1>0. n \in Nat /\ n \in 0..n
  OBVIOUS
<1>1. valid_utf8(s, q) = after[n]
  BY DEF valid_utf8
<1> HIDE DEF n
<1>2. Recursive(f)
  <2>1. f \in [0..n -> 0..8] /\ f[0] = q
        /\ \A k \in 1..n : f[k] = goes_on(f[k - 1], type(s[k]))
    BY DEF Run, n
  <2>2. ASSUME NEW k \in 0..n
        PROVE  f[k] = IF k = 0 THEN q ELSE goes_on(f[k - 1], type(s[k]))
    BY <1>0, <2>1
  <2>3. f = [k \in 0..n |-> f[k]]
    BY <2>1
  <2> QED
    BY <2>2, <2>3
<1>3. Recursive(after)
  BY <1>2
<1> HIDE DEF after
<1>4. HandsOn(after, f, n)
  <2>1. after[0] = f[0]
    BY <1>0, <1>3 DEF Run
  <2>2. ASSUME NEW k \in 1..n, after[k - 1] = f[k - 1] PROVE after[k] = f[k]
    <3>1. after[k] = goes_on(after[k - 1], type(s[k]))
      BY <1>0, <1>3
    <3>2. f[k] = goes_on(f[k - 1], type(s[k]))
      BY DEF Run, n
    <3> QED
      BY <2>2, <3>1, <3>2
  <2> QED
    BY <2>1, <2>2 DEF HandsOn
<1>5. after[n] = f[n]
  BY <1>0, <1>4, AllAlong
<1> QED
  BY <1>1, <1>5 DEF n

(* The state 1 is never left.                                              *)
LEMMA RunRefuses ==
  ASSUME NEW s \in Seq(Byte), NEW q \in 0..8, NEW f, Run(f, s, q),
         NEW k \in 0..Len(s), f[k] = 1, NEW m \in k..Len(s)
  PROVE  f[m] = 1
<1> DEFINE n == Len(s)
           Bad == {j \in k..n : f[j] # 1}
<1>0. n \in Nat /\ k \in Nat /\ k <= n
  OBVIOUS
<1>1. Bad \in SUBSET Nat
  BY <1>0
<1> SUFFICES ASSUME Bad # {} PROVE FALSE
  OBVIOUS
<1> HIDE DEF Bad
<1>2. PICK j \in Bad : \A z \in Bad : j <= z
  BY <1>1, Least
<1> USE DEF Bad
<1>3. j \in k..n /\ j # k
  BY <1>2
<1>4. j - 1 \in k..n /\ j \in 1..n /\ ~(j <= j - 1)
  BY <1>0, <1>3
<1>5. f[j - 1] = 1
  BY <1>2, <1>4
<1>6. f[j] = goes_on(f[j - 1], type(s[j]))
  BY <1>4 DEF Run
<1>a. s[j] \in Byte
  BY <1>4, ElementOfSeq
<1>7. f[j] = 1
  BY <1>5, <1>6, <1>a, Table
<1> QED
  BY <1>2, <1>7

(* A run over one text and another goes on where the first ends.           *)
LEMMA RunOfBoth ==
  ASSUME NEW s \in Seq(Byte), NEW t \in Seq(Byte), NEW q \in 0..8
  PROVE  /\ valid_utf8(s, q) \in 0..8
         /\ valid_utf8(s \o t, q) = valid_utf8(t, valid_utf8(s, q))
<1>0. s \o t \in Seq(Byte) /\ Len(s) \in Nat /\ Len(t) \in Nat /\ Len(s \o t) = Len(s) + Len(t)
  OBVIOUS
<1>1. PICK f : Run(f, s \o t, q)
  BY <1>0, RunExists
<1>2. valid_utf8(s \o t, q) = f[Len(s) + Len(t)]
  BY <1>0, <1>1, RunIs
<1> DEFINE g == [k \in 0..Len(s) |-> f[k]]
           h == [k \in 0..Len(t) |-> f[Len(s) + k]]
<1>3. /\ f \in [0..Len(s) + Len(t) -> 0..8] /\ f[0] = q
      /\ \A k \in 1..Len(s) + Len(t) : f[k] = goes_on(f[k - 1], type((s \o t)[k]))
  BY <1>0, <1>1 DEF Run
<1>4. Run(g, s, q)
  <2>1. g \in [0..Len(s) -> 0..8] /\ g[0] = q
    BY <1>0, <1>3
  <2>2. ASSUME NEW k \in 1..Len(s) PROVE g[k] = goes_on(g[k - 1], type(s[k]))
    <3>1. g[k] = f[k] /\ g[k - 1] = f[k - 1] /\ (s \o t)[k] = s[k] /\ k \in 1..Len(s) + Len(t)
      BY <1>0
    <3> QED
      BY <1>3, <3>1
  <2> QED
    BY <2>1, <2>2 DEF Run
<1>5. valid_utf8(s, q) = f[Len(s)] /\ f[Len(s)] \in 0..8
  <2>1. valid_utf8(s, q) = g[Len(s)]
    BY <1>4, RunIs
  <2> QED
    BY <1>0, <1>3, <2>1
<1>6. Run(h, t, f[Len(s)])
  <2>1. h \in [0..Len(t) -> 0..8] /\ h[0] = f[Len(s)]
    BY <1>0, <1>3
  <2>2. ASSUME NEW k \in 1..Len(t) PROVE h[k] = goes_on(h[k - 1], type(t[k]))
    <3>1. PICK z \in 1..Len(s) + Len(t) : z = Len(s) + k
      BY <1>0
    <3>2. h[k] = f[z] /\ h[k - 1] = f[z - 1] /\ (s \o t)[z] = t[k]
      BY <1>0, <3>1
    <3>3. f[z] = goes_on(f[z - 1], type((s \o t)[z]))
      BY <1>3
    <3> QED
      BY <3>2, <3>3
  <2> QED
    BY <2>1, <2>2 DEF Run
<1>7. valid_utf8(t, f[Len(s)]) = h[Len(t)]
  BY <1>5, <1>6, RunIs
<1>8. h[Len(t)] = f[Len(s) + Len(t)]
  BY <1>0
<1> QED
  BY <1>2, <1>5, <1>7, <1>8

(* What a character of each length is.                                     *)
LEMMA Surrogate ==
  ASSUME NEW point \in Int
  PROVE  point \in Surrogates <=> 55296 <= point /\ point <= 57343
BY SMT DEF Surrogates

LEMMA CharacterOfOne ==
  ASSUME NEW c \in Seq(Byte), Len(c) = 1
  PROVE  Character(c) <=> c[1] < 128
<1>1. c[1] \in Byte
  BY ElementOfSeq
<1>2. c[1] \in Int /\ c[1] <= 255
  BY <1>1, Bytes
<1>3. CodePoint(c) = c[1]
  BY SMT DEF CodePoint
<1>4. CodePoint(c) \notin Surrogates
  BY <1>2, <1>3, Surrogate, SMT
<1> QED
  BY <1>3, <1>4, SMT DEF Character

Spell2(b, c)       == (b - 192) * 64 + (c - 128)
Spell3(b, c, d)    == (b - 224) * 4096 + (c - 128) * 64 + (d - 128)
Spell4(b, c, d, e) == (b - 240) * 262144 + (c - 128) * 4096 + (d - 128) * 64 + (e - 128)

LEMMA TwoBytesSpell ==
  ASSUME NEW b \in Int, NEW c \in Int, 128 <= c, c <= 191,
         NEW point \in Int, point = Spell2(b, c)
  PROVE  b \in 192..223 /\ point >= 128 /\ point \notin Surrogates <=> b \in 194..223
<1>1. point \in Surrogates <=> 55296 <= point /\ point <= 57343
  BY Surrogate
<1> QED
  BY <1>1, SMT DEF Spell2

LEMMA CharacterOfTwo ==
  ASSUME NEW c \in Seq(Byte), Len(c) = 2, c[2] \in Continuation
  PROVE  Character(c) <=> c[1] \in 194..223
<1>1. c[1] \in Byte
  BY ElementOfSeq
<1>2. PICK b \in Int, d \in Int : c[1] = b /\ c[2] = d /\ 128 <= d /\ d <= 191
  BY <1>1, Bytes, Continuations
<1>3. PICK point \in Int : CodePoint(c) = point /\ point = Spell2(b, d)
  BY <1>2, SMT DEF CodePoint, Spell2
<1>4. \A k \in 2..Len(c) : c[k] \in Continuation
  OBVIOUS
<1>5. Character(c) <=> b \in 192..223 /\ point >= 128 /\ point \notin Surrogates
  BY <1>2, <1>3, <1>4, SMT DEF Character
<1>6. b \in 192..223 /\ point >= 128 /\ point \notin Surrogates <=> b \in 194..223
  BY <1>2, <1>3, TwoBytesSpell
<1> QED
  BY <1>2, <1>5, <1>6

LEMMA ThreeBytesSpell ==
  ASSUME NEW b \in Int, NEW c \in Int, NEW d \in Int,
         128 <= c, c <= 191, 128 <= d, d <= 191,
         NEW point \in Int, point = Spell3(b, c, d)
  PROVE  b \in 224..239 /\ point >= 2048 /\ point \notin Surrogates
           <=> b \in 225..236 \cup 238..239 \/ (b = 224 /\ c >= 160) \/ (b = 237 /\ c < 160)
<1>1. point \in Surrogates <=> 55296 <= point /\ point <= 57343
  BY Surrogate
<1> QED
  BY <1>1, SMT DEF Spell3

LEMMA CharacterOfThree ==
  ASSUME NEW c \in Seq(Byte), Len(c) = 3, c[2] \in Continuation, c[3] \in Continuation
  PROVE  Character(c) <=> \/ c[1] \in 225..236 \cup 238..239
                          \/ c[1] = 224 /\ c[2] >= 160
                          \/ c[1] = 237 /\ c[2] < 160
<1>1. c[1] \in Byte
  BY ElementOfSeq
<1>2. PICK b \in Int, d \in Int, e \in Int : 
         /\ c[1] = b /\ c[2] = d /\ c[3] = e
         /\ 128 <= d /\ d <= 191 /\ 128 <= e /\ e <= 191
  BY <1>1, Bytes, Continuations
<1>3. PICK point \in Int : CodePoint(c) = point /\ point = Spell3(b, d, e)
  BY <1>2, SMT DEF CodePoint, Spell3
<1>4. \A k \in 2..Len(c) : c[k] \in Continuation
  BY SMT
<1>5. Character(c) <=> b \in 224..239 /\ point >= 2048 /\ point \notin Surrogates
  BY <1>2, <1>3, <1>4, SMT DEF Character
<1>6. b \in 224..239 /\ point >= 2048 /\ point \notin Surrogates
           <=> b \in 225..236 \cup 238..239 \/ (b = 224 /\ d >= 160) \/ (b = 237 /\ d < 160)
  BY <1>2, <1>3, ThreeBytesSpell
<1> QED
  BY <1>2, <1>5, <1>6

LEMMA FourBytesSpell ==
  ASSUME NEW b \in Int, NEW c \in Int, NEW d \in Int, NEW e \in Int,
         128 <= c, c <= 191, 128 <= d, d <= 191, 128 <= e, e <= 191,
         NEW point \in Int,
         point = Spell4(b, c, d, e)
  PROVE  b \in 240..247 /\ 65536 <= point /\ point <= 1114111 /\ point \notin Surrogates
           <=> (b = 240 /\ c >= 144) \/ b \in 241..243 \/ (b = 244 /\ c < 144)
<1>1. point \in Surrogates <=> 55296 <= point /\ point <= 57343
  BY Surrogate, SMT
<1> QED
  BY <1>1, SMT DEF Spell4

LEMMA CharacterOfFour ==
  ASSUME NEW c \in Seq(Byte), Len(c) = 4,
         c[2] \in Continuation, c[3] \in Continuation, c[4] \in Continuation
  PROVE  Character(c) <=> \/ c[1] = 240 /\ c[2] >= 144
                          \/ c[1] \in 241..243
                          \/ c[1] = 244 /\ c[2] < 144
<1>1. c[1] \in Byte
  BY ElementOfSeq
<1>2. PICK b \in Int, d \in Int, e \in Int, g \in Int : 
         /\ c[1] = b /\ c[2] = d /\ c[3] = e /\ c[4] = g
         /\ 128 <= d /\ d <= 191 /\ 128 <= e /\ e <= 191 /\ 128 <= g /\ g <= 191
  BY <1>1, Bytes, Continuations
<1>3. PICK point \in Int :
         /\ CodePoint(c) = point
         /\ point = Spell4(b, d, e, g)
  BY <1>2, SMT DEF CodePoint, Spell4
<1>4. \A k \in 2..Len(c) : c[k] \in Continuation
  BY SMT
<1>5. Character(c)
        <=> b \in 240..247 /\ 65536 <= point /\ point <= 1114111 /\ point \notin Surrogates
  BY <1>2, <1>3, <1>4, SMT DEF Character
<1>6. b \in 240..247 /\ 65536 <= point /\ point <= 1114111 /\ point \notin Surrogates
        <=> (b = 240 /\ d >= 144) \/ b \in 241..243 \/ (b = 244 /\ d < 144)
  BY <1>2, <1>3, FourBytesSpell, SMT
<1> QED
  BY <1>2, <1>5, <1>6, SMT

(* From one start to the next, the run that began in 0 ends in 0 if and     *)
(* only if the bytes between are a character.                              *)
LEMMA PieceRun ==
  ASSUME NEW s \in Seq(Byte), NEW f, Run(f, s, 0),
         NEW k \in 1..Len(s), NEW m \in k..Len(s), f[k - 1] = 0,
         \A j \in k+1..m : s[j] \in Continuation
  PROVE  f[m] = 0 <=> Character(SubSeq(s, k, m))
<1> DEFINE c == SubSeq(s, k, m)
<1>0. /\ Len(s) \in Nat /\ k \in Nat /\ m \in Nat /\ 1 <= k /\ k <= m /\ m <= Len(s)
  OBVIOUS
<1>1. /\ c \in Seq(Byte) /\ Len(c) = m - k + 1
      /\ \A j \in 1..m-k+1 : c[j] = s[k + j - 1]
  BY <1>0, SubSeqProperties
<1>2. \A j \in 1..Len(s) : f[j] = goes_on(f[j - 1], type(s[j])) /\ s[j] \in Byte
  BY ElementOfSeq DEF Run
<1>3. \A j \in 0..Len(s) : f[j] \in 0..8
  BY DEF Run
<1> HIDE DEF c
<1>4. f[k] = goes_on(0, type(s[k])) /\ s[k] \in Byte /\ c[1] = s[k]
  BY <1>0, <1>1, <1>2
<1>5. CASE m = k
  <2>1. Len(c) = 1
    BY <1>0, <1>1, <1>5
  <2>2. Character(c) <=> s[k] < 128
    BY <1>1, <1>4, <2>1, CharacterOfOne
  <2>3. f[m] = 0 <=> s[k] < 128
    BY <1>4, <1>5, OneByteOfTable
  <2> QED
    BY <2>2, <2>3 DEF c
<1>6. ASSUME m > k
      PROVE  /\ f[k + 1] = goes_on(f[k], type(s[k + 1]))
             /\ s[k + 1] \in Continuation /\ c[2] = s[k + 1]
  <2>1. k + 1 \in 1..Len(s) /\ k + 1 \in k+1..m /\ 2 \in 1..m-k+1 /\ k + 1 - 1 = k /\ k + 2 - 1 = k + 1
    BY <1>0, <1>6
  <2> QED
    BY <1>1, <1>2, <2>1
<1>7. ASSUME m > k + 1
      PROVE  /\ f[k + 2] = goes_on(f[k + 1], type(s[k + 2]))
             /\ s[k + 2] \in Continuation /\ c[3] = s[k + 2]
  <2>1. k + 2 \in 1..Len(s) /\ k + 2 \in k+1..m /\ 3 \in 1..m-k+1 /\ k + 2 - 1 = k + 1 /\ k + 3 - 1 = k + 2
    BY <1>0, <1>7
  <2> QED
    BY <1>1, <1>2, <2>1
<1>8. ASSUME m > k + 2
      PROVE  /\ f[k + 3] = goes_on(f[k + 2], type(s[k + 3]))
             /\ s[k + 3] \in Continuation /\ c[4] = s[k + 3]
  <2>1. k + 3 \in 1..Len(s) /\ k + 3 \in k+1..m /\ 4 \in 1..m-k+1 /\ k + 3 - 1 = k + 2 /\ k + 4 - 1 = k + 3
    BY <1>0, <1>8
  <2> QED
    BY <1>1, <1>2, <2>1
<1>9. CASE m = k + 1
  <2>1. Len(c) = 2 /\ m > k
    BY <1>0, <1>1, <1>9
  <2>2. Character(c) <=> s[k] \in 194..223
    BY <1>1, <1>4, <1>6, <2>1, CharacterOfTwo
  <2>3. f[m] = goes_on(f[k], type(s[k + 1])) /\ s[k + 1] \in Continuation
    BY <1>6, <1>9, <2>1
  <2>4. f[m] = 0 <=> s[k] \in 194..223
    BY <1>4, <2>3, TwoBytesOfTable
  <2> QED
    BY <2>2, <2>4 DEF c
<1>10. CASE m = k + 2
  <2>1. Len(c) = 3 /\ m > k /\ m > k + 1
    BY <1>0, <1>1, <1>10
  <2> DEFINE Spelt == \/ s[k] \in 225..236 \cup 238..239
                      \/ s[k] = 224 /\ s[k + 1] >= 160
                      \/ s[k] = 237 /\ s[k + 1] < 160
  <2>2. Character(c) <=> Spelt
    <3>1. /\ c \in Seq(Byte) /\ Len(c) = 3 /\ c[2] \in Continuation /\ c[3] \in Continuation
          /\ c[1] = s[k] /\ c[2] = s[k + 1]
      BY <1>1, <1>4, <1>6, <1>7, <2>1
    <3>2. Character(c) <=> \/ c[1] \in 225..236 \cup 238..239
                           \/ c[1] = 224 /\ c[2] >= 160
                           \/ c[1] = 237 /\ c[2] < 160
      BY <3>1, CharacterOfThree
    <3> QED
      BY <3>1, <3>2
  <2>3. f[m] = 0 <=> Spelt
    <3>1. /\ f[m] = goes_on(f[k + 1], type(s[k + 2])) /\ f[k + 1] = goes_on(f[k], type(s[k + 1]))
          /\ s[k + 1] \in Continuation /\ s[k + 2] \in Continuation
      BY <1>6, <1>7, <1>10, <2>1
    <3> QED
      BY <1>4, <3>1, ThreeBytesOfTable, SMTT(30)
  <2> HIDE DEF Spelt
  <2> QED
    BY <2>2, <2>3 DEF c
<1>11. ASSUME m >= k + 3
       PROVE  /\ f[k + 3] = 0 <=> \/ s[k] = 240 /\ s[k + 1] >= 144
                                  \/ s[k] \in 241..243
                                  \/ s[k] = 244 /\ s[k + 1] < 144
              /\ f[k + 3] \in {0, 1}
  <2>1. m > k /\ m > k + 1 /\ m > k + 2
    BY <1>0, <1>11
  <2> QED
    BY <1>4, <1>6, <1>7, <1>8, <2>1, FourBytesOfTable
<1>12. CASE m = k + 3
  <2>1. Len(c) = 4 /\ m > k /\ m > k + 1 /\ m > k + 2 /\ m >= k + 3
    BY <1>0, <1>1, <1>12
  <2> DEFINE Spelt == \/ s[k] = 240 /\ s[k + 1] >= 144
                      \/ s[k] \in 241..243
                      \/ s[k] = 244 /\ s[k + 1] < 144
  <2>2. Character(c) <=> Spelt
    <3>1. /\ c \in Seq(Byte) /\ Len(c) = 4
          /\ c[2] \in Continuation /\ c[3] \in Continuation /\ c[4] \in Continuation
          /\ c[1] = s[k] /\ c[2] = s[k + 1]
      BY <1>1, <1>4, <1>6, <1>7, <1>8, <2>1
    <3>2. Character(c) <=> \/ c[1] = 240 /\ c[2] >= 144
                           \/ c[1] \in 241..243
                           \/ c[1] = 244 /\ c[2] < 144
      BY <3>1, CharacterOfFour
    <3> QED
      BY <3>1, <3>2
  <2>3. f[m] = 0 <=> Spelt
    BY <1>11, <1>12, <2>1
  <2> HIDE DEF Spelt
  <2> QED
    BY <2>2, <2>3 DEF c
<1>13. CASE m > k + 3
  <2>1. ~Character(c)
    <3>1. Len(c) > 4
      BY <1>0, <1>1, <1>13
    <3> QED
      BY <1>1, <3>1 DEF Character
  <2>2. PICK j \in 1..Len(s) : j = k + 4 /\ j - 1 = k + 3 /\ j \in k+1..m /\ m \in j..Len(s) /\ j \in 0..Len(s)
    BY <1>0, <1>13
  <2>3. f[j - 1] \in {0, 1} /\ s[j] \in Continuation /\ s[j] \in Byte
    BY <1>0, <1>2, <1>11, <1>13, <2>2
  <2>4. f[j] = 1
    BY <1>2, <2>3, Table
  <2>5. 0 \in 0..8
    OBVIOUS
  <2>6. f[m] = 1
    BY <2>2, <2>4, <2>5, RunRefuses
  <2> QED
    BY <2>1, <2>6 DEF c
<1> QED
  BY <1>0, <1>5, <1>9, <1>10, <1>12, <1>13

(* The piece that begins at k ends at m.                                   *)
LastOf(s, k, m) == /\ m \in k..Len(s)
                   /\ \A j \in k+1..m : j \notin Starts(s)
                   /\ m = Len(s) \/ m + 1 \in Starts(s)

LEMMA PieceEnds ==
  ASSUME NEW s \in Seq(Byte), NEW k \in Starts(s)
  PROVE  \E m : LastOf(s, k, m)
<1> DEFINE T == {m \in k..Len(s) : m = Len(s) \/ m + 1 \in Starts(s)}
<1>0. k \in 1..Len(s) /\ Len(s) \in Nat
  BY DEF Starts
<1>1. T \in SUBSET Nat /\ Len(s) \in T
  BY <1>0
<1> HIDE DEF T
<1>2. PICK m \in T : \A j \in T : m <= j
  BY <1>1, Least
<1>3. m \in k..Len(s) /\ (m = Len(s) \/ m + 1 \in Starts(s))
  BY <1>2 DEF T
<1>4. ASSUME NEW j \in k+1..m, j \in Starts(s) PROVE FALSE
  <2>1. j - 1 \in k..Len(s) /\ j - 1 + 1 = j /\ ~(m <= j - 1)
    BY <1>0, <1>3
  <2>2. j - 1 \in T
    BY <1>4, <2>1 DEF T
  <2> QED
    BY <1>2, <2>1, <2>2
<1> QED
  BY <1>3, <1>4 DEF LastOf

LEMMA PieceIs ==
  ASSUME NEW s \in Seq(Byte), NEW k \in Starts(s), NEW m, LastOf(s, k, m)
  PROVE  Piece(s, k) = SubSeq(s, k, m)
<1> DEFINE P(n) == /\ \A j \in k+1..n : j \notin Starts(s)
                   /\ n = Len(s) \/ n + 1 \in Starts(s)
           last == CHOOSE n \in k..Len(s) : P(n)
<1>0. k \in 1..Len(s) /\ Len(s) \in Nat
  BY DEF Starts
<1>1. Piece(s, k) = SubSeq(s, k, last)
  BY DEF Piece
<1>2. m \in k..Len(s) /\ P(m)
  BY DEF LastOf
<1>3. last \in k..Len(s) /\ P(last)
  BY <1>2, Zenon
<1> HIDE DEF last
<1>4. ASSUME m < last PROVE FALSE
  <2>1. m + 1 \in Starts(s) /\ m + 1 \in k+1..last
    BY <1>0, <1>2, <1>3, <1>4
  <2> QED
    BY <1>3, <2>1
<1>5. ASSUME last < m PROVE FALSE
  <2>1. last + 1 \in Starts(s) /\ last + 1 \in k+1..m
    BY <1>0, <1>2, <1>3, <1>5
  <2> QED
    BY <1>2, <2>1
<1>6. last = m
  BY <1>0, <1>2, <1>3, <1>4, <1>5
<1> QED
  BY <1>1, <1>6

(* A run that ends in 0 is in 0 before every start.                        *)
LEMMA StartAtZero ==
  ASSUME NEW s \in Seq(Byte), NEW f, Run(f, s, 0), f[Len(s)] = 0, NEW k \in Starts(s)
  PROVE  f[k - 1] = 0
<1>0. k \in 1..Len(s) /\ k - 1 \in 0..Len(s) /\ k \in 0..Len(s) /\ Len(s) \in k..Len(s)
      /\ 0 \in 0..8
  BY DEF Starts
<1>1. CASE k = 1
  BY <1>1 DEF Run
<1>2. CASE k # 1
  <2>1. s[k] \in Byte \ Continuation
    BY <1>0, <1>2, ElementOfSeq DEF Starts
  <2> SUFFICES ASSUME f[k - 1] # 0 PROVE FALSE
    OBVIOUS
  <2>2. f[k - 1] \in 1..8
    BY <1>0 DEF Run
  <2>3. f[k] = goes_on(f[k - 1], type(s[k]))
    BY <1>0 DEF Run
  <2>4. f[k] = 1
    BY <2>1, <2>2, <2>3, Table
  <2>5. f[Len(s)] = 1
    BY <1>0, <2>4, RunRefuses
  <2> QED
    BY <2>5
<1> QED
  BY <1>1, <1>2

LEMMA TailContinues ==
  ASSUME NEW s \in Seq(Byte), NEW k \in Starts(s), NEW m, LastOf(s, k, m)
  PROVE  \A j \in k+1..m : s[j] \in Continuation
<1>0. k \in 1..Len(s) /\ Len(s) \in Nat /\ m \in k..Len(s)
  BY DEF Starts, LastOf
<1>1. ASSUME NEW j \in k+1..m PROVE s[j] \in Continuation
  <2>1. j \in 1..Len(s) /\ j # 1 /\ j \notin Starts(s)
    BY <1>0 DEF LastOf
  <2> QED
    BY <2>1 DEF Starts
<1> QED
  BY <1>1

(* A run that began and ends in 0 is one over well-formed text.            *)
LEMMA AcceptedIsWellFormed ==
  ASSUME NEW s \in Seq(Byte), NEW f, Run(f, s, 0), f[Len(s)] = 0
  PROVE  WellFormed(s)
<1> SUFFICES ASSUME NEW k \in Starts(s) PROVE Character(Piece(s, k))
  BY DEF WellFormed
<1>1. PICK m : LastOf(s, k, m)
  BY PieceEnds
<1>2. k \in 1..Len(s) /\ m \in k..Len(s)
  BY <1>1 DEF Starts, LastOf
<1>3. f[k - 1] = 0
  BY StartAtZero
<1>4. f[m] = 0
  <2>1. CASE m = Len(s)
    BY <2>1
  <2>2. CASE m # Len(s)
    <3>1. PICK z \in Starts(s) : z = m + 1 /\ z - 1 = m
      BY <1>1, <1>2, <2>2 DEF LastOf
    <3>2. f[z - 1] = 0
      BY StartAtZero
    <3> QED
      BY <3>1, <3>2
  <2> QED
    BY <2>1, <2>2
<1>5. \A j \in k+1..m : s[j] \in Continuation
  BY <1>1, TailContinues
<1>6. Character(SubSeq(s, k, m))
  BY <1>2, <1>3, <1>4, <1>5, PieceRun
<1> QED
  BY <1>1, <1>6, PieceIs

LEMMA WellFormedIsAccepted ==
  ASSUME NEW s \in Seq(Byte), NEW f, Run(f, s, 0), WellFormed(s)
  PROVE  f[Len(s)] = 0
<1> DEFINE n == Len(s)
           Bad == {k \in 1..n+1 : (k = n + 1 \/ k \in Starts(s)) /\ f[k - 1] # 0}
<1>0. n \in Nat
  OBVIOUS
<1> SUFFICES ASSUME f[n] # 0 PROVE FALSE
  OBVIOUS
<1>1. Bad \in SUBSET Nat /\ n + 1 \in Bad
  <2>1. n + 1 - 1 = n /\ n + 1 \in 1..n+1
    BY <1>0
  <2> QED
    BY <2>1
<1> HIDE DEF Bad
<1>2. PICK k \in Bad : \A j \in Bad : k <= j
  BY <1>1, Least
<1>3. k \in 1..n+1 /\ (k = n + 1 \/ k \in Starts(s)) /\ f[k - 1] # 0
  BY <1>2 DEF Bad
<1>4. k # 1
  BY <1>3 DEF Run
<1>5. 1 \in Starts(s)
  BY <1>3, <1>4 DEF Starts
<1> DEFINE D == {d \in 0..k : k - 1 - d \in Starts(s)}
<1>6. D \in SUBSET Nat /\ k - 2 \in D
  <2>1. k - 1 - (k - 2) = 1 /\ k - 2 \in 0..k
    BY <1>3, <1>4
  <2> QED
    BY <1>3, <1>5, <2>1
<1> HIDE DEF D
<1>7. PICK d \in D : \A e \in D : d <= e
  BY <1>6, Least
<1>8. PICK z \in Starts(s) : z = k - 1 - d
  BY <1>7 DEF D
<1>9. d \in 0..k /\ z \in 1..n
  BY <1>7 DEF D, Starts
<1>10. LastOf(s, z, k - 1)
  <2>1. k - 1 \in z..n
    BY <1>0, <1>3, <1>8, <1>9
  <2>2. ASSUME NEW j \in z+1..k-1, j \in Starts(s) PROVE FALSE
    <3>1. PICK e \in 0..k : e = k - 1 - j /\ k - 1 - e = j /\ ~(d <= e)
      BY <1>0, <1>3, <1>8, <1>9
    <3>2. e \in D
      BY <2>2, <3>1 DEF D
    <3> QED
      BY <1>7, <3>1, <3>2
  <2>3. k - 1 = n \/ k - 1 + 1 \in Starts(s)
    BY <1>0, <1>3
  <2> QED
    BY <2>1, <2>2, <2>3 DEF LastOf
<1>11. z \notin Bad
  BY <1>0, <1>2, <1>3, <1>8, <1>9
<1>12. f[z - 1] = 0
  BY <1>9, <1>11 DEF Bad
<1>13. Character(SubSeq(s, z, k - 1))
  <2>1. Piece(s, z) = SubSeq(s, z, k - 1)
    BY <1>10, PieceIs
  <2> QED
    BY <2>1 DEF WellFormed
<1>14. \A j \in z+1..k-1 : s[j] \in Continuation
  BY <1>10, TailContinues
<1>15. k - 1 \in z..Len(s)
  BY <1>10 DEF LastOf
<1>16. f[k - 1] = 0
  BY <1>9, <1>12, <1>13, <1>14, <1>15, PieceRun
<1> QED
  BY <1>3, <1>16

(* cws.c:353-385: for a text of any length, the table ends in its accepting    *)
(* state exactly if the text is UTF-8 (RFC 3629).                           *)
THEOREM AcceptsUtf8 ==
  ASSUME NEW s \in Seq(Byte)
  PROVE  valid_utf8(s, 0) = 0 <=> WellFormed(s)
<1>1. 0 \in 0..8
  OBVIOUS
<1>2. PICK f : Run(f, s, 0)
  BY <1>1, RunExists
<1>3. valid_utf8(s, 0) = f[Len(s)]
  BY <1>1, <1>2, RunIs
<1>4. ASSUME f[Len(s)] = 0 PROVE WellFormed(s)
  BY <1>2, <1>4, AcceptedIsWellFormed
<1>5. ASSUME WellFormed(s) PROVE f[Len(s)] = 0
  BY <1>2, <1>5, WellFormedIsAccepted
<1> QED
  BY <1>3, <1>4, <1>5

(* Behind well-formed text, text is well-formed if it would be by itself.   *)
LEMMA WellFormedBoth ==
  ASSUME NEW s \in Seq(Byte), NEW t \in Seq(Byte), WellFormed(s)
  PROVE  WellFormed(s \o t) <=> WellFormed(t)
<1>1. 0 \in 0..8 /\ s \o t \in Seq(Byte)
  OBVIOUS
<1>2. valid_utf8(s, 0) = 0
  BY AcceptsUtf8
<1>3. valid_utf8(s \o t, 0) = valid_utf8(t, 0)
  BY <1>1, <1>2, RunOfBoth
<1> QED
  BY <1>1, <1>3, AcceptsUtf8

LEMMA FlattenEmpty ==
  ASSUME NEW n \in Nat, NEW F \in [1..n -> Seq(Byte)], \A k \in 1..n : F[k] = <<>>
  PROVE  FlattenSeq(F) = <<>>
<1> DEFINE f == [k \in 0..n |-> <<>>]
<1>1. f \in [0..n -> Seq(Byte)] /\ f[n] = <<>>
  OBVIOUS
<1>2. Joins(f, F, n)
  <2>1. f[0] = <<>>
    OBVIOUS
  <2>2. ASSUME NEW k \in 1..n PROVE f[k] = f[k - 1] \o F[k]
    <3>1. f[k] = <<>> /\ f[k - 1] = <<>> /\ F[k] = <<>>
      OBVIOUS
    <3>2. <<>> \o <<>> = <<>>
      BY ConcatEmptySeq, EmptySeq
    <3> QED
      BY <3>1, <3>2
  <2> QED
    BY <2>1, <2>2 DEF Joins
<1> HIDE DEF f
<1> QED
  BY <1>1, <1>2, FlattenIs

-----------------------------------------------------------------------------
(* The messages that frames make up, when one more is received.            *)

IsFragment(f)    == f.opcode \notin Control
EndsOf(r)        == {k \in 1..Len(r) : IsFragment(r[k]) /\ r[k].fin}
MessageOf(r, k)  == {j \in 1..k : IsFragment(r[j]) /\ \A e \in EndsOf(r) : e \notin j..k-1}
OpenOf(r)        == {j \in 1..Len(r) : IsFragment(r[j]) /\ \A e \in EndsOf(r) : e \notin j..Len(r)}
BytesOf(r, S, k) == [j \in 1..k |-> IF j \in S THEN r[j].payload ELSE <<>>]
CarriedOf(r, k)  == FlattenSeq(BytesOf(r, MessageOf(r, k), k))
GatheredOf(r)    == FlattenSeq(BytesOf(r, OpenOf(r), Len(r)))

LEMMA AppendIs ==
  ASSUME NEW S, NEW r \in Seq(S), NEW f \in S
  PROVE  /\ Append(r, f) \in Seq(S) /\ Len(r) \in Nat
         /\ Len(Append(r, f)) = Len(r) + 1
         /\ Append(r, f)[Len(r) + 1] = f
         /\ \A k \in 1..Len(r) : Append(r, f)[k] = r[k]
OBVIOUS

LEMMA EndsAppend ==
  ASSUME NEW S, NEW r \in Seq(S), NEW f \in S
  PROVE  EndsOf(Append(r, f)) = EndsOf(r) \cup (IF IsFragment(f) /\ f.fin THEN {Len(r) + 1} ELSE {})
<1> DEFINE q == Append(r, f)
           n == Len(r)
<1>1. /\ n \in Nat /\ Len(q) = n + 1 /\ q[n + 1] = f
      /\ \A k \in 1..n : q[k] = r[k]
  BY AppendIs
<1> HIDE DEF q
<1>2. EndsOf(q) = {k \in 1..n+1 : IsFragment(q[k]) /\ q[k].fin}
  BY <1>1 DEF EndsOf
<1>3. EndsOf(r) = {k \in 1..n : IsFragment(r[k]) /\ r[k].fin}
  BY DEF EndsOf
<1>4. \A k \in 1..n+1 : k \in 1..n \/ k = n + 1
  BY <1>1
<1>5. \A k \in 1..n : k \in 1..n+1 /\ k # n + 1
  BY <1>1
<1>6. n + 1 \in 1..n+1
  BY <1>1
<1> HIDE DEF n
<1>7. ASSUME NEW k \in EndsOf(q)
      PROVE  k \in EndsOf(r) \cup (IF IsFragment(f) /\ f.fin THEN {n + 1} ELSE {})
  <2>1. k \in 1..n+1 /\ IsFragment(q[k]) /\ q[k].fin
    BY <1>2
  <2>2. CASE k \in 1..n
    BY <1>1, <1>3, <2>1, <2>2
  <2>3. CASE k = n + 1
    BY <1>1, <2>1, <2>3
  <2> QED
    BY <1>4, <2>1, <2>2, <2>3
<1>8. ASSUME NEW k \in EndsOf(r) PROVE k \in EndsOf(q)
  <2>1. k \in 1..n /\ IsFragment(r[k]) /\ r[k].fin
    BY <1>3
  <2> QED
    BY <1>1, <1>2, <1>5, <2>1
<1>9. IsFragment(f) /\ f.fin => n + 1 \in EndsOf(q)
  BY <1>1, <1>2, <1>6
<1> QED
  BY <1>7, <1>8, <1>9 DEF n, q

LEMMA MessageAppend ==
  ASSUME NEW S, NEW r \in Seq(S), NEW f \in S, NEW k \in 1..Len(r)
  PROVE  /\ MessageOf(Append(r, f), k) = MessageOf(r, k)
         /\ CarriedOf(Append(r, f), k) = CarriedOf(r, k)
         /\ EndsOf(Append(r, f)) \cap 1..k = EndsOf(r) \cap 1..k
<1> DEFINE q == Append(r, f)
           n == Len(r)
<1>1. n \in Nat /\ \A j \in 1..n : q[j] = r[j]
  BY AppendIs
<1>2. EndsOf(q) = EndsOf(r) \cup (IF IsFragment(f) /\ f.fin THEN {n + 1} ELSE {})
  BY EndsAppend
<1> HIDE DEF q
<1>3. \A j \in 1..k : j \in 1..n /\ n + 1 \notin j..k-1 /\ n + 1 # j
  BY <1>1
<1> HIDE DEF n
<1>4. \A j \in 1..k : q[j] = r[j]
  BY <1>1, <1>3
<1>5. MessageOf(q, k) = MessageOf(r, k)
  BY <1>2, <1>3, <1>4 DEF MessageOf
<1>6. BytesOf(q, MessageOf(q, k), k) = BytesOf(r, MessageOf(r, k), k)
  BY <1>4, <1>5 DEF BytesOf
<1>7. EndsOf(q) \cap 1..k = EndsOf(r) \cap 1..k
  BY <1>2, <1>3
<1> QED
  BY <1>5, <1>6, <1>7 DEF q, CarriedOf

(* The least of a set of numbers.                                          *)
LEMMA MinIs ==
  ASSUME NEW T \in SUBSET Nat, T # {}
  PROVE  Min(T) \in T /\ \A x \in T : Min(T) <= x
<1>1. \E x \in T : \A y \in T : x <= y
  BY Least
<1> QED
  BY <1>1, Zenon DEF Min

LEMMA OpenAppend ==
  ASSUME NEW S, NEW r \in Seq(S), NEW f \in S
  PROVE  /\ IsFragment(f) => MessageOf(Append(r, f), Len(r) + 1) = OpenOf(r) \cup {Len(r) + 1}
         /\ IsFragment(f) /\ f.fin => OpenOf(Append(r, f)) = {}
         /\ IsFragment(f) /\ ~f.fin => OpenOf(Append(r, f)) = OpenOf(r) \cup {Len(r) + 1}
         /\ ~IsFragment(f) => OpenOf(Append(r, f)) = OpenOf(r)
<1> DEFINE q == Append(r, f)
           n == Len(r)
<1>1. /\ n \in Nat /\ Len(q) = n + 1 /\ q[n + 1] = f
      /\ \A k \in 1..n : q[k] = r[k]
  BY AppendIs
<1>2. EndsOf(q) = EndsOf(r) \cup (IF IsFragment(f) /\ f.fin THEN {n + 1} ELSE {})
  BY EndsAppend
<1> HIDE DEF q
<1>3. \A j \in 1..n+1 : /\ j \in 1..n \/ j = n + 1
                        /\ n + 1 \in j..n+1
                        /\ n + 1 \notin j..n+1-1
                        /\ \A e \in 1..n : (e \in j..n+1-1 <=> e \in j..n) /\ (e \in j..n+1 <=> e \in j..n)
  BY <1>1
<1>4. EndsOf(r) \subseteq 1..n
  BY DEF EndsOf
<1>5. \A j \in 1..n : j \in 1..n+1 /\ j # n + 1
  BY <1>1
<1>6. n + 1 \in 1..n+1 /\ \A e \in 1..n : e \notin n+1..n
  BY <1>1
<1>7. OpenOf(r) = {j \in 1..n : IsFragment(r[j]) /\ \A e \in EndsOf(r) : e \notin j..n}
  BY DEF OpenOf
<1>8. OpenOf(q) = {j \in 1..n+1 : IsFragment(q[j]) /\ \A e \in EndsOf(q) : e \notin j..n+1}
  BY <1>1 DEF OpenOf
<1>9. MessageOf(q, n + 1) = {j \in 1..n+1 : IsFragment(q[j]) /\ \A e \in EndsOf(q) : e \notin j..n+1-1}
  BY DEF MessageOf
<1> HIDE DEF n
<1>10. ASSUME IsFragment(f) PROVE MessageOf(q, n + 1) = OpenOf(r) \cup {n + 1}
  <2>1. ASSUME NEW j \in MessageOf(q, n + 1) PROVE j \in OpenOf(r) \cup {n + 1}
    <3>1. j \in 1..n+1 /\ IsFragment(q[j]) /\ \A e \in EndsOf(q) : e \notin j..n+1-1
      BY <1>9
    <3>2. ASSUME j \in 1..n PROVE j \in OpenOf(r)
      <4>1. IsFragment(r[j])
        BY <1>1, <3>1, <3>2
      <4>2. \A e \in EndsOf(r) : e \notin j..n
        BY <1>2, <1>3, <1>4, <3>1
      <4> QED
        BY <1>7, <3>2, <4>1, <4>2
    <3> QED
      BY <1>3, <3>1, <3>2
  <2>2. ASSUME NEW j \in OpenOf(r) PROVE j \in MessageOf(q, n + 1)
    <3>1. j \in 1..n /\ IsFragment(r[j]) /\ \A e \in EndsOf(r) : e \notin j..n
      BY <1>7
    <3>2. j \in 1..n+1 /\ IsFragment(q[j])
      BY <1>1, <1>5, <3>1
    <3>3. ASSUME NEW e \in EndsOf(q) PROVE e \notin j..n+1-1
      <4>1. CASE e \in EndsOf(r)
        BY <1>3, <1>4, <3>1, <3>2, <4>1
      <4>2. CASE e = n + 1
        BY <1>3, <3>2, <4>2
      <4> QED
        BY <1>2, <4>1, <4>2
    <3> QED
      BY <1>9, <3>2, <3>3
  <2>3. n + 1 \in MessageOf(q, n + 1)
    <3>1. ASSUME NEW e \in EndsOf(q) PROVE e \notin n+1..n+1-1
      <4>1. CASE e \in EndsOf(r)
        BY <1>3, <1>4, <1>6, <4>1
      <4>2. CASE e = n + 1
        BY <1>3, <1>6, <4>2
      <4> QED
        BY <1>2, <4>1, <4>2
    <3> QED
      BY <1>1, <1>6, <1>9, <1>10, <3>1
  <2> QED
    BY <2>1, <2>2, <2>3
<1>11. ASSUME IsFragment(f), f.fin PROVE OpenOf(q) = {}
  BY <1>2, <1>3, <1>8, <1>11
<1>12. ASSUME ~(IsFragment(f) /\ f.fin)
       PROVE  \A j \in 1..n : j \in OpenOf(q) <=> j \in OpenOf(r)
  <2>1. EndsOf(q) = EndsOf(r)
    BY <1>2, <1>12
  <2> SUFFICES ASSUME NEW j \in 1..n PROVE j \in OpenOf(q) <=> j \in OpenOf(r)
    OBVIOUS
  <2>2. j \in 1..n+1 /\ q[j] = r[j]
    BY <1>1, <1>5
  <2>3. (\A e \in EndsOf(r) : e \notin j..n+1) <=> (\A e \in EndsOf(r) : e \notin j..n)
    BY <1>3, <1>4, <2>2
  <2> QED
    BY <1>7, <1>8, <2>1, <2>2, <2>3
<1>13. ASSUME IsFragment(f), ~f.fin PROVE n + 1 \in OpenOf(q)
  <2>1. \A e \in EndsOf(q) : e \notin n+1..n+1
    BY <1>1, <1>2, <1>4, <1>13
  <2> QED
    BY <1>1, <1>6, <1>8, <1>13, <2>1
<1>14. ASSUME ~IsFragment(f) PROVE n + 1 \notin OpenOf(q)
  BY <1>1, <1>8, <1>14
<1>15. OpenOf(q) \subseteq 1..n+1 /\ OpenOf(r) \subseteq 1..n
  BY <1>7, <1>8
<1>16. ASSUME IsFragment(f), ~f.fin PROVE OpenOf(q) = OpenOf(r) \cup {n + 1}
  BY <1>3, <1>12, <1>13, <1>15, <1>16
<1>17. ASSUME ~IsFragment(f) PROVE OpenOf(q) = OpenOf(r)
  BY <1>3, <1>5, <1>12, <1>14, <1>15, <1>17
<1> QED
  BY <1>10, <1>11, <1>16, <1>17 DEF q, n

LEMMA MinGrows ==
  ASSUME NEW n \in Nat, NEW T \in SUBSET (1..n)
  PROVE  Min(T \cup {n + 1}) = IF T = {} THEN n + 1 ELSE Min(T)
<1> DEFINE U == T \cup {n + 1}
<1>1. U \in SUBSET Nat /\ U # {} /\ T \in SUBSET Nat
  OBVIOUS
<1>2. Min(U) \in U /\ \A x \in U : Min(U) <= x
  BY <1>1, MinIs
<1>3. CASE T = {}
  BY <1>2, <1>3
<1>4. CASE T # {}
  <2>1. Min(T) \in T /\ \A x \in T : Min(T) <= x
    BY <1>1, <1>4, MinIs
  <2>2. Min(T) \in U /\ Min(T) \in 1..n
    BY <2>1
  <2>3. Min(U) <= Min(T)
    BY <1>2, <2>2
  <2>4. Min(U) \in 1..n
    <3>1. \A u \in U, t \in 1..n : u <= t => u \in 1..n
      OBVIOUS
    <3> HIDE DEF U
    <3> QED
      BY <1>2, <2>2, <2>3, <3>1
  <2>5. Min(U) \in T
    BY <1>2, <2>4
  <2> QED
    BY <1>4, <2>1, <2>2, <2>3, <2>4, <2>5
<1> QED
  BY <1>3, <1>4

(* The frame a message begins with.                                        *)
FirstOf(r, T) == r[Min(T)]

LEMMA FirstAppend ==
  ASSUME NEW S, NEW r \in Seq(S), NEW f \in S
  PROVE  /\ IsFragment(f) =>
              FirstOf(Append(r, f), MessageOf(Append(r, f), Len(r) + 1))
                = IF OpenOf(r) = {} THEN f ELSE FirstOf(r, OpenOf(r))
         /\ IsFragment(f) /\ ~f.fin =>
              FirstOf(Append(r, f), OpenOf(Append(r, f)))
                = IF OpenOf(r) = {} THEN f ELSE FirstOf(r, OpenOf(r))
         /\ ~IsFragment(f) /\ OpenOf(r) # {} =>
              FirstOf(Append(r, f), OpenOf(Append(r, f))) = FirstOf(r, OpenOf(r))
         /\ \A k \in 1..Len(r) : IsFragment(r[k]) =>
              FirstOf(Append(r, f), MessageOf(Append(r, f), k)) = FirstOf(r, MessageOf(r, k))
<1> DEFINE q == Append(r, f)
           n == Len(r)
           o == OpenOf(r)
<1>1. /\ n \in Nat /\ Len(q) = n + 1 /\ q[n + 1] = f
      /\ \A k \in 1..n : q[k] = r[k]
  BY AppendIs
<1>2. o \in SUBSET (1..n) /\ o \in SUBSET Nat
  BY <1>1 DEF OpenOf
<1>3. o # {} => Min(o) \in 1..n
  BY <1>2, MinIs
<1>4. Min(o \cup {n + 1}) = IF o = {} THEN n + 1 ELSE Min(o)
  BY <1>1, <1>2, MinGrows
<1>5. q[Min(o \cup {n + 1})] = IF o = {} THEN f ELSE r[Min(o)]
  BY <1>1, <1>3, <1>4
<1>6. o # {} => q[Min(o)] = r[Min(o)]
  BY <1>1, <1>3
<1>7. ASSUME NEW k \in 1..n, IsFragment(r[k])
      PROVE  q[Min(MessageOf(q, k))] = r[Min(MessageOf(r, k))]
  <2>1. MessageOf(q, k) = MessageOf(r, k)
    BY MessageAppend
  <2>2. k \in MessageOf(r, k) /\ MessageOf(r, k) \in SUBSET (1..k)
    BY <1>1, <1>7 DEF MessageOf
  <2>3. MessageOf(r, k) \in SUBSET Nat
    BY <2>2
  <2>4. Min(MessageOf(r, k)) \in MessageOf(r, k)
    BY <2>2, <2>3, MinIs
  <2>5. Min(MessageOf(r, k)) \in 1..n
    BY <1>1, <2>2, <2>4
  <2> QED
    BY <1>1, <2>1, <2>5
<1>8. /\ IsFragment(f) => MessageOf(q, n + 1) = o \cup {n + 1}
      /\ IsFragment(f) /\ ~f.fin => OpenOf(q) = o \cup {n + 1}
      /\ ~IsFragment(f) => OpenOf(q) = o
  BY OpenAppend
<1> HIDE DEF q, n, o
<1> QED
  BY <1>5, <1>6, <1>7, <1>8 DEF FirstOf, q, n, o

LEMMA CarriedAppend ==
  ASSUME FramesAssumption, NEW r \in Seq(Inputs), NEW f \in Inputs
  PROVE  /\ GatheredOf(r) \in Seq(Byte)
         /\ OpenOf(r) = {} => GatheredOf(r) = <<>>
         /\ IsFragment(f) => CarriedOf(Append(r, f), Len(r) + 1) = GatheredOf(r) \o f.payload
         /\ IsFragment(f) /\ ~f.fin => GatheredOf(Append(r, f)) = GatheredOf(r) \o f.payload
         /\ IsFragment(f) /\ f.fin => GatheredOf(Append(r, f)) = <<>>
         /\ ~IsFragment(f) => GatheredOf(Append(r, f)) = GatheredOf(r)
<1> DEFINE q == Append(r, f)
           n == Len(r)
           o == OpenOf(r)
<1>1. /\ n \in Nat /\ n + 1 \in Nat /\ Len(q) = n + 1 /\ q[n + 1] = f
      /\ \A k \in 1..n : q[k] = r[k] /\ k # n + 1 /\ k \in 1..n+1
      /\ \A k \in 1..n+1 : k \in 1..n \/ k = n + 1
      /\ n + 1 \in 1..n+1 /\ n + 1 \notin 1..n
  BY AppendIs
<1>2. \A g \in Inputs : g.payload \in Seq(Byte)
  BY DEF FramesAssumption
<1>a. <<>> \in Seq(Byte)
  BY EmptySeq
<1>3. o \subseteq 1..n
  BY DEF OpenOf
<1>4. \A k \in 1..n : r[k] \in Inputs
  BY ElementOfSeq
<1> HIDE DEF q, n, o
<1>5. \A k \in 1..n+1 : q[k].payload \in Seq(Byte)
  BY <1>1, <1>2, <1>4
<1> DEFINE F == BytesOf(r, o, n)
<1>6. F \in [1..n -> Seq(Byte)]
  BY <1>2, <1>4, <1>a DEF BytesOf
<1>7. GatheredOf(r) = FlattenSeq(F)
  BY DEF GatheredOf, o, n
<1>8. ASSUME NEW T, T \cap 1..n = o
      PROVE  /\ FlattenSeq(F) \in Seq(Byte)
             /\ FlattenSeq(BytesOf(q, T, n + 1)) = FlattenSeq(F) \o (IF n + 1 \in T THEN f.payload ELSE <<>>)
  <2> DEFINE G == BytesOf(q, T, n + 1)
  <2>1. G \in [1..n+1 -> Seq(Byte)]
    BY <1>5, <1>a DEF BytesOf
  <2>2. \A k \in 1..n : G[k] = F[k]
    BY <1>1, <1>8 DEF BytesOf
  <2>3. G[n + 1] = IF n + 1 \in T THEN f.payload ELSE <<>>
    BY <1>1 DEF BytesOf
  <2> HIDE DEF F, G
  <2>4. FlattenSeq(F) \in Seq(Byte) /\ FlattenSeq(G) = FlattenSeq(F) \o G[n + 1]
    <3>1. n \in Nat
      BY <1>1
    <3> QED
      BY <1>6, <2>1, <2>2, <3>1, FlattenMore, Zenon
  <2> QED
    BY <2>3, <2>4 DEF G
<1> HIDE DEF F
<1>9. o \cap 1..n = o /\ (o \cup {n + 1}) \cap 1..n = o /\ n + 1 \notin o
  BY <1>1, <1>3
<1>10. GatheredOf(r) \in Seq(Byte)
  BY <1>7, <1>8, <1>9
<1>11. ASSUME o = {} PROVE GatheredOf(r) = <<>>
  <2>1. \A k \in 1..n : F[k] = <<>>
    BY <1>11 DEF F, BytesOf
  <2> QED
    BY <1>1, <1>6, <1>7, <2>1, FlattenEmpty
<1>12. FlattenSeq(BytesOf(q, o \cup {n + 1}, n + 1)) = FlattenSeq(F) \o f.payload
  BY <1>8, <1>9
<1>13. FlattenSeq(BytesOf(q, o, n + 1)) = FlattenSeq(F)
  <2>1. FlattenSeq(BytesOf(q, o, n + 1)) = FlattenSeq(F) \o <<>>
    BY <1>8, <1>9
  <2> QED
    BY <1>7, <1>10, <2>1, ConcatEmptySeq
<1>14. /\ IsFragment(f) => MessageOf(q, n + 1) = o \cup {n + 1}
       /\ IsFragment(f) /\ f.fin => OpenOf(q) = {}
       /\ IsFragment(f) /\ ~f.fin => OpenOf(q) = o \cup {n + 1}
       /\ ~IsFragment(f) => OpenOf(q) = o
  BY OpenAppend DEF q, n, o
<1>15. GatheredOf(q) = FlattenSeq(BytesOf(q, OpenOf(q), n + 1))
  BY <1>1 DEF GatheredOf
<1>16. ASSUME IsFragment(f), f.fin PROVE GatheredOf(q) = <<>>
  <2> DEFINE G == BytesOf(q, {}, n + 1)
  <2>1. G \in [1..n+1 -> Seq(Byte)] /\ \A k \in 1..n+1 : G[k] = <<>>
    BY <1>a DEF BytesOf
  <2>2. GatheredOf(q) = FlattenSeq(G)
    BY <1>14, <1>15, <1>16
  <2> HIDE DEF G
  <2> QED
    BY <1>1, <2>1, <2>2, FlattenEmpty
<1>17. IsFragment(f) => CarriedOf(q, n + 1) = FlattenSeq(F) \o f.payload
  BY <1>12, <1>14 DEF CarriedOf
<1>18. IsFragment(f) /\ ~f.fin => GatheredOf(q) = FlattenSeq(F) \o f.payload
  BY <1>12, <1>14, <1>15
<1>19. ~IsFragment(f) => GatheredOf(q) = FlattenSeq(F)
  BY <1>13, <1>14, <1>15
<1> QED
  BY <1>7, <1>10, <1>11, <1>16, <1>17, <1>18, <1>19 DEF q, n, o

-----------------------------------------------------------------------------
(* The number of a message.                                                *)

NumberOf(r, k) == Cardinality(EndsOf(r) \cap 1..k)

LEMMA EndsCount ==
  ASSUME NEW S, NEW r \in Seq(S)
  PROVE  /\ IsFiniteSet(EndsOf(r)) /\ Cardinality(EndsOf(r)) \in Nat
         /\ \A k \in EndsOf(r) : NumberOf(r, k) \in 1..Cardinality(EndsOf(r))
<1>1. EndsOf(r) \subseteq 1..Len(r) /\ Len(r) \in Nat
  BY DEF EndsOf
<1>2. IsFiniteSet(1..Len(r))
  BY <1>1, FS_Interval
<1>3. IsFiniteSet(EndsOf(r))
  BY <1>1, <1>2, FS_Subset
<1>4. Cardinality(EndsOf(r)) \in Nat
  BY <1>3, FS_CardinalityType
<1>5. ASSUME NEW k \in EndsOf(r) PROVE NumberOf(r, k) \in 1..Cardinality(EndsOf(r))
  <2>1. EndsOf(r) \cap 1..k \subseteq EndsOf(r) /\ k \in EndsOf(r) \cap 1..k
    BY <1>1
  <2>2. /\ IsFiniteSet(EndsOf(r) \cap 1..k)
        /\ Cardinality(EndsOf(r) \cap 1..k) <= Cardinality(EndsOf(r))
    BY <1>3, <2>1, FS_Subset
  <2>3. Cardinality(EndsOf(r) \cap 1..k) \in Nat /\ Cardinality(EndsOf(r) \cap 1..k) # 0
    BY <2>1, <2>2, FS_CardinalityType, FS_EmptySet
  <2> QED
    BY <1>4, <2>2, <2>3 DEF NumberOf
<1> QED
  BY <1>3, <1>4, <1>5

LEMMA CountAppend ==
  ASSUME NEW S, NEW r \in Seq(S), NEW f \in S
  PROVE  /\ Cardinality(EndsOf(Append(r, f)))
              = Cardinality(EndsOf(r)) + (IF IsFragment(f) /\ f.fin THEN 1 ELSE 0)
         /\ IsFragment(f) /\ f.fin => NumberOf(Append(r, f), Len(r) + 1) = Cardinality(EndsOf(r)) + 1
         /\ \A k \in 1..Len(r) : NumberOf(Append(r, f), k) = NumberOf(r, k)
<1> DEFINE q == Append(r, f)
           n == Len(r)
<1>0. n \in Nat /\ EndsOf(r) \subseteq 1..n /\ n + 1 \notin 1..n /\ n + 1 \in 1..n+1
  BY DEF EndsOf
<1>1. EndsOf(q) = EndsOf(r) \cup (IF IsFragment(f) /\ f.fin THEN {n + 1} ELSE {})
  BY EndsAppend
<1>2. \A k \in 1..n : EndsOf(q) \cap 1..k = EndsOf(r) \cap 1..k
  BY MessageAppend
<1>3. IsFiniteSet(EndsOf(r)) /\ Cardinality(EndsOf(r)) \in Nat
  BY EndsCount
<1> HIDE DEF q
<1>4. \A k \in 1..n : NumberOf(q, k) = NumberOf(r, k)
  BY <1>2 DEF NumberOf
<1> HIDE DEF n
<1>5. Cardinality(EndsOf(r) \cup {n + 1}) = Cardinality(EndsOf(r)) + 1
  BY <1>0, <1>3, FS_AddElement
<1>6. ASSUME IsFragment(f), f.fin
      PROVE  EndsOf(q) = EndsOf(r) \cup {n + 1} /\ EndsOf(q) \cap 1..n+1 = EndsOf(q)
  <2>1. EndsOf(q) = EndsOf(r) \cup {n + 1}
    BY <1>1, <1>6
  <2>2. 1..n \subseteq 1..n+1
    BY <1>0
  <2> QED
    BY <1>0, <2>1, <2>2
<1>7. ~(IsFragment(f) /\ f.fin) => EndsOf(q) = EndsOf(r)
  BY <1>1
<1>8. CASE IsFragment(f) /\ f.fin
  <2>1. Cardinality(EndsOf(q)) = Cardinality(EndsOf(r)) + 1
    BY <1>5, <1>6, <1>8
  <2>2. NumberOf(q, n + 1) = Cardinality(EndsOf(r)) + 1
    BY <1>6, <1>8, <2>1 DEF NumberOf
  <2> QED
    BY <1>4, <1>8, <2>1, <2>2 DEF q, n
<1>9. CASE ~(IsFragment(f) /\ f.fin)
  <2>1. Cardinality(EndsOf(q)) = Cardinality(EndsOf(r)) + 0
    BY <1>3, <1>7, <1>9
  <2> QED
    BY <1>4, <1>9, <2>1 DEF q, n
<1> QED
  BY <1>8, <1>9

-----------------------------------------------------------------------------
(* The two properties as statements about what was received, delivered and  *)
(* sent, and what a step makes of them.                                     *)

KindOf(r, k) == FirstOf(r, MessageOf(r, k)).opcode

WholeOf(r, d, t) ==
  /\ Len(d) <= Cardinality(EndsOf(r))
  /\ t = "reads" => Len(d) = Cardinality(EndsOf(r))
  /\ \A k \in EndsOf(r) : NumberOf(r, k) <= Len(d) =>
       d[NumberOf(r, k)] = [opcode |-> KindOf(r, k), bytes |-> CarriedOf(r, k)]

TextOf(r, k) ==
  /\ IsFragment(r[k]) /\ KindOf(r, k) = "TEXT"
  /\ \A j \in MessageOf(r, k) \ {k} : WellFormed(r[j].payload)

RefusedOf(r, s) ==
  /\ r # <<>> /\ IsFragment(r[Len(r)])
  /\ s # <<>> /\ Last(s) = [opcode |-> "CLOSE", payload |-> <<3, 239>>]

CheckedOf(r, d, s) ==
  \A k \in 1..Len(r) : TextOf(r, k) =>
    /\ k \in EndsOf(r) /\ NumberOf(r, k) <= Len(d) => WellFormed(CarriedOf(r, k))
    /\ k = Len(r) /\ RefusedOf(r, s) => ~WellFormed(CarriedOf(r, k))

LEMMA PropertiesAre ==
  /\ MessagesAreWhole <=> WholeOf(received, delivered, thread)
  /\ TextIsChecked <=> CheckedOf(received, delivered, sent)
<1>1. Ends = EndsOf(received)
  BY DEF Ends, EndsOf, Fragment, IsFragment
<1>2. \A k : Message(k) = MessageOf(received, k)
  BY <1>1 DEF Message, MessageOf, Fragment, IsFragment
<1>3. \A k : Kind(k) = KindOf(received, k)
  BY <1>2 DEF Kind, KindOf, FirstOf
<1>4. \A k : Carried(k) = CarriedOf(received, k)
  BY <1>2 DEF Carried, CarriedOf, BytesOf
<1>5. \A k : Number(k) = NumberOf(received, k)
  BY <1>1 DEF Number, NumberOf
<1>6. Refused1007 <=> RefusedOf(received, sent)
  BY DEF Refused1007, RefusedOf, Fragment, IsFragment
<1>7. \A k : Fragment(k) <=> IsFragment(received[k])
  BY DEF Fragment, IsFragment
<1>8. MessagesAreWhole <=> WholeOf(received, delivered, thread)
  BY <1>1, <1>3, <1>4, <1>5 DEF MessagesAreWhole, WholeOf
<1>9. TextIsChecked <=> CheckedOf(received, delivered, sent)
  BY <1>1, <1>2, <1>3, <1>4, <1>5, <1>6, <1>7, Zenon DEF TextIsChecked, CheckedOf, TextOf
<1> QED
  BY <1>8, <1>9

LEMMA WholeKept ==
  ASSUME NEW r \in Seq(Inputs), NEW f \in Inputs, NEW d, NEW t,
         WholeOf(r, d, "reads"), Len(d) \in Nat,
         t = "reads" => ~(IsFragment(f) /\ f.fin)
  PROVE  WholeOf(Append(r, f), d, t)
<1> DEFINE q == Append(r, f)
           n == Len(r)
<1>0. n \in Nat /\ EndsOf(r) \subseteq 1..n
  BY DEF EndsOf
<1>1. Len(d) = Cardinality(EndsOf(r)) /\ Cardinality(EndsOf(r)) \in Nat
  BY EndsCount DEF WholeOf
<1>2. /\ Cardinality(EndsOf(q)) = Cardinality(EndsOf(r)) + (IF IsFragment(f) /\ f.fin THEN 1 ELSE 0)
      /\ IsFragment(f) /\ f.fin => NumberOf(q, n + 1) = Cardinality(EndsOf(r)) + 1
      /\ \A k \in 1..n : NumberOf(q, k) = NumberOf(r, k)
  BY CountAppend
<1>3. EndsOf(q) = EndsOf(r) \cup (IF IsFragment(f) /\ f.fin THEN {n + 1} ELSE {})
  BY EndsAppend
<1>4. \A k \in 1..n : IsFragment(r[k]) => KindOf(q, k) = KindOf(r, k)
  BY FirstAppend DEF KindOf
<1>5. \A k \in 1..n : CarriedOf(q, k) = CarriedOf(r, k)
  BY MessageAppend
<1>6. \A k \in EndsOf(r) : IsFragment(r[k])
  BY DEF EndsOf
<1> HIDE DEF q, n
<1>7. Len(d) <= Cardinality(EndsOf(q)) /\ (t = "reads" => Len(d) = Cardinality(EndsOf(q)))
  BY <1>1, <1>2
<1>8. ASSUME NEW k \in EndsOf(q), NumberOf(q, k) <= Len(d)
      PROVE  d[NumberOf(q, k)] = [opcode |-> KindOf(q, k), bytes |-> CarriedOf(q, k)]
  <2>1. CASE k \in EndsOf(r)
    <3>1. NumberOf(q, k) = NumberOf(r, k) /\ KindOf(q, k) = KindOf(r, k) /\ CarriedOf(q, k) = CarriedOf(r, k)
      BY <1>0, <1>2, <1>4, <1>5, <1>6, <2>1
    <3> QED
      BY <1>8, <2>1, <3>1 DEF WholeOf
  <2>2. CASE IsFragment(f) /\ f.fin /\ k = n + 1
    BY <1>1, <1>2, <1>8, <2>2
  <2> QED
    BY <1>3, <2>1, <2>2
<1> QED
  BY <1>7, <1>8 DEF WholeOf, q

LEMMA WholeDelivers ==
  ASSUME NEW r \in Seq(Inputs), NEW f \in Inputs, NEW M, NEW d \in Seq(M), NEW m \in M,
         WholeOf(r, d, "reads"), IsFragment(f), f.fin,
         m = [opcode |-> KindOf(Append(r, f), Len(r) + 1), bytes |-> CarriedOf(Append(r, f), Len(r) + 1)]
  PROVE  WholeOf(Append(r, f), Append(d, m), "reads")
<1> DEFINE q == Append(r, f)
           n == Len(r)
           c == Cardinality(EndsOf(r))
<1>0. n \in Nat /\ EndsOf(r) \subseteq 1..n
  BY DEF EndsOf
<1>1. Len(d) = c /\ c \in Nat /\ \A k \in EndsOf(r) : NumberOf(r, k) \in 1..c
  BY EndsCount DEF WholeOf
<1>2. /\ Cardinality(EndsOf(q)) = c + 1
      /\ NumberOf(q, n + 1) = c + 1
      /\ \A k \in 1..n : NumberOf(q, k) = NumberOf(r, k)
  BY CountAppend
<1>3. EndsOf(q) = EndsOf(r) \cup {n + 1}
  BY EndsAppend
<1>4. \A k \in 1..n : IsFragment(r[k]) => KindOf(q, k) = KindOf(r, k)
  BY FirstAppend DEF KindOf
<1>5. \A k \in 1..n : CarriedOf(q, k) = CarriedOf(r, k)
  BY MessageAppend
<1>6. \A k \in EndsOf(r) : IsFragment(r[k])
  BY DEF EndsOf
<1>7. m = [opcode |-> KindOf(q, n + 1), bytes |-> CarriedOf(q, n + 1)]
  OBVIOUS
<1>8. /\ Len(Append(d, m)) = c + 1 /\ Append(d, m)[c + 1] = m
      /\ \A z \in 1..c : Append(d, m)[z] = d[z]
  BY <1>1, AppendIs
<1> HIDE DEF q, n, c
<1>9. ASSUME NEW k \in EndsOf(q)
      PROVE  Append(d, m)[NumberOf(q, k)] = [opcode |-> KindOf(q, k), bytes |-> CarriedOf(q, k)]
  <2>1. CASE k \in EndsOf(r)
    <3>1. NumberOf(q, k) = NumberOf(r, k) /\ KindOf(q, k) = KindOf(r, k) /\ CarriedOf(q, k) = CarriedOf(r, k)
      BY <1>0, <1>2, <1>4, <1>5, <1>6, <2>1
    <3>2. NumberOf(r, k) \in 1..c /\ NumberOf(r, k) <= Len(d)
      BY <1>1, <2>1
    <3>3. d[NumberOf(r, k)] = [opcode |-> KindOf(r, k), bytes |-> CarriedOf(r, k)]
      BY <2>1, <3>2 DEF WholeOf
    <3> QED
      BY <1>8, <3>1, <3>2, <3>3
  <2>2. CASE k = n + 1
    BY <1>2, <1>7, <1>8, <2>2
  <2> QED
    BY <1>3, <2>1, <2>2
<1>10. Len(Append(d, m)) = Cardinality(EndsOf(q)) /\ Len(Append(d, m)) <= Cardinality(EndsOf(q))
  BY <1>1, <1>2, <1>8
<1> QED
  BY <1>9, <1>10 DEF WholeOf, q

LEMMA CheckedAppend ==
  ASSUME NEW r \in Seq(Inputs), NEW f \in Inputs, NEW d, NEW s, NEW e, NEW u,
         WholeOf(r, d, "reads"), CheckedOf(r, d, s),
         TextOf(Append(r, f), Len(r) + 1) =>
           /\ Len(r) + 1 \in EndsOf(Append(r, f)) /\ NumberOf(Append(r, f), Len(r) + 1) <= Len(e)
                => WellFormed(CarriedOf(Append(r, f), Len(r) + 1))
           /\ RefusedOf(Append(r, f), u) => ~WellFormed(CarriedOf(Append(r, f), Len(r) + 1))
  PROVE  CheckedOf(Append(r, f), e, u)
<1> DEFINE q == Append(r, f)
           n == Len(r)
<1>0. /\ n \in Nat /\ Len(q) = n + 1 /\ \A k \in 1..n : q[k] = r[k] /\ k # n + 1
      /\ \A k \in 1..n+1 : k \in 1..n \/ k = n + 1
  BY AppendIs
<1>1. Len(d) = Cardinality(EndsOf(r)) /\ \A k \in EndsOf(r) : NumberOf(r, k) \in 1..Cardinality(EndsOf(r))
  BY EndsCount DEF WholeOf
<1>a. Cardinality(EndsOf(r)) \in Nat
  BY EndsCount
<1>2. \A k \in 1..n : k \in EndsOf(q) => k \in EndsOf(r)
  BY <1>0, EndsAppend
<1>3. \A k \in 1..n : IsFragment(r[k]) => KindOf(q, k) = KindOf(r, k)
  BY FirstAppend DEF KindOf
<1>4. \A k \in 1..n : CarriedOf(q, k) = CarriedOf(r, k) /\ MessageOf(q, k) = MessageOf(r, k)
  BY MessageAppend
<1> HIDE DEF q
<1>5. ASSUME NEW k \in 1..n, TextOf(q, k), k \in EndsOf(q) PROVE WellFormed(CarriedOf(q, k))
  <2>1. MessageOf(r, k) \subseteq 1..n
    BY <1>0 DEF MessageOf
  <2>2. IsFragment(r[k])
    BY <1>0, <1>5 DEF TextOf
  <2>3. TextOf(r, k)
    BY <1>0, <1>3, <1>4, <1>5, <2>1, <2>2 DEF TextOf
  <2>4. k \in EndsOf(r) /\ NumberOf(r, k) <= Len(d)
    BY <1>1, <1>a, <1>2, <1>5
  <2>5. WellFormed(CarriedOf(r, k))
    BY <2>3, <2>4 DEF CheckedOf
  <2> QED
    BY <1>4, <2>5
<1>6. TextOf(q, n + 1) =>
           /\ n + 1 \in EndsOf(q) /\ NumberOf(q, n + 1) <= Len(e) => WellFormed(CarriedOf(q, n + 1))
           /\ RefusedOf(q, u) => ~WellFormed(CarriedOf(q, n + 1))
  BY DEF q
<1> HIDE DEF n
<1> QED
  BY <1>0, <1>5, <1>6 DEF CheckedOf, q

-----------------------------------------------------------------------------
(* The invariant: while it reads, the thread has what the fragments since    *)
(* the last message carry, and knows of them what the table says.           *)

Messages == [opcode : {"TEXT", "BINARY"}, bytes : Seq(Byte)]
Pongs    == [opcode : {"PONG"}, payload : Seq(Byte)]

Gathering ==
  /\ delivered \in Seq(Messages) /\ sent \in Seq(Pongs)
  /\ op = "none" <=> OpenOf(received) = {}
  /\ op = "none" => msg = <<>> /\ utf8_state = 0
  /\ op # "none" => op = FirstOf(received, OpenOf(received)).opcode
  /\ msg = GatheredOf(received)
  /\ op = "TEXT" /\ (\A j \in OpenOf(received) : WellFormed(received[j].payload))
       => utf8_state = 0 /\ WellFormed(msg)

FramesInv ==
  /\ FramesTypeOK
  /\ thread = "reads" => Gathering
  /\ WholeOf(received, delivered, thread)
  /\ CheckedOf(received, delivered, sent)

LEMMA EmptyIsWellFormed == WellFormed(<<>>)
BY DEF WellFormed, Starts

LEMMA NotRefused ==
  ASSUME NEW s \in Seq(Pongs), NEW r
  PROVE  ~RefusedOf(r, s)
<1> SUFFICES ASSUME RefusedOf(r, s) PROVE FALSE
  OBVIOUS
<1>1. s # <<>> /\ Last(s) = [opcode |-> "CLOSE", payload |-> <<3, 239>>]
  BY DEF RefusedOf
<1>2. Len(s) \in 1..Len(s)
  BY <1>1, EmptySeq
<1>3. Last(s) \in Pongs
  BY <1>2, ElementOfSeq DEF Last
<1>4. Last(s).opcode = "PONG"
  BY <1>3 DEF Pongs
<1> QED
  BY <1>1, <1>4

LEMMA FramesInitInv ==
  ASSUME FramesAssumption, FramesInit
  PROVE  FramesInv
<1>1. /\ received = <<>> /\ delivered = <<>> /\ sent = <<>>
      /\ op = "none" /\ msg = <<>> /\ utf8_state = 0 /\ thread = "reads"
  BY DEF FramesInit
<1>2. FramesTypeOK
  BY <1>1, EmptySeq DEF FramesTypeOK, FramesAssumption
<1>3. EndsOf(<<>>) = {} /\ OpenOf(<<>>) = {}
  BY DEF EndsOf, OpenOf
<1>4. GatheredOf(<<>>) = <<>>
  <2>1. BytesOf(<<>>, OpenOf(<<>>), Len(<<>>)) \in [1..0 -> Seq(Byte)]
    BY <1>3, EmptySeq DEF BytesOf
  <2> QED
    BY <2>1, FlattenEmpty DEF GatheredOf
<1>5. Gathering
  BY <1>1, <1>3, <1>4, EmptySeq DEF Gathering
<1>6. WholeOf(received, delivered, thread)
  BY <1>1, <1>3, FS_EmptySet, EmptySeq DEF WholeOf
<1>7. CheckedOf(received, delivered, sent)
  BY <1>1, EmptySeq DEF CheckedOf
<1> QED
  BY <1>2, <1>5, <1>6, <1>7 DEF FramesInv

(* What a frame that is received finds.                                    *)
LEMMA WhileReading ==
  ASSUME FramesAssumption, FramesInv, NEW f \in Inputs, Receive(f)
  PROVE  /\ received \in Seq(Inputs) /\ received' = Append(received, f) /\ received' \in Seq(Inputs)
         /\ Len(received') <= MaxFrames
         /\ thread = "reads" /\ Gathering
         /\ op \in {"none", "TEXT", "BINARY"} /\ utf8_state \in 0..8 \ {1} /\ utf8_state \in 0..8
         /\ msg \in Seq(Byte) /\ Len(msg) <= MaxMessage
         /\ f.payload \in Seq(Byte) /\ f.opcode \in Opcode \cup {"other"}
         /\ f.fin \in BOOLEAN
         /\ Len(delivered) \in Nat
         /\ WholeOf(received, delivered, "reads") /\ CheckedOf(received, delivered, sent)
<1>1. thread = "reads" /\ Len(received) < MaxFrames /\ received' = Append(received, f)
  BY DEF Receive
<1>2. received \in Seq(Inputs) /\ MaxFrames \in Nat
  BY DEF FramesInv, FramesTypeOK, FramesAssumption
<1>3. received' \in Seq(Inputs) /\ Len(received') = Len(received) + 1 /\ Len(received) \in Nat
  BY <1>1, <1>2, AppendIs
<1>4. Len(received') <= MaxFrames
  BY <1>1, <1>2, <1>3
<1>5. Gathering
  BY <1>1 DEF FramesInv
<1>6. msg \in Seq(Byte)
  BY <1>2, <1>5, CarriedAppend DEF Gathering
<1>7. op \in {"none", "TEXT", "BINARY"} /\ utf8_state \in 0..8 \ {1} /\ Len(msg) <= MaxMessage
  BY DEF FramesInv, FramesTypeOK
<1>8. f.payload \in Seq(Byte) /\ f.opcode \in Opcode \cup {"other"} /\ f.fin \in BOOLEAN
  BY DEF FramesAssumption
<1>9. Len(delivered) \in Nat
  BY <1>5, LenProperties DEF Gathering
<1>10. WholeOf(received, delivered, "reads") /\ CheckedOf(received, delivered, sent)
  BY <1>1 DEF FramesInv
<1> QED
  BY <1>1, <1>2, <1>3, <1>4, <1>5, <1>6, <1>7, <1>8, <1>9, <1>10

(* The end of the connection, by a frame.                                  *)
LEMMA FrameEnds ==
  ASSUME FramesAssumption, FramesInv, NEW f \in Inputs, Receive(f), Fail,
         TextOf(received', Len(received) + 1) /\ RefusedOf(received', sent')
           => ~WellFormed(CarriedOf(received', Len(received) + 1))
  PROVE  FramesInv'
<1>1. /\ received \in Seq(Inputs) /\ received' = Append(received, f) /\ received' \in Seq(Inputs)
      /\ Len(received') <= MaxFrames /\ Len(delivered) \in Nat
      /\ WholeOf(received, delivered, "reads") /\ CheckedOf(received, delivered, sent)
  BY WhileReading
<1>2. thread' = "ended" /\ op' = "none" /\ msg' = <<>> /\ utf8_state' = 0 /\ delivered' = delivered
  BY DEF Fail, Fresh
<1>3. FramesTypeOK'
  BY <1>1, <1>2, EmptySeq DEF FramesTypeOK, FramesAssumption
<1>4. WholeOf(received', delivered', thread')
  BY <1>1, <1>2, WholeKept
<1>5. ~(Len(received) + 1 \in EndsOf(received') /\ NumberOf(received', Len(received) + 1) <= Len(delivered))
  <2>1. Len(delivered) = Cardinality(EndsOf(received))
    BY <1>1 DEF WholeOf
  <2>2. /\ Len(received) + 1 \notin EndsOf(received)
        /\ EndsOf(received') = EndsOf(received) \cup (IF IsFragment(f) /\ f.fin THEN {Len(received) + 1} ELSE {})
    BY <1>1, EndsAppend DEF EndsOf
  <2>3. IsFragment(f) /\ f.fin => NumberOf(received', Len(received) + 1) = Cardinality(EndsOf(received)) + 1
    BY <1>1, CountAppend
  <2> QED
    BY <1>1, <2>1, <2>2, <2>3
<1>6. CheckedOf(received', delivered', sent')
  BY <1>1, <1>2, <1>5, CheckedAppend
<1> QED
  BY <1>2, <1>3, <1>4, <1>6 DEF FramesInv

(* A control frame that changes nothing of the message.                    *)
LEMMA FrameBetween ==
  ASSUME FramesAssumption, FramesInv, NEW f \in Inputs, Receive(f), ~IsFragment(f),
         UNCHANGED <<op, msg, utf8_state, thread, delivered>>, sent' \in Seq(Pongs)
  PROVE  FramesInv'
<1>1. /\ received \in Seq(Inputs) /\ received' = Append(received, f) /\ received' \in Seq(Inputs)
      /\ Len(received') <= MaxFrames /\ Len(delivered) \in Nat /\ Gathering /\ thread = "reads"
      /\ WholeOf(received, delivered, "reads") /\ CheckedOf(received, delivered, sent)
  BY WhileReading
<1>2. FramesTypeOK'
  BY <1>1 DEF FramesInv, FramesTypeOK
<1>3. OpenOf(received') = OpenOf(received)
  BY <1>1, OpenAppend
<1>4. OpenOf(received) # {} => FirstOf(received', OpenOf(received')) = FirstOf(received, OpenOf(received))
  BY <1>1, FirstAppend
<1>5. GatheredOf(received') = GatheredOf(received)
  BY <1>1, CarriedAppend
<1>6. \A j \in OpenOf(received) : received'[j] = received[j]
  BY <1>1, AppendIs DEF OpenOf
<1>7. Gathering'
  BY <1>1, <1>3, <1>4, <1>5, <1>6 DEF Gathering
<1>8. WholeOf(received', delivered', thread')
  BY <1>1, WholeKept
<1>9. ~TextOf(received', Len(received) + 1)
  BY <1>1, AppendIs DEF TextOf
<1>10. CheckedOf(received', delivered', sent')
  BY <1>1, <1>9, CheckedAppend
<1> QED
  BY <1>2, <1>7, <1>8, <1>10 DEF FramesInv

(* What a data frame adds: the opcode of its message, and its text.         *)
LEMMA DataFrame ==
  ASSUME FramesAssumption, FramesInv, NEW f \in Inputs, Receive(f), ~Illegal(f), f.opcode \notin Control,
         NEW opcode, opcode = IF f.opcode = "CONTINUATION" THEN op ELSE f.opcode
  PROVE  /\ IsFragment(f) /\ opcode \in {"TEXT", "BINARY"}
         /\ opcode = IF OpenOf(received) = {} THEN f.opcode ELSE op
         /\ KindOf(received', Len(received) + 1) = opcode
         /\ CarriedOf(received', Len(received) + 1) = msg \o f.payload
         /\ msg \o f.payload \in Seq(Byte)
         /\ Len(msg \o f.payload) <= MaxMessage
         /\ ~f.fin => FirstOf(received', OpenOf(received')).opcode = opcode
         /\ (opcode = "TEXT" /\ \A j \in OpenOf(received) : WellFormed(received[j].payload))
              => /\ utf8_state = 0
                 /\ WellFormed(msg \o f.payload) <=> valid_utf8(f.payload, 0) = 0
<1>1. /\ received \in Seq(Inputs) /\ received' = Append(received, f)
      /\ Gathering /\ thread = "reads" /\ op \in {"none", "TEXT", "BINARY"}
      /\ msg \in Seq(Byte) /\ f.payload \in Seq(Byte) /\ f.opcode \in Opcode \cup {"other"}
  BY WhileReading
<1>2. /\ op = "none" => f.opcode # "CONTINUATION"
      /\ op # "none" => f.opcode \in Control \cup {"CONTINUATION"}
      /\ f.opcode # "other"
      /\ ~(Len(msg) + Len(f.payload) > MaxMessage)
  BY DEF Illegal
<1>3. f.opcode \in {"CONTINUATION", "TEXT", "BINARY"} /\ IsFragment(f)
  BY <1>1, <1>2 DEF Opcode, IsFragment
<1>4. op = "none" <=> OpenOf(received) = {}
  BY <1>1 DEF Gathering
<1>5. opcode \in {"TEXT", "BINARY"} /\ opcode = IF OpenOf(received) = {} THEN f.opcode ELSE op
  BY <1>1, <1>2, <1>3, <1>4
<1>6. op # "none" => op = FirstOf(received, OpenOf(received)).opcode
  BY <1>1 DEF Gathering
<1>7. KindOf(received', Len(received) + 1) = opcode
  BY <1>1, <1>3, <1>4, <1>5, <1>6, FirstAppend DEF KindOf
<1>8. ~f.fin => FirstOf(received', OpenOf(received')).opcode = opcode
  BY <1>1, <1>3, <1>4, <1>5, <1>6, FirstAppend
<1>9. CarriedOf(received', Len(received) + 1) = msg \o f.payload
  BY <1>1, <1>3, CarriedAppend DEF Gathering
<1>10. msg \o f.payload \in Seq(Byte) /\ Len(msg \o f.payload) <= MaxMessage
  <2>1. /\ msg \o f.payload \in Seq(Byte) /\ Len(msg \o f.payload) = Len(msg) + Len(f.payload)
        /\ Len(msg) \in Nat /\ Len(f.payload) \in Nat
    BY <1>1, ConcatProperties, LenProperties
  <2>2. MaxMessage \in Nat
    BY DEF FramesAssumption
  <2> QED
    BY <1>2, <2>1, <2>2
<1>11. ASSUME opcode = "TEXT", \A j \in OpenOf(received) : WellFormed(received[j].payload)
       PROVE  /\ utf8_state = 0
              /\ WellFormed(msg \o f.payload) <=> valid_utf8(f.payload, 0) = 0
  <2>1. utf8_state = 0 /\ WellFormed(msg)
    <3>1. CASE op = "none"
      BY <1>1, <3>1, EmptyIsWellFormed DEF Gathering
    <3>2. CASE op # "none"
      BY <1>1, <1>4, <1>5, <1>11, <3>2 DEF Gathering
    <3> QED
      BY <3>1, <3>2
  <2>2. WellFormed(msg \o f.payload) <=> WellFormed(f.payload)
    BY <1>1, <2>1, WellFormedBoth
  <2>3. valid_utf8(f.payload, 0) = 0 <=> WellFormed(f.payload)
    BY <1>1, AcceptsUtf8
  <2> QED
    BY <2>1, <2>2, <2>3
<1> QED
  BY <1>3, <1>5, <1>7, <1>8, <1>9, <1>10, <1>11

(* The text a data frame is the last of so far.                            *)
LEMMA DataText ==
  ASSUME NEW r \in Seq(Inputs), NEW f \in Inputs, IsFragment(f), TextOf(Append(r, f), Len(r) + 1)
  PROVE  /\ KindOf(Append(r, f), Len(r) + 1) = "TEXT"
         /\ \A j \in OpenOf(r) : WellFormed(r[j].payload)
<1>1. MessageOf(Append(r, f), Len(r) + 1) = OpenOf(r) \cup {Len(r) + 1}
  BY OpenAppend
<1>2. /\ Len(r) \in Nat /\ OpenOf(r) \subseteq 1..Len(r)
      /\ \A j \in 1..Len(r) : Append(r, f)[j] = r[j] /\ j # Len(r) + 1
  BY AppendIs DEF OpenOf
<1>3. ASSUME NEW j \in OpenOf(r) PROVE WellFormed(r[j].payload)
  <2>1. j \in MessageOf(Append(r, f), Len(r) + 1) \ {Len(r) + 1} /\ Append(r, f)[j] = r[j]
    BY <1>1, <1>2
  <2> QED
    BY <2>1 DEF TextOf
<1> QED
  BY <1>3 DEF TextOf

LEMMA DataInv ==
  ASSUME FramesAssumption, FramesInv, NEW f \in Inputs, Data(f)
  PROVE  FramesInv'
<1> DEFINE opcode == IF f.opcode = "CONTINUATION" THEN op ELSE f.opcode
           bytes  == msg \o f.payload
           n      == Len(received) + 1
<1>1. Receive(f) /\ ~Illegal(f) /\ f.opcode \notin Control
  BY DEF Data
<1>2. /\ received \in Seq(Inputs) /\ received' = Append(received, f) /\ received' \in Seq(Inputs)
      /\ Len(received') <= MaxFrames /\ Len(delivered) \in Nat /\ Gathering /\ thread = "reads"
      /\ f.payload \in Seq(Byte) /\ utf8_state \in 0..8 /\ utf8_state # 1
      /\ WholeOf(received, delivered, "reads") /\ CheckedOf(received, delivered, sent)
  BY <1>1, WhileReading
<1>3. /\ IsFragment(f) /\ opcode \in {"TEXT", "BINARY"}
      /\ KindOf(received', n) = opcode /\ CarriedOf(received', n) = bytes
      /\ bytes \in Seq(Byte) /\ Len(bytes) <= MaxMessage
      /\ ~f.fin => FirstOf(received', OpenOf(received')).opcode = opcode
  BY <1>1, DataFrame
<1>4. ASSUME opcode = "TEXT", \A j \in OpenOf(received) : WellFormed(received[j].payload)
      PROVE  utf8_state = 0 /\ (WellFormed(bytes) <=> valid_utf8(f.payload, 0) = 0)
  BY <1>1, <1>4, DataFrame
<1>5. TextOf(received', n) => opcode = "TEXT" /\ \A j \in OpenOf(received) : WellFormed(received[j].payload)
  BY <1>2, <1>3, DataText
<1>6. CASE Refused(f, opcode)
  <2>1. Fail
    BY <1>6 DEF Data
  <2>2. ASSUME TextOf(received', n) PROVE ~WellFormed(bytes)
    <3>1. utf8_state = 0 /\ (WellFormed(bytes) <=> valid_utf8(f.payload, 0) = 0)
      BY <1>4, <1>5, <2>2
    <3>2. valid_utf8(f.payload, 0) # 0
      BY <1>6, <3>1 DEF Refused
    <3> QED
      BY <3>1, <3>2
  <2> QED
    BY <1>1, <1>3, <2>1, <2>2, FrameEnds
<1>7. CASE ~Refused(f, opcode) /\ f.fin
  <2>1. /\ delivered' = Append(delivered, [opcode |-> opcode, bytes |-> bytes])
        /\ op' = "none" /\ msg' = <<>> /\ utf8_state' = 0
        /\ UNCHANGED <<thread, sent>>
    BY <1>7 DEF Data, Fresh
  <2> HIDE DEF opcode, bytes
  <2>2. [opcode |-> opcode, bytes |-> bytes] \in Messages
    BY <1>3 DEF Messages
  <2>3. delivered \in Seq(Messages) /\ sent \in Seq(Pongs)
    BY <1>2 DEF Gathering
  <2>4. delivered' \in Seq(Messages)
    BY <2>1, <2>2, <2>3, AppendIs
  <2>5. FramesTypeOK'
    BY <1>2, <2>1, EmptySeq DEF FramesTypeOK, FramesAssumption
  <2>6. OpenOf(received') = {} /\ GatheredOf(received') = <<>>
    BY <1>2, <1>3, <1>7, OpenAppend, CarriedAppend
  <2>7. Gathering'
    BY <2>1, <2>3, <2>4, <2>6 DEF Gathering
  <2>8. WholeOf(received', delivered', thread')
    BY <1>2, <1>3, <1>7, <2>1, <2>2, <2>3, WholeDelivers
  <2>9. TextOf(received', n) => WellFormed(CarriedOf(received', n))
    <3>1. ASSUME TextOf(received', n) PROVE WellFormed(bytes)
      <4>1. opcode = "TEXT" /\ (WellFormed(bytes) <=> valid_utf8(f.payload, 0) = 0)
        BY <1>4, <1>5, <3>1
      <4> QED
        BY <1>7, <4>1 DEF Refused
    <3> QED
      BY <1>3, <3>1
  <2>10. ~RefusedOf(received', sent')
    BY <2>1, <2>3, NotRefused
  <2>11. CheckedOf(received', delivered', sent')
    BY <1>2, <2>9, <2>10, CheckedAppend
  <2> QED
    BY <2>5, <2>7, <2>8, <2>11 DEF FramesInv
<1>8. CASE ~Refused(f, opcode) /\ ~f.fin
  <2>1. /\ op' = opcode /\ msg' = bytes
        /\ utf8_state' = IF opcode = "TEXT" THEN valid_utf8(f.payload, utf8_state) ELSE utf8_state
        /\ UNCHANGED <<thread, delivered, sent>>
    BY <1>8 DEF Data
  <2> HIDE DEF opcode, bytes
  <2>2. utf8_state' \in 0..8 \ {1}
    <3>1. valid_utf8(f.payload, utf8_state) \in 0..8
      BY <1>2, RunOfBoth
    <3>2. opcode = "TEXT" => valid_utf8(f.payload, utf8_state) # 1
      BY <1>8 DEF Refused
    <3> QED
      BY <1>2, <2>1, <3>1, <3>2
  <2>3. FramesTypeOK'
    BY <1>2, <1>3, <2>1, <2>2 DEF FramesTypeOK
  <2>4. OpenOf(received') = OpenOf(received) \cup {n} /\ GatheredOf(received') = GatheredOf(received) \o f.payload
    BY <1>2, <1>3, <1>8, OpenAppend, CarriedAppend
  <2>5. /\ \A j \in OpenOf(received) : received'[j] = received[j]
        /\ received'[n] = f
    BY <1>2, AppendIs DEF OpenOf
  <2>6. ASSUME op' = "TEXT", \A j \in OpenOf(received') : WellFormed(received'[j].payload)
        PROVE  utf8_state' = 0 /\ WellFormed(msg')
    <3>1. opcode = "TEXT" /\ \A j \in OpenOf(received) : WellFormed(received[j].payload)
      BY <2>1, <2>4, <2>5, <2>6
    <3>2. utf8_state = 0 /\ (WellFormed(bytes) <=> valid_utf8(f.payload, 0) = 0)
      BY <1>4, <3>1
    <3>3. WellFormed(f.payload)
      BY <2>4, <2>5, <2>6
    <3>4. valid_utf8(f.payload, 0) = 0
      BY <1>2, <3>3, AcceptsUtf8
    <3> QED
      BY <2>1, <3>1, <3>2, <3>4
  <2>7. Gathering'
    <3>1. op' # "none" /\ OpenOf(received') # {}
      BY <1>3, <2>1, <2>4
    <3>2. op' = FirstOf(received', OpenOf(received')).opcode
      BY <1>3, <1>8, <2>1
    <3>3. msg' = GatheredOf(received')
      BY <1>2, <2>1, <2>4 DEF Gathering, bytes
    <3>4. delivered' \in Seq(Messages) /\ sent' \in Seq(Pongs)
      BY <1>2, <2>1 DEF Gathering
    <3> QED
      BY <2>6, <3>1, <3>2, <3>3, <3>4 DEF Gathering
  <2>8. WholeOf(received', delivered', thread')
    BY <1>2, <1>8, <2>1, WholeKept
  <2>9. n \notin EndsOf(received')
    <3>1. n \notin EndsOf(received)
      BY <1>2 DEF EndsOf
    <3> QED
      BY <1>2, <1>8, <3>1, EndsAppend
  <2>10. ~RefusedOf(received', sent')
    BY <1>2, <2>1, NotRefused DEF Gathering
  <2>11. CheckedOf(received', delivered', sent')
    BY <1>2, <2>9, <2>10, CheckedAppend
  <2> QED
    BY <2>3, <2>7, <2>8, <2>11 DEF FramesInv
<1> QED
  BY <1>6, <1>7, <1>8

LEMMA FramesStep ==
  ASSUME FramesAssumption, FramesInv, [FramesNext]_frames_vars
  PROVE  FramesInv'
<1>1. ASSUME NEW f \in Inputs, Refuse(f) PROVE FramesInv'
  <2>1. Receive(f) /\ Fail /\ sent' = sent
    BY <1>1 DEF Refuse
  <2>2. ~RefusedOf(received', sent')
    BY <2>1, WhileReading, NotRefused DEF Gathering
  <2> QED
    BY <2>1, <2>2, FrameEnds
<1>2. ASSUME NEW f \in Inputs, Data(f) PROVE FramesInv'
  BY <1>2, DataInv
<1>3. ASSUME NEW f \in Inputs, Ping(f) PROVE FramesInv'
  <2>1. Receive(f) /\ ~IsFragment(f)
    BY <1>3 DEF Ping, IsFragment, Control
  <2>2. sent \in Seq(Pongs) /\ f.payload \in Seq(Byte)
    BY <2>1, WhileReading DEF Gathering
  <2>3. CASE /\ sent' = Append(sent, [opcode |-> "PONG", payload |-> f.payload])
             /\ UNCHANGED <<op, msg, utf8_state, thread, delivered>>
    <3>1. [opcode |-> "PONG", payload |-> f.payload] \in Pongs
      BY <2>2 DEF Pongs
    <3>2. sent' \in Seq(Pongs)
      BY <2>2, <2>3, <3>1, AppendIs
    <3> QED
      BY <2>1, <2>3, <3>2, FrameBetween
  <2>4. CASE Fail /\ UNCHANGED sent
    BY <2>1, <2>2, <2>4, NotRefused, FrameEnds
  <2> QED
    BY <1>3, <2>3, <2>4 DEF Ping
<1>4. ASSUME NEW f \in Inputs, Pong(f) PROVE FramesInv'
  <2>1. Receive(f) /\ ~IsFragment(f) /\ UNCHANGED <<op, msg, utf8_state, thread, delivered, sent>>
    BY <1>4 DEF Pong, IsFragment, Control
  <2>2. sent' \in Seq(Pongs)
    BY <2>1, WhileReading DEF Gathering
  <2> QED
    BY <2>1, <2>2, FrameBetween
<1>5. ASSUME NEW f \in Inputs, Close(f) PROVE FramesInv'
  <2>1. Receive(f) /\ ~IsFragment(f) /\ Fail
    BY <1>5 DEF Close, IsFragment, Control
  <2>2. received \in Seq(Inputs) /\ received' = Append(received, f)
    BY <2>1, WhileReading
  <2>3. ~TextOf(received', Len(received) + 1)
    BY <2>1, <2>2, AppendIs DEF TextOf
  <2> QED
    BY <2>1, <2>3, FrameEnds
<1>6. ASSUME Cut PROVE FramesInv'
  <2>1. /\ thread = "reads" /\ thread' = "ended" /\ op' = "none" /\ msg' = <<>> /\ utf8_state' = 0
        /\ UNCHANGED <<received, delivered, sent>>
    BY <1>6 DEF Cut, Fail, Fresh
  <2>2. FramesTypeOK'
    BY <2>1, EmptySeq DEF FramesInv, FramesTypeOK, FramesAssumption
  <2>3. WholeOf(received', delivered', thread') /\ CheckedOf(received', delivered', sent')
    BY <2>1 DEF FramesInv, WholeOf
  <2> QED
    BY <2>1, <2>2, <2>3 DEF FramesInv
<1>7. CASE Ended \/ UNCHANGED frames_vars
  <2>1. UNCHANGED frames_vars
    BY <1>7 DEF Ended
  <2> QED
    BY <2>1 DEF frames_vars, FramesInv, FramesTypeOK, Gathering
<1> QED
  BY <1>1, <1>2, <1>3, <1>4, <1>5, <1>6, <1>7 DEF FramesNext

(* cws.c:387-511: the types of the state of the loop that assembles a message. *)
THEOREM FramesTypes ==
  ASSUME FramesAssumption
  PROVE  FramesSpec => [](FramesTypeOK /\ FramesInv)
<1>1. FramesInit => FramesInv
  BY FramesInitInv
<1>2. FramesInv /\ [FramesNext]_frames_vars => FramesInv'
  BY FramesStep
<1>3. FramesInv => FramesTypeOK /\ FramesInv
  BY DEF FramesInv
<1> QED
  BY <1>1, <1>2, <1>3, PTL DEF FramesSpec

(* cws.c:387-511: for any frames in any number, what is delivered are the    *)
(* messages that the fragments carried, each once and in their order.       *)
THEOREM FramesAreWhole ==
  ASSUME FramesAssumption
  PROVE  FramesSpec => []MessagesAreWhole
<1>1. FramesInv => MessagesAreWhole
  BY PropertiesAre DEF FramesInv
<1> QED
  BY <1>1, FramesTypes, PTL

(* cws.c:449-463: of the texts whose earlier fragments are UTF-8 by themselves *)
(* only those that are UTF-8 are delivered, and only the others refused.      *)
THEOREM FramesAreChecked ==
  ASSUME FramesAssumption
  PROVE  FramesSpec => []TextIsChecked
<1>1. FramesInv => TextIsChecked
  BY PropertiesAre DEF FramesInv
<1> QED
  BY <1>1, FramesTypes, PTL

(* What UTF-16 makes of the byte at k, and of the first k bytes.            *)
PointOf(s, k) == CodePoint(Piece(s, k))
Cell(s, k)    == IF k \in Starts(s) THEN Units(PointOf(s, k)) ELSE <<>>
Spelled(s, k) == FlattenSeq([j \in 1..k |-> Cell(s, j)])

(* What the code reads of two bytes, and of three.                          *)
Read2(b, c)    == (b % 32) * 64 + (c % 64)
Read3(b, c, d) == (b % 16) * 4096 + (c % 64) * 64 + (d % 64)
Below(p)       == p < 65536

(* The character that begins at k has n bytes, and its code point is what   *)
(* wnp.c:708-744 computes of them.                                         *)
Of(s, k, n) ==
  /\ n \in 1..4 /\ k \in Nat \ {0} /\ k + n - 1 \in k..Len(s)
  /\ k + n \in Starts(s) \cup {Len(s) + 1}
  /\ \A j \in k+1..k+n-1 : j \notin Starts(s)
  /\ PointOf(s, k) \in Int /\ PointOf(s, k) \notin Surrogates
  /\ s[k] \in Int
  /\ n = 1 => 0 <= s[k] /\ s[k] < 128 /\ PointOf(s, k) = s[k]
  /\ n = 2 => /\ 192 <= s[k] /\ s[k] < 224
              /\ PointOf(s, k) = Read2(s[k], s[k + 1])
  /\ n = 3 => /\ 224 <= s[k] /\ s[k] < 240
              /\ PointOf(s, k) = Read3(s[k], s[k + 1], s[k + 2])
  /\ n = 4 => 240 <= s[k] /\ s[k] < 248
  /\ n < 4 <=> Below(PointOf(s, k))

(* The bits a byte has below those that tell its place.                   *)
LEMMA Low ==
  /\ \A b \in Int : 192 <= b /\ b <= 223 => b % 32 = b - 192
  /\ \A b \in Int : 224 <= b /\ b <= 239 => b % 16 = b - 224
  /\ \A b \in Int : 128 <= b /\ b <= 191 => b % 64 = b - 128
BY SMT

LEMMA Within ==
  ASSUME NEW b
  PROVE  /\ b \in 192..223 => b \in Int /\ 192 <= b /\ b <= 223
         /\ b \in 224..239 => b \in Int /\ 224 <= b /\ b <= 239
         /\ b \in 240..247 => b \in Int /\ 240 <= b /\ b <= 247
BY SMT

LEMMA TwoRead ==
  ASSUME NEW b \in Int, NEW c \in Int, 192 <= b, b <= 223, 128 <= c, c <= 191,
         NEW p, p = Spell2(b, c)
  PROVE  p \in Int /\ Below(p) /\ p = Read2(b, c)
BY Low, SMT DEF Spell2, Read2, Below

LEMMA ThreeRead ==
  ASSUME NEW b \in Int, NEW c \in Int, NEW d \in Int,
         224 <= b, b <= 239, 128 <= c, c <= 191, 128 <= d, d <= 191,
         NEW p, p = Spell3(b, c, d)
  PROVE  p \in Int /\ Below(p) /\ p = Read3(b, c, d)
BY Low, SMT DEF Spell3, Read3, Below

LEMMA FourRead ==
  ASSUME NEW b \in Int, NEW c \in Int, NEW d \in Int, NEW e \in Int,
         NEW p, p = Spell4(b, c, d, e)
  PROVE  p \in Int
BY SMT DEF Spell4

(* What a character's bytes spell, in the places the code takes it from. *)
SpelledBy(c) ==
  /\ Len(c) \in 1..4
  /\ CodePoint(c) \in Int /\ CodePoint(c) \notin Surrogates
  /\ c[1] \in Int
  /\ Len(c) = 1 => 0 <= c[1] /\ c[1] < 128 /\ CodePoint(c) = c[1]
  /\ Len(c) = 2 => /\ 192 <= c[1] /\ c[1] < 224
                   /\ CodePoint(c) = Read2(c[1], c[2])
  /\ Len(c) = 3 => /\ 224 <= c[1] /\ c[1] < 240
                   /\ CodePoint(c) = Read3(c[1], c[2], c[3])
  /\ Len(c) = 4 => 240 <= c[1] /\ c[1] < 248
  /\ Len(c) < 4 <=> Below(CodePoint(c))

LEMMA Spells ==
  ASSUME NEW c \in Seq(Byte), Character(c)
  PROVE  SpelledBy(c)
<1>0. Len(c) \in {1, 2, 3, 4}
  BY DEF Character
<1>1. CodePoint(c) \notin Surrogates
  BY DEF Character
<1>2. c[1] \in Byte
  BY <1>0, ElementOfSeq
<1>3. c[1] \in Int /\ 0 <= c[1] /\ c[1] <= 255
  BY <1>2, Bytes
<1>4. \A k \in 2..Len(c) : c[k] \in Int /\ 128 <= c[k] /\ c[k] <= 191
  <2>1. \A k \in 2..Len(c) : c[k] \in Continuation
    BY DEF Character
  <2> QED
    BY <2>1, Continuations
<1>5. CASE Len(c) = 1
  <2>1. CodePoint(c) = c[1] /\ c[1] < 128
    BY <1>5 DEF CodePoint, Character
  <2>2. Below(CodePoint(c)) /\ Len(c) \in 1..4 /\ Len(c) < 4
    BY <1>3, <1>5, <2>1, SMT DEF Below
  <2> QED
    BY <1>1, <1>3, <1>5, <2>1, <2>2 DEF SpelledBy
<1>6. CASE Len(c) = 2
  <2>1. CodePoint(c) = Spell2(c[1], c[2])
    BY <1>6, SMT DEF CodePoint, Spell2
  <2>2. c[1] \in 192..223
    BY <1>6 DEF Character
  <2>3. 192 <= c[1] /\ c[1] <= 223
    BY <2>2, Within
  <2>4. c[2] \in Int /\ 128 <= c[2] /\ c[2] <= 191
    BY <1>4, <1>6
  <2>5. /\ CodePoint(c) \in Int /\ Below(CodePoint(c))
        /\ CodePoint(c) = Read2(c[1], c[2])
    BY <1>3, <2>1, <2>3, <2>4, TwoRead
  <2>6. c[1] < 224 /\ Len(c) < 4
    BY <1>3, <1>6, <2>3
  <2> QED
    BY <1>1, <1>3, <1>6, <2>3, <2>5, <2>6 DEF SpelledBy
<1>7. CASE Len(c) = 3
  <2>1. CodePoint(c) = Spell3(c[1], c[2], c[3])
    BY <1>7, SMT DEF CodePoint, Spell3
  <2>2. c[1] \in 224..239
    BY <1>7 DEF Character
  <2>3. 224 <= c[1] /\ c[1] <= 239
    BY <2>2, Within
  <2>4. /\ c[2] \in Int /\ 128 <= c[2] /\ c[2] <= 191
        /\ c[3] \in Int /\ 128 <= c[3] /\ c[3] <= 191
    BY <1>4, <1>7
  <2>5. /\ CodePoint(c) \in Int /\ Below(CodePoint(c))
        /\ CodePoint(c) = Read3(c[1], c[2], c[3])
    BY <1>3, <2>1, <2>3, <2>4, ThreeRead
  <2>6. c[1] < 240 /\ Len(c) < 4
    BY <1>3, <1>7, <2>3
  <2> QED
    BY <1>1, <1>3, <1>7, <2>3, <2>5, <2>6 DEF SpelledBy
<1>8. CASE Len(c) = 4
  <2>1. CodePoint(c) = Spell4(c[1], c[2], c[3], c[4])
    BY <1>8, SMT DEF CodePoint, Spell4
  <2>2. c[1] \in 240..247 /\ 65536 <= CodePoint(c)
    BY <1>8, SMT DEF Character
  <2>3. 240 <= c[1] /\ c[1] <= 247
    BY <2>2, Within
  <2>4. /\ c[2] \in Int /\ c[3] \in Int /\ c[4] \in Int
    BY <1>4, <1>8
  <2>5. CodePoint(c) \in Int
    BY <1>3, <2>1, <2>4, FourRead
  <2>6. ~Below(CodePoint(c))
    BY <2>2, <2>5, SMT DEF Below
  <2>7. c[1] < 248 /\ Len(c) \in 1..4 /\ ~(Len(c) < 4)
    BY <1>3, <1>8, <2>3
  <2> QED
    BY <1>1, <1>3, <1>8, <2>3, <2>5, <2>6, <2>7 DEF SpelledBy
<1> QED
  BY <1>0, <1>5, <1>6, <1>7, <1>8

(* In text that is UTF-8 a character begins wherever the last one ended.    *)
LEMMA CharacterAt ==
  ASSUME NEW s \in Seq(Byte), WellFormed(s), NEW k \in Starts(s)
  PROVE  \E n \in 1..4 : Of(s, k, n)
<1>0. Len(s) \in Nat /\ k \in 1..Len(s)
  BY DEF Starts
<1>1. PICK m : LastOf(s, k, m)
  BY PieceEnds
<1>2. m \in k..Len(s) /\ (m = Len(s) \/ m + 1 \in Starts(s)) /\ \A j \in k+1..m : j \notin Starts(s)
  BY <1>1 DEF LastOf
<1> DEFINE c == SubSeq(s, k, m)
<1>3. Piece(s, k) = c
  BY <1>1, PieceIs
<1>4. /\ c \in Seq(Byte) /\ Len(c) = m - k + 1
      /\ \A j \in 1..m-k+1 : c[j] = s[k + j - 1]
  BY <1>0, <1>2, SubSeqProperties
<1>5. Character(c)
  BY <1>3 DEF WellFormed
<1> HIDE DEF c
<1>6. PointOf(s, k) = CodePoint(c)
  BY <1>3 DEF PointOf
<1>s. SpelledBy(c)
  BY <1>4, <1>5, Spells
<1>7. PICK n \in 1..4 : n = Len(c)
  BY <1>s DEF SpelledBy
<1>8. m = k + n - 1 /\ m + 1 = k + n
  BY <1>0, <1>2, <1>4, <1>7
<1>9. c[1] = s[k]
  <2>1. 1 \in 1..m-k+1 /\ k + 1 - 1 = k
    BY <1>0, <1>2
  <2> QED
    BY <1>4, <2>1
<1>10. ASSUME n >= 2 PROVE c[2] = s[k + 1]
  <2>1. 2 \in 1..m-k+1 /\ k + 2 - 1 = k + 1
    BY <1>0, <1>8, <1>10
  <2> QED
    BY <1>4, <2>1
<1>11. ASSUME n >= 3 PROVE c[3] = s[k + 2]
  <2>1. 3 \in 1..m-k+1 /\ k + 3 - 1 = k + 2
    BY <1>0, <1>8, <1>11
  <2> QED
    BY <1>4, <2>1
<1>12. /\ k + n - 1 \in k..Len(s) /\ k \in Nat \ {0}
       /\ k + n \in Starts(s) \cup {Len(s) + 1}
       /\ \A j \in k+1..k+n-1 : j \notin Starts(s)
  BY <1>0, <1>2, <1>8
<1>13. /\ PointOf(s, k) \in Int /\ PointOf(s, k) \notin Surrogates
       /\ s[k] \in Int
       /\ n = 1 => 0 <= s[k] /\ s[k] < 128 /\ PointOf(s, k) = s[k]
       /\ n = 4 => 240 <= s[k] /\ s[k] < 248
       /\ n < 4 <=> Below(PointOf(s, k))
  BY <1>s, <1>6, <1>7, <1>9 DEF SpelledBy
<1>14. n = 2 => /\ 192 <= s[k] /\ s[k] < 224
                /\ PointOf(s, k) = Read2(s[k], s[k + 1])
  BY <1>s, <1>6, <1>7, <1>9, <1>10 DEF SpelledBy
<1>15. n = 3 => /\ 224 <= s[k] /\ s[k] < 240
                /\ PointOf(s, k) = Read3(s[k], s[k + 1], s[k + 2])
  BY <1>s, <1>6, <1>7, <1>9, <1>10, <1>11 DEF SpelledBy
<1> QED
  BY <1>12, <1>13, <1>14, <1>15 DEF Of

LEMMA CellIs ==
  ASSUME NEW s \in Seq(Byte), WellFormed(s), NEW j
  PROVE  Cell(s, j) \in Seq(Int)
<1>1. CASE j \in Starts(s)
  <2>1. PICK n \in 1..4 : Of(s, j, n)
    BY <1>1, CharacterAt
  <2>2. PointOf(s, j) \in Int
    BY <2>1 DEF Of
  <2>3. \A point \in Int : Units(point) \in Seq(Int)
    BY SMT DEF Units
  <2> QED
    BY <1>1, <2>2, <2>3 DEF Cell
<1>2. CASE j \notin Starts(s)
    BY <1>2 DEF Cell
<1> QED
    BY <1>1, <1>2

(* What is spelled so far, byte by byte.                                   *)
LEMMA SpelledMore ==
  ASSUME NEW s \in Seq(Byte), WellFormed(s), NEW k \in Nat
  PROVE  /\ Spelled(s, k) \in Seq(Int)
         /\ Spelled(s, k + 1) = Spelled(s, k) \o Cell(s, k + 1)
         /\ Spelled(s, 0) = <<>>
<1>1. \A j : Cell(s, j) \in Seq(Int)
  BY CellIs
<1> DEFINE F(n) == [j \in 1..n |-> Cell(s, j)]
<1>2. \A n \in Nat : F(n) \in [1..n -> Seq(Int)]
  BY <1>1
<1>3. \A j \in 1..k : F(k + 1)[j] = F(k)[j]
  OBVIOUS
<1>4. F(k + 1)[k + 1] = Cell(s, k + 1)
  OBVIOUS
<1>5. k + 1 \in Nat /\ 0 \in Nat
  OBVIOUS
<1>6. F(0) \in [1..0 -> Seq({})]
  OBVIOUS
<1> HIDE DEF F
<1>7. F(k) \in [1..k -> Seq(Int)] /\ F(k + 1) \in [1..k+1 -> Seq(Int)]
  BY <1>2, <1>5
<1>8. FlattenSeq(F(k)) \in Seq(Int) /\ FlattenSeq(F(k + 1)) = FlattenSeq(F(k)) \o F(k + 1)[k + 1]
  BY <1>3, <1>7, FlattenMore
<1>9. FlattenSeq(F(0)) = <<>>
  BY <1>6, FlattenNone
<1>10. \A n : Spelled(s, n) = FlattenSeq(F(n))
  BY DEF Spelled, F
<1> QED
  BY <1>4, <1>8, <1>9, <1>10

LEMMA SpelledGrows ==
  ASSUME NEW s \in Seq(Byte), WellFormed(s), NEW j \in Nat, NEW k \in Nat, j <= k
  PROVE  Len(Spelled(s, j)) <= Len(Spelled(s, k))
<1> DEFINE size(n) == Len(Spelled(s, n))
           Bad == {n \in Nat : j <= n /\ ~(size(j) <= size(n))}
<1>1. \A n \in Nat : size(n) \in Nat /\ size(n) <= size(n + 1)
  <2> SUFFICES ASSUME NEW n \in Nat PROVE size(n) \in Nat /\ size(n) <= size(n + 1)
    OBVIOUS
  <2>1. n + 1 \in Nat
    OBVIOUS
  <2>2. /\ Spelled(s, n) \in Seq(Int) /\ Spelled(s, n + 1) \in Seq(Int)
        /\ Spelled(s, n + 1) = Spelled(s, n) \o Cell(s, n + 1)
    BY <2>1, SpelledMore
  <2>3. Cell(s, n + 1) \in Seq(Int)
    BY CellIs
  <2> QED
    BY <2>2, <2>3
<1>2. Bad \in SUBSET Nat
  OBVIOUS
<1> SUFFICES ASSUME k \in Bad PROVE FALSE
  OBVIOUS
<1> HIDE DEF Bad
<1>3. PICK n \in Bad : \A m \in Bad : n <= m
  BY <1>2, Least
<1>4. n \in Nat /\ j <= n /\ ~(size(j) <= size(n))
  BY <1>3 DEF Bad
<1> HIDE DEF size
<1>5. n # j
  BY <1>1, <1>4
<1>6. PICK m \in Nat : n = m + 1 /\ j <= m /\ ~(n <= m)
  <2>1. n - 1 \in Nat /\ n = n - 1 + 1 /\ j <= n - 1 /\ ~(n <= n - 1)
    BY <1>4, <1>5
  <2> QED
    BY <2>1
<1>7. m \notin Bad
  BY <1>3, <1>6
<1>8. size(j) <= size(m)
  BY <1>6, <1>7 DEF Bad, size
<1> QED
  BY <1>1, <1>4, <1>6, <1>8

(* A character's units are added with its last byte.                        *)
LEMMA SpelledCharacter ==
  ASSUME NEW s \in Seq(Byte), WellFormed(s), NEW k \in Starts(s), NEW n, Of(s, k, n)
  PROVE  /\ Spelled(s, k - 1) \in Seq(Int)
         /\ Spelled(s, k + n - 1) = Spelled(s, k - 1) \o Units(PointOf(s, k))
<1>0. k \in Nat \ {0} /\ n \in 1..4 /\ \A j \in k+1..k+n-1 : j \notin Starts(s)
  BY DEF Of
<1>1. /\ Spelled(s, k - 1) \in Seq(Int) /\ Spelled(s, k) \in Seq(Int)
      /\ Spelled(s, k) = Spelled(s, k - 1) \o Units(PointOf(s, k))
  <2>1. k - 1 \in Nat /\ k - 1 + 1 = k /\ k \in Nat
    BY <1>0
  <2>2. Cell(s, k) = Units(PointOf(s, k))
    BY DEF Cell
  <2>3. Spelled(s, k - 1 + 1) = Spelled(s, k - 1) \o Cell(s, k - 1 + 1)
    BY <2>1, SpelledMore
  <2> QED
    BY <2>1, <2>2, <2>3, SpelledMore
<1>2. ASSUME NEW j \in Nat, k <= j, j < k + n - 1
      PROVE  Spelled(s, j + 1) = Spelled(s, j)
  <2>1. j + 1 \in k+1..k+n-1
    BY <1>0, <1>2
  <2>2. Cell(s, j + 1) = <<>>
    BY <1>0, <2>1 DEF Cell
  <2>3. Spelled(s, j) \in Seq(Int) /\ Spelled(s, j + 1) = Spelled(s, j) \o Cell(s, j + 1)
    BY SpelledMore
  <2>4. \A q \in Seq(Int) : q \o <<>> = q
    BY SMT
  <2> QED
    BY <2>2, <2>3, <2>4
<1>3. Spelled(s, k + n - 1) = Spelled(s, k)
  <2>1. CASE n = 1
    <3>1. k + n - 1 = k
      BY <1>0, <2>1
    <3> QED
      BY <3>1
  <2>2. n >= 2 => Spelled(s, k + 1) = Spelled(s, k)
    BY <1>0, <1>2
  <2>3. n >= 3 => Spelled(s, k + 2) = Spelled(s, k + 1)
    <3>1. k + 1 \in Nat /\ k + 1 + 1 = k + 2
      BY <1>0
    <3> QED
      BY <1>0, <1>2, <3>1
  <2>4. n >= 4 => Spelled(s, k + 3) = Spelled(s, k + 2)
    <3>1. k + 2 \in Nat /\ k + 2 + 1 = k + 3
      BY <1>0
    <3> QED
      BY <1>0, <1>2, <3>1
  <2>5. (n = 2 => k + n - 1 = k + 1) /\ (n = 3 => k + n - 1 = k + 2) /\ (n = 4 => k + n - 1 = k + 3)
    BY <1>0
  <2> QED
    BY <1>0, <2>1, <2>2, <2>3, <2>4, <2>5
<1> QED
  BY <1>1, <1>3

(* What holds of a well-formed text s while it is converted: everything     *)
(* before the place a, where a character begins, has been written to o.     *)
Plain(s)     == \A k \in Starts(s) : s[k] < 240
Fits(s, len) == Len(Spelled(s, Len(s))) <= len
PaddedTo(s, len) ==
  Spelled(s, Len(s)) \o [k \in 1..len - Len(Spelled(s, Len(s))) |-> 0]

Written(s, len, a, o) ==
  /\ Plain(s) => o = Spelled(s, a - 1)
  /\ Fits(s, len) => Len(o) = Len(Spelled(s, a - 1))

Converting(s, len, a, o, done) ==
  /\ a \in Starts(s) \cup {Len(s) + 1}
  /\ \E S : o \in Seq(S)
  /\ ~done => Written(s, len, a, o)
  /\ done => /\ a = Len(s) + 1
             /\ Plain(s) => o = PaddedTo(s, len)
             /\ Fits(s, len) => Len(o) = len

Utf16Inv ==
  /\ input \in Seq(Byte) /\ output_len \in Nat
  /\ padded \in BOOLEAN
  /\ WellFormed(input) => Converting(input, output_len, at, output, padded)

LEMMA UnitsAre ==
  ASSUME NEW point \in Int
  PROVE  /\ Units(point) \in Seq(Int)
         /\ Below(point) => Units(point) = <<point>>
         /\ ~Below(point) => Len(Units(point)) = 2
BY SMT DEF Units, Below

LEMMA TextIs ==
  /\ Text = Spelled(input, Len(input))
  /\ Expected = PaddedTo(input, output_len)
<1>1. Text = Spelled(input, Len(input))
  BY DEF Text, Spelled, Cell, PointOf
<1> QED
  BY <1>1 DEF Expected, PaddedTo

LEMMA Joined ==
  ASSUME NEW S, NEW o \in Seq(S), NEW T, NEW u \in Seq(T)
  PROVE  o \o u \in Seq(S \cup T) /\ Len(o \o u) = Len(o) + Len(u) /\ Len(o) \in Nat /\ Len(u) \in Nat
<1>1. o \in Seq(S \cup T) /\ u \in Seq(S \cup T)
  BY SMT
<1> QED
  BY <1>1, SMT

(* One character more.                                                     *)
LEMMA WritesOn ==
  ASSUME NEW s \in Seq(Byte), NEW len \in Nat, NEW k \in Starts(s), NEW o, NEW n, NEW u, NEW T,
         WellFormed(s), Converting(s, len, k, o, FALSE), Of(s, k, n), u \in Seq(T),
         n < 4 => u = Units(PointOf(s, k)),
         n = 4 /\ Fits(s, len) => Len(u) = 2
  PROVE  Converting(s, len, k + n, o \o u, FALSE)
<1>1. PICK S : o \in Seq(S)
  BY DEF Converting
<1>2. o \o u \in Seq(S \cup T) /\ Len(o \o u) = Len(o) + Len(u)
  BY <1>1, Joined
<1>3. k + n \in Starts(s) \cup {Len(s) + 1}
  BY DEF Of
<1>4. n \in 1..4 /\ PointOf(s, k) \in Int /\ (n < 4 <=> Below(PointOf(s, k)))
  BY DEF Of
<1>5. /\ Spelled(s, k - 1) \in Seq(Int)
      /\ Spelled(s, k + n - 1) = Spelled(s, k - 1) \o Units(PointOf(s, k))
  BY SpelledCharacter
<1>6. Written(s, len, k, o)
  BY DEF Converting
<1>7. Plain(s) => o \o u = Spelled(s, k + n - 1)
  <2>1. Plain(s) => n < 4
    <3>1. n = 4 => s[k] \in Int /\ 240 <= s[k]
      BY DEF Of
    <3> QED
      BY <1>4, <3>1 DEF Plain
  <2> QED
    BY <1>5, <1>6, <2>1 DEF Written
<1>8. Fits(s, len) => Len(o \o u) = Len(Spelled(s, k + n - 1))
  <2>1. Units(PointOf(s, k)) \in Seq(Int)
    BY <1>4, UnitsAre
  <2>2. Len(Spelled(s, k + n - 1)) = Len(Spelled(s, k - 1)) + Len(Units(PointOf(s, k)))
    BY <1>5, <2>1
  <2>3. Fits(s, len) => Len(u) = Len(Units(PointOf(s, k)))
    <3>1. n < 4 \/ (n = 4 /\ ~(n < 4))
      BY <1>4
    <3>2. n < 4 => Len(u) = Len(Units(PointOf(s, k)))
      OBVIOUS
    <3>3. n = 4 /\ ~(n < 4) => Len(Units(PointOf(s, k))) = 2
      BY <1>4, UnitsAre
    <3> QED
      BY <3>1, <3>2, <3>3
  <2> QED
    BY <1>2, <1>6, <2>2, <2>3 DEF Written
<1> QED
  <2>1. \E R : o \o u \in Seq(R)
    BY <1>2
  <2>2. Written(s, len, k + n, o \o u)
    <3>1. k \in Nat /\ n \in 1..4
      BY DEF Of
    <3>2. (k + n) - 1 = k + n - 1
      BY <3>1
    <3> QED
      BY <1>7, <1>8, <3>2 DEF Written
  <2> HIDE DEF Written
  <2> QED
    BY <1>3, <2>1, <2>2 DEF Converting

(* Where the loop stands while it goes on.                                  *)
LEMMA Reading ==
  ASSUME Utf16Inv, WellFormed(input), Goes
  PROVE  /\ at \in Starts(input) /\ padded = FALSE
         /\ Converting(input, output_len, at, output, FALSE)
         /\ \E n \in 1..4 : Of(input, at, n)
<1>1. /\ input \in Seq(Byte) /\ padded \in BOOLEAN
      /\ Converting(input, output_len, at, output, padded)
  BY DEF Utf16Inv
<1>2. at # Len(input) + 1
  BY <1>1 DEF Goes
<1>3. at \in Starts(input) /\ padded = FALSE
  BY <1>1, <1>2 DEF Converting
<1> QED
  BY <1>1, <1>3, CharacterAt

LEMMA Reads ==
  ASSUME Utf16Inv, Goes, NEW n, NEW u, NEW T, Step(n, u),
         WellFormed(input) =>
           /\ Of(input, at, n) /\ u \in Seq(T)
           /\ n < 4 => u = Units(PointOf(input, at))
           /\ n = 4 /\ Fits(input, output_len) => Len(u) = 2
  PROVE  Utf16Inv'
<1>1. /\ input \in Seq(Byte) /\ output_len \in Nat /\ padded \in BOOLEAN
  BY DEF Utf16Inv
<1>2. /\ input' = input /\ output_len' = output_len /\ padded' = padded
      /\ at' = at + n /\ output' = output \o u
  BY DEF Step
<1>3. ASSUME WellFormed(input)
      PROVE  Converting(input, output_len, at + n, output \o u, padded)
  <2>1. /\ at \in Starts(input) /\ padded = FALSE
        /\ Converting(input, output_len, at, output, FALSE)
    BY <1>3, Reading
  <2> QED
    BY <1>1, <1>3, <2>1, WritesOn
<1> QED
  BY <1>1, <1>2, <1>3 DEF Utf16Inv

LEMMA BetweenIs ==
  ASSUME NEW low \in Int, NEW high \in Int, Between(low, high)
  PROVE  Goes /\ input[at] \in Int /\ low <= input[at] /\ input[at] < high
BY DEF Between

LEMMA Utf16InitInv ==
  ASSUME Utf16Assumption, Utf16Init
  PROVE  Utf16Inv
<1>1. Characters \subseteq Seq(Byte) /\ MaxLength \in Nat /\ OutputLens \subseteq Nat
  BY DEF Utf16Assumption
<1>2. PICK text \in Texts : input = FlattenSeq(text)
  BY DEF Utf16Init
<1>3. PICK n \in Nat : text \in [1..n -> Characters]
  BY <1>1, <1>2 DEF Texts
<1>4. text \in [1..n -> Seq(Byte)]
  BY <1>1, <1>3
<1>5. PICK g \in [0..n -> Seq(Byte)] : Joins(g, text, n)
  BY <1>4, JoinsExists
<1>6. input = g[n] /\ g[n] \in Seq(Byte)
  <2>1. n \in 0..n
    OBVIOUS
  <2>2. g[n] \in Seq(Byte)
    BY <1>5, <2>1
  <2>3. FlattenSeq(text) = g[n]
    BY <1>4, <1>5, FlattenIs
  <2> QED
    BY <1>2, <2>2, <2>3
<1>7. /\ output_len \in Nat /\ padded = FALSE /\ at = 1 /\ output = <<>>
  BY <1>1 DEF Utf16Init
<1>8. ASSUME WellFormed(input) PROVE Converting(input, output_len, at, output, padded)
  <2>1. at \in Starts(input) \cup {Len(input) + 1}
    BY <1>6, <1>7 DEF Starts
  <2>2. output \in Seq(Int)
    BY <1>7
  <2>3. Spelled(input, at - 1) = <<>>
    <3>1. at - 1 = 0 /\ 0 \in Nat
      BY <1>7
    <3> QED
      BY <1>6, <1>8, <3>1, SpelledMore
  <2> QED
    BY <1>7, <2>1, <2>2, <2>3 DEF Converting, Written
<1> QED
  BY <1>6, <1>7, <1>8 DEF Utf16Inv

(* No byte of a character's first places begins another length.            *)
LEMMA LengthIs ==
  ASSUME NEW s, NEW k, NEW n, Of(s, k, n)
  PROVE  /\ n \in 1..4 /\ s[k] \in Int
         /\ s[k] < 128 => n = 1
         /\ ~(128 <= s[k] /\ s[k] < 192)
         /\ 192 <= s[k] /\ s[k] < 224 => n = 2
         /\ 224 <= s[k] /\ s[k] < 240 => n = 3
         /\ 240 <= s[k] => n = 4
         /\ s[k] < 248
<1>1. n \in 1..4 /\ s[k] \in Int
  BY DEF Of
<1>2. /\ n = 1 => s[k] < 128
      /\ n = 2 => 192 <= s[k] /\ s[k] < 224
      /\ n = 3 => 224 <= s[k] /\ s[k] < 240
      /\ n = 4 => 240 <= s[k] /\ s[k] < 248
  BY DEF Of
<1> QED
  BY <1>1, <1>2

LEMMA UnlessIs ==
  ASSUME NEW s, NEW k, NEW n, Of(s, k, n), n < 4
  PROVE  Unless(PointOf(s, k)) = Units(PointOf(s, k)) /\ Units(PointOf(s, k)) \in Seq(Int)
<1>1. PointOf(s, k) \in Int /\ PointOf(s, k) \notin Surrogates /\ Below(PointOf(s, k))
  BY DEF Of
<1>2. Units(PointOf(s, k)) = <<PointOf(s, k)>> /\ Units(PointOf(s, k)) \in Seq(Int)
  BY <1>1, UnitsAre
<1> QED
  BY <1>1, <1>2 DEF Unless

(* One lemma per length of a character (wnp.c:708-744).                     *)
LEMMA OneByteInv ==
  ASSUME Utf16Inv, OneByte
  PROVE  Utf16Inv'
<1> DEFINE u == <<input[at]>>
<1>1. Goes /\ input[at] \in Int /\ 0 <= input[at] /\ input[at] < 128
  BY BetweenIs DEF OneByte
<1>2. Step(1, u)
  BY DEF OneByte
<1>3. ASSUME WellFormed(input)
      PROVE  Of(input, at, 1) /\ u \in Seq(Int) /\ u = Units(PointOf(input, at))
  <2>1. PICK n \in 1..4 : Of(input, at, n)
    BY <1>1, <1>3, Reading
  <2>2. n = 1
    BY <1>1, <2>1, LengthIs
  <2>3. PointOf(input, at) = input[at] /\ Below(PointOf(input, at))
    BY <2>1, <2>2 DEF Of
  <2> QED
    BY <1>1, <2>1, <2>2, <2>3, UnitsAre
<1> HIDE DEF u
<1> QED
  <2>1. /\ WellFormed(input) => Of(input, at, 1) /\ u \in Seq(Int)
        /\ WellFormed(input) => (1 < 4 => u = Units(PointOf(input, at)))
        /\ WellFormed(input) => (1 = 4 /\ Fits(input, output_len) => Len(u) = 2)
    BY <1>3
  <2> QED
    BY <1>1, <1>2, <2>1, Reads

LEMMA TwoBytesInv ==
  ASSUME Utf16Inv, TwoBytes
  PROVE  Utf16Inv'
<1> DEFINE u == Unless(Read2(input[at], input[at + 1]))
<1>1. Goes /\ input[at] \in Int /\ 192 <= input[at] /\ input[at] < 224
  BY BetweenIs DEF TwoBytes
<1>2. Step(2, u)
  BY DEF TwoBytes, six, Read2
<1>3. ASSUME WellFormed(input)
      PROVE  Of(input, at, 2) /\ u \in Seq(Int) /\ u = Units(PointOf(input, at))
  <2>1. PICK n \in 1..4 : Of(input, at, n)
    BY <1>1, <1>3, Reading
  <2>2. n = 2 /\ n < 4
    BY <1>1, <2>1, LengthIs
  <2>3. PointOf(input, at) = Read2(input[at], input[at + 1])
    BY <2>1, <2>2 DEF Of
  <2> QED
    BY <2>1, <2>2, <2>3, UnlessIs
<1> HIDE DEF u
<1> QED
  <2>1. /\ WellFormed(input) => Of(input, at, 2) /\ u \in Seq(Int)
        /\ WellFormed(input) => (2 < 4 => u = Units(PointOf(input, at)))
        /\ WellFormed(input) => (2 = 4 /\ Fits(input, output_len) => Len(u) = 2)
    BY <1>3
  <2> QED
    BY <1>1, <1>2, <2>1, Reads

LEMMA ThreeBytesInv ==
  ASSUME Utf16Inv, ThreeBytes
  PROVE  Utf16Inv'
<1> DEFINE u == Unless(Read3(input[at], input[at + 1], input[at + 2]))
<1>1. Goes /\ input[at] \in Int /\ 224 <= input[at] /\ input[at] < 240
  BY BetweenIs DEF ThreeBytes
<1>2. Step(3, u)
  BY DEF ThreeBytes, six, Read3
<1>3. ASSUME WellFormed(input)
      PROVE  Of(input, at, 3) /\ u \in Seq(Int) /\ u = Units(PointOf(input, at))
  <2>1. PICK n \in 1..4 : Of(input, at, n)
    BY <1>1, <1>3, Reading
  <2>2. n = 3 /\ n < 4
    BY <1>1, <2>1, LengthIs
  <2>3. PointOf(input, at) = Read3(input[at], input[at + 1], input[at + 2])
    BY <2>1, <2>2 DEF Of
  <2> QED
    BY <2>1, <2>2, <2>3, UnlessIs
<1> HIDE DEF u
<1> QED
  <2>1. /\ WellFormed(input) => Of(input, at, 3) /\ u \in Seq(Int)
        /\ WellFormed(input) => (3 < 4 => u = Units(PointOf(input, at)))
        /\ WellFormed(input) => (3 = 4 /\ Fits(input, output_len) => Len(u) = 2)
    BY <1>3
  <2> QED
    BY <1>1, <1>2, <2>1, Reads

(* What is written for four bytes is wrong (wnp.c:758-769), but there are     *)
(* two units of it whenever the whole text has room.                        *)
LEMMA FourBytesInv ==
  ASSUME Utf16Inv, FourBytes
  PROVE  Utf16Inv'
<1>1. Goes /\ input[at] \in Int /\ 240 <= input[at]
  BY BetweenIs DEF FourBytes
<1>2. PICK low, high :
        Step(4, <<low>> \o (IF Len(output) + 1 < output_len THEN <<high>> ELSE <<>>))
  BY DEF FourBytes
<1> DEFINE u == <<low>> \o (IF Len(output) + 1 < output_len THEN <<high>> ELSE <<>>)
<1>3. /\ u \in Seq({low, high})
      /\ Len(output) + 1 < output_len => Len(u) = 2
  <2>1. CASE Len(output) + 1 < output_len
    <3>1. u = <<low>> \o <<high>>
      BY <2>1
    <3>2. <<low>> \in Seq({low, high}) /\ <<high>> \in Seq({low, high})
      OBVIOUS
    <3> HIDE DEF u
    <3> QED
      BY <3>1, <3>2
  <2>2. CASE ~(Len(output) + 1 < output_len)
    <3>1. u = <<low>> \o <<>>
      BY <2>2
    <3>2. <<low>> \in Seq({low, high}) /\ <<>> \in Seq({low, high})
      OBVIOUS
    <3> HIDE DEF u
    <3> QED
      BY <2>2, <3>1, <3>2
  <2> QED
    BY <2>1, <2>2
<1> HIDE DEF u
<1>4. ASSUME WellFormed(input)
      PROVE  Of(input, at, 4) /\ (Fits(input, output_len) => Len(output) + 1 < output_len)
  <2>1. /\ at \in Starts(input)
        /\ Converting(input, output_len, at, output, FALSE)
    BY <1>1, <1>4, Reading
  <2>2. PICK n \in 1..4 : Of(input, at, n)
    BY <1>1, <1>4, Reading
  <2>3. n = 4
    BY <1>1, <2>2, LengthIs
  <2>4. /\ at \in Nat /\ at # 0 /\ at + 4 - 1 \in Nat /\ at + 4 - 1 <= Len(input) /\ Len(input) \in Nat
        /\ PointOf(input, at) \in Int /\ ~Below(PointOf(input, at))
    <3>1. input \in Seq(Byte)
      BY DEF Utf16Inv
    <3> QED
      BY <2>2, <2>3, <3>1 DEF Of
  <2>5. input \in Seq(Byte) /\ output_len \in Nat
    BY DEF Utf16Inv
  <2>6. /\ Spelled(input, at - 1) \in Seq(Int)
        /\ Spelled(input, at + 4 - 1) = Spelled(input, at - 1) \o Units(PointOf(input, at))
    BY <1>4, <2>1, <2>2, <2>3, <2>5, SpelledCharacter
  <2>7. Units(PointOf(input, at)) \in Seq(Int) /\ Len(Units(PointOf(input, at))) = 2
    BY <2>4, UnitsAre
  <2>8. Len(Spelled(input, at + 4 - 1)) = Len(Spelled(input, at - 1)) + 2
    <3>1. Len(Spelled(input, at - 1) \o Units(PointOf(input, at)))
            = Len(Spelled(input, at - 1)) + Len(Units(PointOf(input, at)))
      BY <2>6, <2>7, Joined
    <3> QED
      BY <2>6, <2>7, <3>1
  <2>9. Len(Spelled(input, at + 4 - 1)) <= Len(Spelled(input, Len(input)))
    BY <1>4, <2>4, <2>5, SpelledGrows
  <2>10. Len(Spelled(input, Len(input))) \in Nat /\ Len(Spelled(input, at - 1)) \in Nat
    <3>1. Spelled(input, Len(input)) \in Seq(Int)
      BY <1>4, <2>4, <2>5, SpelledMore
    <3> QED
      BY <2>6, <3>1
  <2>11. Fits(input, output_len) => Len(output) = Len(Spelled(input, at - 1))
    BY <2>1 DEF Converting, Written
  <2>12. ASSUME Fits(input, output_len) PROVE Len(output) + 1 < output_len
    <3>1. Len(Spelled(input, Len(input))) <= output_len
      BY <2>12 DEF Fits
    <3> QED
      BY <2>5, <2>8, <2>9, <2>10, <2>11, <2>12, <3>1
  <2> QED
    BY <2>2, <2>3, <2>12
<1>5. Step(4, u)
  BY <1>2 DEF u
<1> QED
  BY <1>1, <1>3, <1>4, <1>5, Reads

LEMMA Zeroes ==
  ASSUME NEW m \in Int
  PROVE  /\ [k \in 1..m |-> 0] \in Seq({0})
         /\ Len([k \in 1..m |-> 0]) = IF 0 <= m THEN m ELSE 0
<1>1. \A n \in Nat : [k \in 1..n |-> 0] \in Seq({0}) /\ Len([k \in 1..n |-> 0]) = n
  OBVIOUS
<1>2. CASE 0 <= m
  BY <1>1, <1>2
<1>3. CASE ~(0 <= m)
  <2>1. 1..m = 1..0 /\ 0 \in Nat
    BY <1>3
  <2> QED
    BY <1>1, <1>3, <2>1
<1> QED
  BY <1>2, <1>3

LEMMA PadInv ==
  ASSUME Utf16Inv, Pad
  PROVE  Utf16Inv'
<1> DEFINE zeroes == [k \in 1..output_len - Len(output) |-> 0]
<1>1. /\ input' = input /\ output_len' = output_len /\ at' = at
      /\ padded = FALSE /\ padded' = TRUE /\ ~Goes
      /\ output' = output \o zeroes
  BY DEF Pad, Utf16Inv
<1>2. input \in Seq(Byte) /\ output_len \in Nat /\ Len(input) \in Nat
  BY DEF Utf16Inv
<1>3. ASSUME WellFormed(input)
      PROVE  Converting(input, output_len, at, output \o zeroes, TRUE)
  <2>1. Converting(input, output_len, at, output, FALSE)
    BY <1>1, <1>3 DEF Utf16Inv
  <2>2. at = Len(input) + 1 /\ at - 1 = Len(input)
    <3>1. at \in Starts(input) \cup {Len(input) + 1}
      BY <2>1 DEF Converting
    <3>2. at \notin Starts(input)
      BY <1>1, <1>2 DEF Starts, Goes
    <3> QED
      BY <1>2, <3>1, <3>2
  <2>3. PICK S : output \in Seq(S)
    BY <2>1 DEF Converting
  <2>4. zeroes \in Seq({0}) /\ Len(zeroes) = IF Len(output) <= output_len THEN output_len - Len(output) ELSE 0
    <3>1. Len(output) \in Nat /\ output_len - Len(output) \in Int
      BY <1>2, <2>3
    <3>2. zeroes \in Seq({0}) /\ Len(zeroes) = IF 0 <= output_len - Len(output) THEN output_len - Len(output) ELSE 0
      BY <3>1, Zeroes
    <3>3. \A x, y \in Nat : (0 <= x - y <=> y <= x)
      OBVIOUS
    <3>4. 0 <= output_len - Len(output) <=> Len(output) <= output_len
      BY <1>2, <3>1, <3>3
    <3> HIDE DEF zeroes
    <3> QED
      BY <3>2, <3>4
  <2> HIDE DEF zeroes
  <2>5. /\ output \o zeroes \in Seq(S \cup {0}) /\ Len(output \o zeroes) = Len(output) + Len(zeroes)
        /\ Len(output) \in Nat
    BY <2>3, <2>4, Joined
  <2>6. Written(input, output_len, at, output)
    BY <2>1 DEF Converting
  <2>7. Plain(input) => output \o zeroes = PaddedTo(input, output_len)
    BY <2>2, <2>6 DEF Written, PaddedTo, zeroes
  <2>8. Fits(input, output_len) => Len(output \o zeroes) = output_len
    BY <1>2, <2>2, <2>4, <2>5, <2>6 DEF Written, Fits
  <2>9. \E R : output \o zeroes \in Seq(R)
    BY <2>5
  <2> QED
    BY <2>2, <2>7, <2>8, <2>9 DEF Converting
<1> QED
  BY <1>1, <1>2, <1>3 DEF Utf16Inv

LEMMA Utf16StepInv ==
  ASSUME Utf16Inv, [Utf16Next]_utf16_vars
  PROVE  Utf16Inv'
<1>1. CASE OneByte
  BY <1>1, OneByteInv
<1>2. CASE Stray
  <2>1. Goes /\ input[at] \in Int /\ 128 <= input[at] /\ input[at] < 192
    BY <1>2, BetweenIs DEF Stray
  <2>2. Step(1, <<>>)
    BY <1>2 DEF Stray
  <2>3. ASSUME WellFormed(input) PROVE FALSE
    <3>1. PICK n \in 1..4 : Of(input, at, n)
      BY <2>1, <2>3, Reading
    <3> QED
      BY <2>1, <3>1, LengthIs
  <2> QED
    BY <2>1, <2>2, <2>3, Reads
<1>3. CASE TwoBytes
  BY <1>3, TwoBytesInv
<1>4. CASE ThreeBytes
  BY <1>4, ThreeBytesInv
<1>5. CASE FourBytes
  BY <1>5, FourBytesInv
<1>6. CASE Unknown
  <2>1. Goes /\ input[at] \in Int /\ 248 <= input[at]
    BY <1>6, BetweenIs DEF Unknown
  <2>2. Step(1, <<>>)
    BY <1>6 DEF Unknown
  <2>3. ASSUME WellFormed(input) PROVE FALSE
    <3>1. PICK n \in 1..4 : Of(input, at, n)
      BY <2>1, <2>3, Reading
    <3> QED
      BY <2>1, <3>1, LengthIs
  <2> QED
    BY <2>1, <2>2, <2>3, Reads
<1>7. CASE Pad
  BY <1>7, PadInv
<1>8. CASE UNCHANGED utf16_vars
  BY <1>8 DEF Utf16Inv, utf16_vars
<1> QED
  BY <1>1, <1>2, <1>3, <1>4, <1>5, <1>6, <1>7, <1>8 DEF Utf16Next, Finished

(* wnp.c:701-781: for every text that is UTF-8, of any characters and any     *)
(* length, and for every size of the output, what the conversion leaves in   *)
(* the output is the text in UTF-16, if it has no character of four bytes;    *)
(* with such characters it is of the right length, if there is room for it.   *)
THEOREM AlwaysConverts ==
  ASSUME Utf16Assumption
  PROVE  Utf16Spec => []Converts
<1>1. Utf16Init => Utf16Inv
  BY Utf16InitInv
<1>2. Utf16Inv /\ [Utf16Next]_utf16_vars => Utf16Inv'
  BY Utf16StepInv
<1>3. Utf16Inv => Converts
  <2> SUFFICES ASSUME Utf16Inv, padded, WellFormed(input)
               PROVE  /\ (\A k \in Starts(input) : input[k] < 240) => output = Expected
                      /\ Len(Text) <= output_len => Len(output) = output_len
    BY DEF Converts
  <2>1. Converting(input, output_len, at, output, TRUE)
    BY DEF Utf16Inv
  <2> QED
    BY <2>1, TextIs DEF Converting, Plain, Fits
<1> QED
  BY <1>1, <1>2, <1>3, PTL DEF Utf16Spec

-----------------------------------------------------------------------------
(* THE CONTROLS, for unsigned numbers of any width and tracks and seeks of  *)
(* any length that fit.                                                     *)

(* Sums and differences of unsigned numbers wrap once at most.             *)
LEMMA Wraps ==
  ASSUME NEW n \in Nat \ {0}, NEW a \in 0..n-1, NEW b \in 0..n-1
  PROVE  /\ (a - b) % n = (IF a >= b THEN a - b ELSE a - b + n)
         /\ (a + b) % n = (IF a + b < n THEN a + b ELSE a + b - n)
OBVIOUS

LEMMA Remainder ==
  ASSUME NEW n \in Nat \ {0}, NEW x \in Int
  PROVE  x % n \in 0..n-1
OBVIOUS

(* Half of what is divided by, added, does not reach the next number.      *)
LEMMA Rounds ==
  ASSUME NEW p \in Nat, NEW d \in Nat \ {0}
  PROVE  (2 * p * d + d) \div (2 * d) = p
OBVIOUS

LEMMA Quotient ==
  ASSUME NEW x \in Nat, NEW d \in Nat \ {0}
  PROVE  x \div d \in Nat
OBVIOUS

-----------------------------------------------------------------------------
(* A control asks for a position inside the track that its copy has.       *)

LEMMA RowFacts ==
  ASSUME UtilitiesAssumption, NEW p \in Row
  PROVE  /\ p.position \in Nat /\ p.duration \in Nat /\ p.duration \in Durations
         /\ p.position < Unsigned /\ p.duration < Unsigned
         /\ Unsigned \in Nat \ {0}
         /\ p.repeat \in Modes /\ p.available_repeat \subseteq Modes
<1>1. Unsigned \in Nat \ {0} /\ Durations \subseteq 0..Unsigned-1
  BY DEF UtilitiesAssumption
<1>2. p.position \in 0..Unsigned-1 /\ p.duration \in Durations
  BY DEF Row
<1>3. p.repeat \in Modes /\ p.available_repeat \subseteq Modes
  BY DEF Row
<1>4. p.duration \in 0..Unsigned-1
  BY <1>1, <1>2
<1> QED
  BY <1>1, <1>2, <1>3, <1>4

LEMMA ClampedIn ==
  ASSUME UtilitiesAssumption, NEW p \in Row, NEW seconds \in Nat
  PROVE  /\ Clamped(p, seconds) \in 0..p.duration
         /\ Clamped(p, seconds) \in 0..Unsigned-1
BY RowFacts DEF Clamped

LEMMA PartIn ==
  ASSUME UtilitiesAssumption, NEW p \in Row, NEW share \in Shares
  PROVE  Part(p, share) \in Nat
<1>1. share[1] \in Nat /\ share[2] \in Nat \ {0} /\ p.duration \in Nat
  BY RowFacts DEF UtilitiesAssumption
<1>2. /\ 2 * share[1] * p.duration + share[2] \in Nat
      /\ 2 * share[2] \in Nat \ {0}
  BY <1>1
<1> QED
  BY <1>2, Quotient DEF Part

LEMMA SeekIn ==
  ASSUME UtilitiesAssumption, NEW p \in Row, NEW seconds \in Nat
  PROVE  /\ Minus(p, seconds) \in 0..p.duration /\ Minus(p, seconds) \in 0..Unsigned-1
         /\ Plus(p, seconds) \in 0..p.duration /\ Plus(p, seconds) \in 0..Unsigned-1
<1>0. p.position \in Nat /\ Unsigned \in Nat \ {0}
  BY RowFacts
<1>1. /\ (p.position - seconds) % Unsigned \in Nat
      /\ (p.position + seconds) % Unsigned \in Nat
  BY <1>0
<1> QED
  BY <1>1, ClampedIn DEF Minus, Plus

-----------------------------------------------------------------------------
(* The position is inside the track it was asked for.                      *)

Inside == ~outdated => player.position <= player.duration

ControlsInv == ControlsTypeOK /\ Inside

LEMMA InitControls == UtilitiesAssumption /\ ControlsInit => ControlsInv
<1> SUFFICES ASSUME UtilitiesAssumption, ControlsInit PROVE ControlsInv
  OBVIOUS
<1>1. player \in Row /\ player.position = 0
  BY DEF ControlsInit, Row, UtilitiesAssumption
<1>2. player.duration \in Nat
  BY <1>1, RowFacts
<1>3. ControlsTypeOK
  BY <1>1 DEF ControlsInit, ControlsTypeOK
<1> QED
  BY <1>1, <1>2, <1>3 DEF ControlsInv, Inside

LEMMA SeekKeeps ==
  ASSUME UtilitiesAssumption, ControlsInv, NEW position \in 0..copy.duration,
         position \in 0..Unsigned-1, Seek(position)
  PROVE  ControlsInv'
<1>1. /\ player' = [player EXCEPT !.position = position] /\ copy' = copy
      /\ outdated' = (copy.duration # player.duration)
      /\ player \in Row /\ copy \in Row
  BY DEF Seek, ControlsInv, ControlsTypeOK
<1>2. /\ player' \in Row /\ player'.position = position
      /\ player'.duration = player.duration
  BY <1>1 DEF Row
<1>3. outdated' \in BOOLEAN
  BY <1>1
<1>4. Inside'
  <2>1. CASE copy.duration = player.duration
    BY <1>2, <2>1 DEF Inside
  <2>2. CASE copy.duration # player.duration
    BY <1>1, <2>2, Zenon DEF Inside
  <2> QED
    BY <2>1, <2>2
<1> QED
  BY <1>1, <1>2, <1>3, <1>4 DEF ControlsInv, ControlsTypeOK

(* Everything else leaves the position, or sets it to the start.           *)
LEMMA RowKeeps ==
  ASSUME UtilitiesAssumption, ControlsInv, player' \in Row, copy' \in Row,
         outdated' \in BOOLEAN,
         \/ player'.position = 0
         \/ /\ player'.position = player.position /\ player'.duration = player.duration
            /\ outdated' = outdated
  PROVE  ControlsInv'
BY RowFacts DEF ControlsInv, ControlsTypeOK, Inside

LEMMA NextRepeatIn ==
  ASSUME NEW p, p.repeat \in Modes
  PROVE  next_repeat(p) \in Modes
BY DEF next_repeat, Preferred, Modes

LEMMA StepControls == UtilitiesAssumption /\ ControlsInv /\ [ControlsNext]_controls_vars => ControlsInv'
<1> SUFFICES ASSUME UtilitiesAssumption, ControlsInv, [ControlsNext]_controls_vars PROVE ControlsInv'
  OBVIOUS
<1>0. player \in Row /\ copy \in Row /\ outdated \in BOOLEAN
  BY DEF ControlsInv, ControlsTypeOK
<1>1. ASSUME NEW s \in Seconds,
             wnp_try_set_position(s) \/ wnp_try_revert(s) \/ wnp_try_forward(s)
      PROVE  ControlsInv'
  <2>1. s \in Nat
    BY DEF UtilitiesAssumption
  <2> QED
    BY <1>0, <1>1, <2>1, ClampedIn, SeekIn, SeekKeeps
    DEF wnp_try_set_position, wnp_try_revert, wnp_try_forward
<1>2. ASSUME NEW share \in Shares,
             \/ wnp_try_set_position_percent(share) \/ wnp_try_revert_percent(share)
             \/ wnp_try_forward_percent(share)
      PROVE  ControlsInv'
  <2>1. Part(copy, share) \in Nat
    BY <1>0, PartIn
  <2> QED
    BY <1>0, <1>2, <2>1, ClampedIn, SeekIn, SeekKeeps
    DEF wnp_try_set_position_percent, wnp_try_revert_percent, wnp_try_forward_percent
<1>3. CASE wnp_try_play_pause
  BY <1>0, <1>3, RowKeeps DEF wnp_try_play_pause, Toggled, Row
<1>4. ASSUME NEW volume \in {0, 50, 101}, wnp_try_set_volume(volume) PROVE ControlsInv'
  BY <1>0, <1>4, RowKeeps DEF wnp_try_set_volume, Row
<1>5. CASE wnp_try_toggle_repeat
  <2>1. next_repeat(copy) \in Modes
    BY <1>0, NextRepeatIn DEF Row
  <2> QED
    BY <1>0, <1>5, <2>1, RowKeeps DEF wnp_try_toggle_repeat, Row
<1>6. CASE wnp_get_player
  BY <1>0, <1>6, RowKeeps DEF wnp_get_player
<1>7. ASSUME NEW duration \in Durations, Track(duration) PROVE ControlsInv'
  <2>1. 0 \in 0..Unsigned-1
    BY DEF UtilitiesAssumption
  <2>2. player' \in Row /\ player'.position = 0
    BY <1>0, <1>7, <2>1 DEF Track, Row
  <2> QED
    BY <1>0, <1>7, <2>2, RowKeeps DEF Track
<1>8. CASE UNCHANGED controls_vars
  BY <1>0, <1>8, RowKeeps DEF controls_vars
<1> QED
  BY <1>1, <1>2, <1>3, <1>4, <1>5, <1>6, <1>7, <1>8 DEF ControlsNext

(* The controls of wnp.c:851-942 and the updates of their player keep the   *)
(* types, and the position inside the track it was asked for.              *)
THEOREM ControlsInvariant == ASSUME UtilitiesAssumption PROVE ControlsSpec => []ControlsInv
<1> QED
  BY InitControls, StepControls, PTL DEF ControlsSpec

(* The rows keep their types (wnp.c:851-942).                              *)
THEOREM ControlsTypes == ASSUME UtilitiesAssumption PROVE ControlsSpec => []ControlsTypeOK
<1>1. ControlsInv => ControlsTypeOK
  BY DEF ControlsInv
<1> QED
  BY <1>1, ControlsInvariant, PTL

-----------------------------------------------------------------------------
(* What follows for the controls.                                          *)

LEMMA PercentStays ==
  ASSUME UtilitiesAssumption, NEW p \in Row, p.position <= p.duration
  PROVE  Clamped(p, Part(p, position_percent(p))) = p.position
<1>1. CASE p.duration = 0
  <2>1. Part(p, position_percent(p)) = 0
    BY <1>1 DEF Part, position_percent
  <2> QED
    BY <1>1, <2>1, RowFacts DEF Clamped
<1>2. CASE p.duration # 0
  <2>1. p.position \in Nat /\ p.duration \in Nat \ {0}
    BY <1>2, RowFacts
  <2>2. Part(p, position_percent(p))
          = (2 * p.position * p.duration + p.duration) \div (2 * p.duration)
    BY <1>2 DEF Part, position_percent
  <2>3. Part(p, position_percent(p)) = p.position
    BY <2>1, <2>2, Rounds
  <2> QED
    BY <2>1, <2>3 DEF Clamped
<1> QED
  BY <1>1, <1>2

(* The two seeks, in numbers alone: n is Unsigned, a the position, s the    *)
(* seek and d the duration.                                                *)
LEMMA InRange ==
  ASSUME NEW n \in Nat \ {0}, NEW a \in 0..n-1, NEW s \in 0..n-1, NEW d \in 0..n-1,
         a + s <= d
  PROVE  (a + s) % n = a + s
<1>1. a + s < n
  OBVIOUS
<1> QED
  BY <1>1, Wraps

LEMMA BelowZero ==
  ASSUME NEW n \in Nat \ {0}, NEW a \in 0..n-1, NEW s \in 0..n-1, NEW d \in 0..n-1,
         a < s, s <= n + a - d
  PROVE  (a - s) % n >= d /\ (a - s) % n \in Nat
<1>1. (a - s) % n = a - s + n
  BY Wraps
<1> QED
  BY <1>1

LEMMA ForwardAndBack ==
  ASSUME UtilitiesAssumption, NEW p \in Row, NEW s \in Seconds,
         p.position + s <= p.duration
  PROVE  Minus([p EXCEPT !.position = Plus(p, s)], s) = p.position
<1>1. /\ s \in 0..Unsigned-1 /\ p.position \in 0..Unsigned-1
      /\ p.duration \in 0..Unsigned-1 /\ Unsigned \in Nat \ {0}
  BY RowFacts DEF UtilitiesAssumption
<1>2. (p.position + s) % Unsigned = p.position + s
  BY <1>1, InRange
<1>3. Plus(p, s) = p.position + s
  BY <1>1, <1>2 DEF Plus, Clamped
<1>4. ASSUME NEW q, q.position = p.position + s, q.duration = p.duration
      PROVE  Minus(q, s) = p.position
  <2>1. q.position - s = p.position
    BY <1>1, <1>4
  <2>3. p.position % Unsigned = p.position
    BY <1>1
  <2>2. ~(p.position > q.duration)
    BY <1>1, <1>4
  <2> QED
    BY <2>1, <2>2, <2>3 DEF Minus, Clamped
<1>5. /\ [p EXCEPT !.position = Plus(p, s)].position = p.position + s
      /\ [p EXCEPT !.position = Plus(p, s)].duration = p.duration
  BY <1>3 DEF Row
<1> QED
  BY <1>4, <1>5

LEMMA BackTooFar ==
  ASSUME UtilitiesAssumption, NEW p \in Row, NEW s \in Seconds,
         s \in p.position+1..Unsigned + p.position - p.duration
  PROVE  Minus(p, s) = p.duration
<1>1. /\ s \in 0..Unsigned-1 /\ p.position \in 0..Unsigned-1
      /\ p.duration \in 0..Unsigned-1 /\ Unsigned \in Nat \ {0}
  BY RowFacts DEF UtilitiesAssumption
<1>2. p.position < s /\ s <= Unsigned + p.position - p.duration
  BY <1>1
<1>3. (p.position - s) % Unsigned >= p.duration /\ (p.position - s) % Unsigned \in Nat
  BY <1>1, <1>2, BelowZero
<1> QED
  BY <1>1, <1>3 DEF Minus, Clamped

LEMMA EveryMode ==
  ASSUME NEW p \in Row
  PROVE  p.available_repeat \subseteq
           {p.repeat, next_repeat(p),
            next_repeat([p EXCEPT !.repeat = next_repeat(p)])}
<1> DEFINE q == [p EXCEPT !.repeat = next_repeat(p)]
<1>1. /\ q.repeat = next_repeat(p) /\ q.available_repeat = p.available_repeat
      /\ p.repeat \in Modes /\ p.available_repeat \subseteq Modes
  BY DEF Row
<1>2. p.repeat = "NONE" \/ p.repeat = "ALL" \/ p.repeat = "ONE"
  BY <1>1 DEF Modes
<1> HIDE DEF q
<1>3. p.available_repeat \subseteq {p.repeat, next_repeat(p), next_repeat(q)}
  BY <1>1, <1>2 DEF next_repeat, Preferred, Modes
<1> QED
  BY <1>3 DEF q

(* wnp.c:851-942: the position stays inside the track unless the caller's  *)
(* copy was of another one, the percentage a player is at leaves it there,  *)
(* seeking forward and back does too, seeking back too far lands on the     *)
(* end, and toggling goes through every mode the player supports - for      *)
(* every width of the numbers, every track and every seek.                  *)
THEOREM ControlsAlwaysAgree == ASSUME UtilitiesAssumption PROVE ControlsSpec => []ControlsAgree
<1>1. ControlsInv => ControlsAgree
  <2> SUFFICES ASSUME ControlsInv, ~outdated PROVE ControlsAgree
    BY DEF ControlsAgree
  <2>1. player \in Row /\ player.position <= player.duration
    BY DEF ControlsInv, ControlsTypeOK, Inside
  <2>2. Clamped(player, Part(player, position_percent(player))) = player.position
    BY <2>1, PercentStays
  <2>3. \A s \in Seconds : player.position + s <= player.duration =>
          Minus([player EXCEPT !.position = Plus(player, s)], s) = player.position
    BY <2>1, ForwardAndBack
  <2>4. \A s \in Seconds :
          s \in player.position+1..Unsigned + player.position - player.duration =>
            Minus(player, s) = player.duration
    BY <2>1, BackTooFar
  <2>5. player.available_repeat \subseteq
          {player.repeat, next_repeat(player),
           next_repeat([player EXCEPT !.repeat = next_repeat(player)])}
    BY <2>1, EveryMode
  <2> QED
    BY <2>1, <2>2, <2>3, <2>4, <2>5, Zenon DEF ControlsAgree
<1> QED
  BY <1>1, ControlsInvariant, PTL
===============================================================================
