-------------------------- MODULE DarwinAdapterProofs --------------------------
(***************************************************************************)
(* The Darwin adapter shows the media, for any number of slots, texts and  *)
(* calls whose answers overtake one another.                               *)
(***************************************************************************)
EXTENDS DarwinAdapter, TLAPS

Entries == {Mine(a, b) : a \in Texts \cup {NoText}, b \in BOOLEAN}
Shown   == players[player_id].shown

LEMMA AnswerFacts ==
  /\ \A i \in InfoAnswers : /\ i = Asked <=> i.at = "asked"
                            /\ i = Done <=> i.at = "done"
                            /\ i.at \in {"asked", "answered", "noted", "done"}
                            /\ i.at \in {"answered", "noted"} => i.says \in Texts
  /\ \A p \in PlayingAnswers : /\ p = Asked <=> p.at = "asked"
                               /\ p = Done <=> p.at = "done"
                               /\ p.at \in {"asked", "answered", "done"}
                               /\ p.at = "answered" => p.says \in BOOLEAN
  /\ \A a : /\ Answer(a).at = "answered" /\ Answer(a).says = a
            /\ Noted(a).at = "noted" /\ Noted(a).says = a
  /\ Asked \in InfoAnswers /\ Done \in InfoAnswers /\ Asked \in PlayingAnswers /\ Done \in PlayingAnswers
  /\ \A a \in Texts : Answer(a) \in InfoAnswers /\ Noted(a) \in InfoAnswers
  /\ \A a \in BOOLEAN : Answer(a) \in PlayingAnswers
  /\ Asked.at = "asked" /\ Done.at = "done"
<1>1. \A a : /\ Answer(a).at = "answered" /\ Answer(a).says = a
             /\ Noted(a).at = "noted" /\ Noted(a).says = a
  BY DEF Answer, Noted
<1>2. Asked.at = "asked" /\ Done.at = "done"
  BY DEF Asked, Done
<1> QED
  BY <1>1, <1>2 DEF InfoAnswers, PlayingAnswers

LEMMA EntryIn ==
  ASSUME NEW a \in Texts \cup {NoText}, NEW b \in BOOLEAN
  PROVE  Mine(a, b) \in Entries /\ Says(a, b) \in [text : Texts \cup {NoText}, playing : BOOLEAN]
<1>1. Mine(a, b) \in Entries
  BY SMT DEF Entries
<1> QED
  BY <1>1 DEF Says

LEMMA EntryFacts ==
  /\ \A e \in Entries : /\ e.own = "darwin" /\ e.shown = Says(e.shown.text, e.shown.playing)
                        /\ e.shown.text \in Texts \cup {NoText} /\ e.shown.playing \in BOOLEAN
                        /\ e = Mine(e.shown.text, e.shown.playing)
  /\ Free.own # "darwin" /\ Web.own # "darwin" /\ Free # Web
  /\ \A a, b : /\ Says(a, b).text = a /\ Says(a, b).playing = b
               /\ Mine(a, b).shown = Says(a, b) /\ Mine(a, b).own = "darwin"
  /\ \A a, b, c, d : Says(a, b) = Says(c, d) <=> a = c /\ b = d
BY DEF Entries, Mine, Says, Free, Web

-----------------------------------------------------------------------------
(* While c is the only call there is: what its two answers say, or the       *)
(* adapter has taken note of, is what plays, unless a notification is still *)
(* to come, and nothing else was noted or written since.                    *)
PlayingHeard(p) ==
  \/ "playing" \in notes \/ p = Asked
  \/ p = Answer(media.playing)
  \/ p = Done /\ isPlaying = media.playing

InfoHeard(i) ==
  /\ \/ "info" \in notes \/ i = Asked
     \/ i = Answer(media.text)
     \/ i.at \in {"noted", "done"} /\ old.text = media.text
  /\ i.at \in {"noted", "done"} => old.playing = isPlaying
  /\ i.at = "noted" => i.says = old.text
  /\ clean /\ i.at # "noted" => Shown = old

Sole(c) == InFlight \subseteq {c} /\ PlayingHeard(call[c].playing) /\ InfoHeard(call[c].info)

Overlapped == alone = {} /\ ~clean

DarwinInv == TypeOK /\ (Overlapped \/ \E c \in Calls : alone = {c} /\ Sole(c))

LEMMA InitDarwinInv ==
  ASSUME DarwinAssumption, Init
  PROVE  DarwinInv
<1>1. PICK c \in Calls : /\ alone = {c}
                         /\ call = [d \in Calls |-> IF d = c THEN [playing |-> Asked, info |-> Asked]
                                                    ELSE [playing |-> Done, info |-> Done]]
  BY DEF Init
<1>2. call \in [Calls -> [playing : PlayingAnswers, info : InfoAnswers]]
  BY <1>1, AnswerFacts
<1>3. Mine(NoText, FALSE) \in Entries /\ Says(NoText, FALSE) \in [text : Texts \cup {NoText}, playing : BOOLEAN]
  BY EntryIn
<1>4. /\ player_id \in Slots
      /\ players = [s \in Slots |-> IF s < player_id THEN Web
                                    ELSE IF s = player_id THEN Mine(NoText, FALSE) ELSE Free]
  BY DEF Init
<1>5. players \in [Slots -> {Free, Web} \cup Entries]
  BY <1>3, <1>4
<1>6. \A s \in Slots : players[s].own = "darwin" <=> s = player_id
  <2>1. ~(player_id < player_id)
    BY <1>4 DEF Slots, DarwinAssumption
  <2>2. Mine(NoText, FALSE).own = "darwin" /\ Free.own # "darwin" /\ Web.own # "darwin"
    BY DEF Mine, Free, Web
  <2>3. ASSUME NEW s \in Slots PROVE players[s].own = "darwin" <=> s = player_id
    <3>1. players[s] = IF s < player_id THEN Web
                       ELSE IF s = player_id THEN Mine(NoText, FALSE) ELSE Free
      BY <1>4
    <3> QED
      BY <3>1, <2>1, <2>2
  <2> QED
    BY <2>3
<1>7. TypeOK
  <2>1. /\ media \in [text : Texts, playing : BOOLEAN] /\ notes \subseteq {"info", "playing"}
        /\ isPlaying \in BOOLEAN /\ clean \in BOOLEAN
    BY DEF Init
  <2>3. old \in [text : Texts \cup {NoText}, playing : BOOLEAN]
    BY <1>3 DEF Init
  <2>4. alone \subseteq Calls
    BY <1>1
  <2>5. player_id \in Slots
    BY <1>4
  <2>2. players \in [Slots -> {Free, Web} \cup {Mine(a, b) : a \in Texts \cup {NoText}, b \in BOOLEAN}]
    BY <1>5 DEF Entries
  <2> QED
    BY ONLY <1>2, <2>5, <1>6, <2>1, <2>2, <2>3, <2>4 DEF TypeOK
<1>8. InFlight \subseteq {c} /\ call[c].playing = Asked /\ call[c].info = Asked
  BY <1>1 DEF InFlight
<1>9. Sole(c)
  BY <1>8, AnswerFacts DEF Init, Sole, PlayingHeard, InfoHeard
<1> QED
  BY <1>1, <1>7, <1>9 DEF DarwinInv

(* The answers of one call are written.                                     *)
Answers(c, p, i) == call' = [call EXCEPT ![c] = [playing |-> p, info |-> i]]

LEMMA CallSet ==
  ASSUME TypeOK, NEW c \in Calls, NEW p \in PlayingAnswers, NEW i \in InfoAnswers,
         Answers(c, p, i)
  PROVE  /\ call' \in [Calls -> [playing : PlayingAnswers, info : InfoAnswers]]
         /\ call'[c].playing = p /\ call'[c].info = i
         /\ \A d \in Calls \ {c} : call'[d] = call[d]
         /\ InFlight' = (InFlight \ {c}) \cup (IF p # Done \/ i # Done THEN {c} ELSE {})
<1> DEFINE new == [playing |-> p, info |-> i]
<1>1. new \in [playing : PlayingAnswers, info : InfoAnswers] /\ new.playing = p /\ new.info = i
  OBVIOUS
<1> HIDE DEF new
<1>2. /\ call' \in [Calls -> [playing : PlayingAnswers, info : InfoAnswers]]
      /\ call'[c] = new /\ \A d \in Calls \ {c} : call'[d] = call[d]
  BY <1>1 DEF TypeOK, Answers, new
<1> QED
  BY <1>1, <1>2 DEF InFlight

LEMMA PlayingSet ==
  ASSUME TypeOK, NEW c \in Calls, NEW p \in PlayingAnswers,
         call' = [call EXCEPT ![c].playing = p]
  PROVE  /\ call[c].info \in InfoAnswers
         /\ Answers(c, p, call[c].info)
<1>1. call[c] \in [playing : PlayingAnswers, info : InfoAnswers]
  BY DEF TypeOK
<1>2. [call[c] EXCEPT !.playing = p] = [playing |-> p, info |-> call[c].info]
  BY <1>1
<1> QED
  BY <1>1, <1>2 DEF Answers

LEMMA InfoSet ==
  ASSUME TypeOK, NEW c \in Calls, NEW i \in InfoAnswers,
         call' = [call EXCEPT ![c].info = i]
  PROVE  /\ call[c].playing \in PlayingAnswers
         /\ Answers(c, call[c].playing, i)
<1>1. call[c] \in [playing : PlayingAnswers, info : InfoAnswers]
  BY DEF TypeOK
<1>2. [call[c] EXCEPT !.info = i] = [playing |-> call[c].playing, info |-> i]
  BY <1>1
<1> QED
  BY <1>1, <1>2 DEF Answers

(* A new call is asked: it is alone, or nothing is certain any more.        *)
LEMMA Asks ==
  ASSUME DarwinInv, NEW c \in Calls, GetNowPlayingInfo(c), isPlaying' \in BOOLEAN,
         UNCHANGED <<media, old, player_id, players>>, notes' \subseteq notes
  PROVE  DarwinInv'
<1>1. /\ c \notin InFlight /\ call' = [call EXCEPT ![c] = [playing |-> Asked, info |-> Asked]]
      /\ alone' = IF InFlight = {} THEN {c} ELSE {}
      /\ clean' = (clean /\ InFlight = {})
      /\ TypeOK /\ clean \in BOOLEAN
  BY DEF GetNowPlayingInfo, DarwinInv, TypeOK
<1>2. /\ call' \in [Calls -> [playing : PlayingAnswers, info : InfoAnswers]]
      /\ call'[c].playing = Asked /\ call'[c].info = Asked
      /\ InFlight = {} => InFlight' \subseteq {c}
  <2>1. Asked \in PlayingAnswers /\ Asked \in InfoAnswers
    BY DEF PlayingAnswers, InfoAnswers
  <2>2. Answers(c, Asked, Asked)
    BY <1>1 DEF Answers
  <2> QED
    BY <1>1, <2>1, <2>2, CallSet
<1>3. clean' \in BOOLEAN /\ (InFlight # {} => clean' = FALSE) /\ (InFlight = {} => clean' = clean)
  BY <1>1
<1>4. TypeOK'
  BY <1>1, <1>2, <1>3 DEF TypeOK
<1>5. CASE InFlight # {}
  BY <1>1, <1>3, <1>4, <1>5 DEF DarwinInv, Overlapped
<1>6. CASE InFlight = {}
  <2>1. clean => Shown = old
    <3>1. ASSUME NEW d \in Calls, Sole(d), clean PROVE Shown = old
      <4>1. call[d].info = Done
        BY <1>6 DEF InFlight
      <4> QED
        BY <3>1, <4>1, AnswerFacts DEF Sole, InfoHeard
    <3> QED
      BY <3>1 DEF DarwinInv, Overlapped
  <2>2. Shown' = Shown
    BY DEF Shown
  <2>3. Sole(c)'
    BY <1>2, <1>3, <1>6, <2>1, <2>2, AnswerFacts DEF Sole, PlayingHeard, InfoHeard
  <2> QED
    BY <1>1, <1>4, <1>6, <2>3 DEF DarwinInv
<1> QED
  BY <1>5, <1>6

LEMMA StepInfoDidChange ==
  ASSUME DarwinInv, NEW c \in Calls, InfoDidChange(c)
  PROVE  DarwinInv'
<1>1. /\ GetNowPlayingInfo(c) /\ UNCHANGED <<media, isPlaying, old, player_id, players>>
      /\ notes' \subseteq notes /\ isPlaying \in BOOLEAN
  BY DEF InfoDidChange, object, DarwinInv, TypeOK
<1> QED
  BY <1>1, Asks

LEMMA StepIsPlayingDidChange ==
  ASSUME DarwinInv, NEW c \in Calls, IsPlayingDidChange(c)
  PROVE  DarwinInv'
<1>1. /\ GetNowPlayingInfo(c) /\ UNCHANGED <<media, old, player_id, players>>
      /\ notes' \subseteq notes /\ isPlaying' \in BOOLEAN
  BY DEF IsPlayingDidChange, DarwinInv, TypeOK
<1> QED
  BY <1>1, Asks

(* Another call, or none, is answered: what is the case of the only call     *)
(* stays so.                                                                *)
LEMMA SoleCall ==
  ASSUME DarwinInv, NEW c \in Calls, c \in InFlight, alone # {}
  PROVE  alone = {c} /\ Sole(c)
<1>1. PICK d \in Calls : alone = {d} /\ Sole(d)
  BY DEF DarwinInv, Overlapped
<1>2. d = c
  BY <1>1 DEF Sole
<1> QED
  BY <1>1, <1>2

(* The calls' answers as a step leaves them that starts no call.            *)
LEMMA Answered ==
  ASSUME DarwinInv, NEW c \in Calls, c \in InFlight,
         NEW p \in PlayingAnswers, NEW i \in InfoAnswers, Answers(c, p, i),
         TypeOK /\ call' \in [Calls -> [playing : PlayingAnswers, info : InfoAnswers]] => TypeOK',
         alone' = alone \/ Overlapped',
         clean' => alone # {},
         Sole(c) /\ alone = {c} /\ alone' = alone => PlayingHeard(p)' /\ InfoHeard(i)'
  PROVE  DarwinInv'
<1>1. /\ call' \in [Calls -> [playing : PlayingAnswers, info : InfoAnswers]]
      /\ call'[c].playing = p /\ call'[c].info = i
      /\ InFlight' \subseteq InFlight \cup {c}
  BY CallSet DEF DarwinInv
<1>2. TypeOK'
  BY <1>1 DEF DarwinInv
<1>3. CASE Overlapped'
  BY <1>2, <1>3 DEF DarwinInv
<1>4. CASE alone' = alone /\ alone = {}
  BY <1>2, <1>4 DEF DarwinInv, Overlapped
<1>5. CASE alone' = alone /\ alone # {}
  <2>1. alone = {c} /\ Sole(c)
    BY <1>5, SoleCall
  <2>2. Sole(c)'
    BY <1>1, <1>5, <2>1 DEF Sole
  <2> QED
    BY <1>2, <1>5, <2>1, <2>2 DEF DarwinInv
<1> QED
  BY <1>3, <1>4, <1>5


LEMMA CleanAlone ==
  ASSUME DarwinInv, clean
  PROVE  alone # {}
BY DEF DarwinInv, Overlapped

LEMMA StepAnswerPlaying ==
  ASSUME DarwinInv, NEW c \in Calls, AnswerPlaying(c)
  PROVE  DarwinInv'
<1>0. PICK p : p = Answer(media.playing)
  OBVIOUS
<1>1. PICK i : i = call[c].info
  OBVIOUS
<1>2. /\ call[c].playing = Asked /\ call' = [call EXCEPT ![c].playing = p]
      /\ UNCHANGED <<media, notes, isPlaying, old, player_id, players, alone, clean>>
      /\ TypeOK
  BY <1>0 DEF AnswerPlaying, object, DarwinInv
<1>3. p \in PlayingAnswers /\ c \in InFlight /\ (p = Answer(media.playing))'
  BY <1>0, <1>2, AnswerFacts DEF TypeOK, InFlight
<1>4. i \in InfoAnswers /\ Answers(c, p, i)
  BY <1>1, <1>2, <1>3, PlayingSet
<1>5. Sole(c) => PlayingHeard(p)' /\ InfoHeard(i)'
  BY <1>1, <1>2, <1>3 DEF Sole, PlayingHeard, InfoHeard, Shown
<1>6. TypeOK /\ call' \in [Calls -> [playing : PlayingAnswers, info : InfoAnswers]] => TypeOK'
  BY <1>2 DEF TypeOK
<1> QED
  BY <1>2, <1>3, <1>4, <1>5, <1>6, CleanAlone, Answered

LEMMA StepAnswerInfo ==
  ASSUME DarwinInv, NEW c \in Calls, AnswerInfo(c)
  PROVE  DarwinInv'
<1>0. PICK i : i = Answer(media.text)
  OBVIOUS
<1>1. PICK p : p = call[c].playing
  OBVIOUS
<1>2. /\ call[c].info = Asked /\ call' = [call EXCEPT ![c].info = i]
      /\ UNCHANGED <<media, notes, isPlaying, old, player_id, players, alone, clean>>
      /\ TypeOK
  BY <1>0 DEF AnswerInfo, object, DarwinInv
<1>3. i \in InfoAnswers /\ c \in InFlight /\ (i = Answer(media.text))' /\ i.at = "answered"
  BY <1>0, <1>2, AnswerFacts DEF TypeOK, InFlight
<1>4. p \in PlayingAnswers /\ Answers(c, p, i)
  BY <1>1, <1>2, <1>3, InfoSet
<1>5. Sole(c) => PlayingHeard(p)' /\ InfoHeard(i)'
  BY <1>1, <1>2, <1>3, AnswerFacts DEF Sole, PlayingHeard, InfoHeard, Shown
<1>6. TypeOK /\ call' \in [Calls -> [playing : PlayingAnswers, info : InfoAnswers]] => TypeOK'
  BY <1>2 DEF TypeOK
<1> QED
  BY <1>2, <1>3, <1>4, <1>5, <1>6, CleanAlone, Answered

LEMMA StepPlayingBlock ==
  ASSUME DarwinInv, NEW c \in Calls, PlayingBlock(c)
  PROVE  DarwinInv'
<1>1. PICK i : i = call[c].info
  OBVIOUS
<1>2. /\ call[c].playing.at = "answered" /\ call' = [call EXCEPT ![c].playing = Done]
      /\ isPlaying' = call[c].playing.says
      /\ IF isPlaying' = isPlaying \/ i.at \in {"asked", "answered"}
           THEN UNCHANGED <<alone, clean>> ELSE alone' = {} /\ clean' = FALSE
      /\ UNCHANGED <<media, notes, old, player_id, players>>
      /\ TypeOK
  BY <1>1 DEF PlayingBlock, DarwinInv
<1>3. /\ call[c].playing \in PlayingAnswers /\ i \in InfoAnswers
      /\ Done \in PlayingAnswers
  BY <1>1, AnswerFacts, <1>2 DEF TypeOK
<1>4. c \in InFlight /\ isPlaying' \in BOOLEAN
  BY <1>2, <1>3, AnswerFacts DEF InFlight
<1>5. Answers(c, Done, i)
  BY <1>1, <1>2, <1>3, PlayingSet
<1>6. alone' = alone \/ Overlapped'
  BY <1>2 DEF Overlapped
<1>7. Sole(c) /\ alone = {c} /\ alone' = alone => PlayingHeard(Done)' /\ InfoHeard(i)'
  <2> SUFFICES ASSUME Sole(c), alone = {c}, alone' = alone
               PROVE  PlayingHeard(Done)' /\ InfoHeard(i)'
    OBVIOUS
  <2>1. "playing" \in notes \/ call[c].playing = Answer(media.playing)
    BY <1>2, <1>3, AnswerFacts DEF Sole, PlayingHeard
  <2>2. "playing" \in notes \/ isPlaying' = media.playing
    BY <1>2, <2>1, AnswerFacts
  <2>3. clean' = clean /\ (i.at \in {"noted", "done"} => isPlaying' = isPlaying)
    BY <1>2
  <2>4. PlayingHeard(Done)'
    BY <1>2, <2>2 DEF PlayingHeard, Done
  <2>5. InfoHeard(i)'
    BY <1>1, <1>2, <2>3 DEF Sole, InfoHeard, Shown
  <2> QED
    BY <2>4, <2>5
<1>8. TypeOK /\ call' \in [Calls -> [playing : PlayingAnswers, info : InfoAnswers]] => TypeOK'
  <2>1. alone' \subseteq Calls /\ clean' \in BOOLEAN
    <3>1. (alone' = alone /\ clean' = clean) \/ (alone' = {} /\ clean' = FALSE)
      BY <1>2
    <3>2. alone \subseteq Calls /\ clean \in BOOLEAN
      BY <1>2 DEF TypeOK
    <3> QED
      BY <3>1, <3>2
  <2>2. UNCHANGED <<media, notes, old, player_id, players>>
    BY <1>2
  <2> QED
    <3>1. TypeOK
      BY <1>2
    <3>2. isPlaying' \in BOOLEAN
      BY <1>4
    <3> QED
      BY ONLY <3>1, <3>2, <2>1, <2>2 DEF TypeOK
<1>9. clean' => alone # {}
  BY <1>2, CleanAlone
<1> QED
  BY <1>3, <1>4, <1>5, <1>6, <1>7, <1>8, <1>9, Answered

LEMMA StepInfoBlock ==
  ASSUME DarwinInv, NEW c \in Calls, InfoBlock(c)
  PROVE  DarwinInv'
<1>0. PICK t : t = call[c].info.says
  OBVIOUS
<1>1. PICK p : p = call[c].playing
  OBVIOUS
<1>2. /\ call[c].info.at = "answered"
      /\ IF Same(t) THEN call' = [call EXCEPT ![c].info = Done] /\ UNCHANGED old
         ELSE call' = [call EXCEPT ![c].info = Noted(t)] /\ old' = Says(t, isPlaying)
      /\ UNCHANGED <<media, notes, isPlaying, player_id, players, alone, clean>>
      /\ TypeOK
  BY <1>0 DEF InfoBlock, DarwinInv
<1>3. /\ call[c].info \in InfoAnswers /\ p \in PlayingAnswers
      /\ t \in Texts /\ isPlaying \in BOOLEAN
      /\ Done \in InfoAnswers /\ Noted(t) \in InfoAnswers
  BY <1>0, <1>1, <1>2, AnswerFacts DEF TypeOK
<1>4. c \in InFlight /\ old' = Says(t, isPlaying)
  BY <1>2, <1>3, AnswerFacts DEF InFlight, Same
<1>5. old'.text = t /\ old'.playing = isPlaying
      /\ old' \in [text : Texts \cup {NoText}, playing : BOOLEAN]
  BY <1>3, <1>4 DEF Says
<1>6. PICK i \in {Done, Noted(t)} :
         call' = [call EXCEPT ![c].info = i] /\ (i = Done => old' = old)
  <2>1. CASE Same(t)
    BY <1>2, <2>1
  <2>2. CASE ~Same(t)
    <3>1. Noted(t) # Done
      BY AnswerFacts
    <3> QED
      BY <1>2, <2>2, <3>1
  <2> QED
    BY <2>1, <2>2
<1>7. Answers(c, p, i) /\ i \in InfoAnswers
  <2>1. i \in InfoAnswers /\ TypeOK
    BY <1>2, <1>3, <1>6
  <2>2. call' = [call EXCEPT ![c].info = i]
    BY <1>6
  <2> QED
    BY <1>1, <2>1, <2>2, InfoSet
<1>8. i.at \in {"noted", "done"} /\ (i.at = "noted" => i.says = t) /\ (i.at = "done" <=> i = Done)
  BY <1>6, AnswerFacts, <1>7
<1>9. Sole(c) => PlayingHeard(p)' /\ InfoHeard(i)'
  <2> SUFFICES ASSUME Sole(c) PROVE PlayingHeard(p)' /\ InfoHeard(i)'
    OBVIOUS
  <2>1. "info" \in notes \/ t = media.text
    BY <1>0, <1>2, <1>3, AnswerFacts DEF Sole, InfoHeard
  <2>2. clean => Shown = old
    BY <1>2 DEF Sole, InfoHeard
  <2>3. Shown' = Shown
    BY <1>2 DEF Shown
  <2> QED
    BY <1>1, <1>2, <1>5, <1>6, <1>8, <2>1, <2>2, <2>3 DEF Sole, PlayingHeard, InfoHeard
<1>10. TypeOK /\ call' \in [Calls -> [playing : PlayingAnswers, info : InfoAnswers]] => TypeOK'
  <2>1. UNCHANGED <<media, notes, isPlaying, player_id, players, alone, clean>>
    BY <1>2
  <2> QED
    BY <1>5, <2>1 DEF TypeOK
<1> QED
  BY <1>2, <1>3, <1>4, <1>7, <1>9, <1>10, CleanAlone, Answered

(* A player of the adapter's own stays where it is, and says something.     *)
Writes(a, b) == players' = [players EXCEPT ![player_id] = Mine(a, b)]

LEMMA EntrySet ==
  ASSUME TypeOK, NEW a \in Texts \cup {NoText}, NEW b \in BOOLEAN,
         Writes(a, b), UNCHANGED player_id
  PROVE  /\ players' \in [Slots -> {Free, Web} \cup {Mine(d, e) : d \in Texts \cup {NoText}, e \in BOOLEAN}]
         /\ \A s \in Slots : players'[s].own = "darwin" <=> s = player_id
         /\ \A s \in Slots \ {player_id} : players'[s] = players[s]
         /\ Shown' = Says(a, b)
<1>1. Mine(a, b) \in Entries /\ Mine(a, b).own = "darwin" /\ Mine(a, b).shown = Says(a, b)
  BY EntryIn DEF Mine
<1>2. players \in [Slots -> {Free, Web} \cup Entries] /\ player_id \in Slots
  BY DEF TypeOK, Entries
<1>3. /\ players' \in [Slots -> {Free, Web} \cup Entries] /\ players'[player_id] = Mine(a, b)
      /\ \A s \in Slots \ {player_id} : players'[s] = players[s]
  BY <1>1, <1>2 DEF Writes
<1> QED
  BY <1>1, <1>3 DEF TypeOK, Entries, Shown

LEMMA StepUpdate ==
  ASSUME DarwinInv, NEW c \in Calls, Update(c)
  PROVE  DarwinInv'
<1>0. PICK t : t = call[c].info.says
  OBVIOUS
<1>1. PICK p : p = call[c].playing
  OBVIOUS
<1>2. /\ call[c].info.at = "noted" /\ call' = [call EXCEPT ![c].info = Done]
      /\ \E s \in Copies :
           /\ players' = IF Found(s) /\ s \in InUse
                           THEN [players EXCEPT ![s] = Mine(t, isPlaying)] ELSE players
           /\ clean' = (Found(s) /\ (clean \/ c \in alone))
      /\ UNCHANGED <<media, notes, isPlaying, old, player_id, alone>>
      /\ TypeOK
  BY <1>0 DEF Update, object, DarwinInv
<1>3. /\ call[c].info \in InfoAnswers /\ p \in PlayingAnswers
      /\ t \in Texts /\ isPlaying \in BOOLEAN /\ Done \in InfoAnswers
  BY <1>0, <1>1, <1>2, AnswerFacts DEF TypeOK
<1>4. c \in InFlight
  BY <1>2, <1>3, AnswerFacts DEF InFlight
<1>5. Answers(c, p, Done)
  BY <1>1, <1>2, <1>3, InfoSet
<1>6. player_id \in InUse
  BY <1>2, EntryFacts DEF TypeOK, InUse
<1>7. /\ \/ players' = players /\ clean' = FALSE
         \/ Writes(t, isPlaying)
      /\ clean' \in BOOLEAN /\ (clean' => clean \/ c \in alone)
  BY <1>2, <1>6 DEF Found, Writes
<1>12. UNCHANGED <<media, notes, isPlaying, old, player_id, alone>> /\ TypeOK
  BY <1>2
<1>13. Writes(t, isPlaying) =>
         /\ players' \in [Slots -> {Free, Web} \cup {Mine(d, e) : d \in Texts \cup {NoText}, e \in BOOLEAN}]
         /\ \A s \in Slots : players'[s].own = "darwin" <=> s = player_id
         /\ Shown' = Says(t, isPlaying)
  <2>1. t \in Texts \cup {NoText}
    BY <1>3
  <2> QED
    BY <1>3, <1>12, <2>1, EntrySet
<1>8. TypeOK /\ call' \in [Calls -> [playing : PlayingAnswers, info : InfoAnswers]] => TypeOK'
  <2>1. CASE players' = players
    BY <1>7, <1>12, <2>1 DEF TypeOK
  <2>2. CASE Writes(t, isPlaying)
    <3>1. /\ players' \in [Slots -> {Free, Web} \cup {Mine(d, e) : d \in Texts \cup {NoText}, e \in BOOLEAN}]
          /\ \A s \in Slots : players'[s].own = "darwin" <=> s = player_id
      BY <1>13, <2>2
    <3>2. clean' \in BOOLEAN
      BY <1>7
    <3> QED
      BY <1>12, <3>1, <3>2 DEF TypeOK
  <2> QED
    BY <1>7, <2>1, <2>2
<1>9. clean' => Shown' = Says(t, isPlaying)
  BY <1>7, <1>13
<1>10. Sole(c) => PlayingHeard(p)' /\ InfoHeard(Done)'
  <2> SUFFICES ASSUME Sole(c) PROVE PlayingHeard(p)' /\ InfoHeard(Done)'
    OBVIOUS
  <2>1. /\ "info" \in notes \/ old.text = media.text
        /\ old.playing = isPlaying /\ old.text = t
    BY <1>0, <1>2, <1>3, AnswerFacts DEF Sole, InfoHeard
  <2>2. old = Says(t, isPlaying)
    BY <1>2, <2>1 DEF TypeOK, Says
  <2> QED
    BY <1>1, <1>2, <1>9, <2>1, <2>2, AnswerFacts DEF Sole, PlayingHeard, InfoHeard
<1>11. clean' => alone # {}
  BY <1>7, CleanAlone
<1> QED
  BY <1>3, <1>4, <1>5, <1>8, <1>10, <1>11, <1>12, Answered

-----------------------------------------------------------------------------
(* A step that touches no call.                                             *)
LEMMA NoAnswer ==
  ASSUME DarwinInv, UNCHANGED <<call, alone>>, TypeOK', clean' => clean,
         \A c \in Calls : Sole(c) => PlayingHeard(call[c].playing)' /\ InfoHeard(call[c].info)'
  PROVE  DarwinInv'
<1>1. InFlight' = InFlight
  BY DEF InFlight
<1>2. CASE Overlapped
  BY <1>2 DEF DarwinInv, Overlapped, TypeOK
<1>3. ASSUME NEW c \in Calls, alone = {c}, Sole(c) PROVE DarwinInv'
  BY <1>1, <1>3 DEF DarwinInv, Sole
<1> QED
  BY <1>2, <1>3 DEF DarwinInv

LEMMA StepEvent ==
  ASSUME DarwinInv, NEW playing \in BOOLEAN, NEW obeys \in BOOLEAN, Event(playing, obeys)
  PROVE  DarwinInv'
<1>1. /\ players' = [players EXCEPT ![player_id].shown.playing = playing]
      /\ IF obeys /\ media.playing # playing
           THEN media' = [media EXCEPT !.playing = playing] /\ notes' = notes \cup {"playing"}
           ELSE UNCHANGED <<media, notes>>
      /\ clean' = (clean /\ playing = old.playing)
      /\ UNCHANGED <<call, isPlaying, old, player_id, alone>>
      /\ TypeOK
  BY DEF Event, object, DarwinInv
<1>2. PICK t \in Texts \cup {NoText}, b \in BOOLEAN : players[player_id] = Mine(t, b)
  <2>1. player_id \in Slots /\ players[player_id].own = "darwin"
    BY <1>1 DEF TypeOK
  <2>2. players[player_id] \in {Free, Web} \cup Entries
    BY <1>1, <2>1 DEF TypeOK, Entries
  <2>3. players[player_id] \in Entries
    BY <2>1, <2>2, EntryFacts
  <2> QED
    BY <2>3 DEF Entries
<1>3. Writes(t, playing)
  <2>1. [Mine(t, b) EXCEPT !.shown = [Mine(t, b).shown EXCEPT !.playing = playing]] = Mine(t, playing)
    BY DEF Mine, Says
  <2>2. players' = [players EXCEPT ![player_id] = [players[player_id] EXCEPT !.shown =
                                                   [players[player_id].shown EXCEPT !.playing = playing]]]
    BY <1>1
  <2> QED
    BY <1>2, <2>1, <2>2 DEF Writes
<1>4. /\ players' \in [Slots -> {Free, Web} \cup {Mine(d, e) : d \in Texts \cup {NoText}, e \in BOOLEAN}]
      /\ \A s \in Slots : players'[s].own = "darwin" <=> s = player_id
      /\ Shown' = Says(t, playing)
  <2>1. TypeOK /\ UNCHANGED player_id
    BY <1>1
  <2> QED
    BY <1>3, <2>1, EntrySet
<1>5. /\ media' \in [text : Texts, playing : BOOLEAN] /\ media'.text = media.text
      /\ "playing" \in notes' \/ media'.playing = media.playing
      /\ notes \subseteq notes' /\ notes' \subseteq {"info", "playing"}
  BY <1>1 DEF TypeOK
<1>6. clean' \in BOOLEAN /\ (clean' => clean /\ playing = old.playing)
  BY <1>1
<1>7. TypeOK'
  <2>1. UNCHANGED <<call, isPlaying, old, player_id, alone>> /\ TypeOK
    BY <1>1
  <2> QED
    BY <1>4, <1>5, <1>6, <2>1 DEF TypeOK
<1>8. ASSUME NEW c \in Calls, Sole(c) PROVE PlayingHeard(call[c].playing)' /\ InfoHeard(call[c].info)'
  <2>1. PlayingHeard(call[c].playing)'
    BY <1>1, <1>5, <1>8 DEF Sole, PlayingHeard, Answer
  <2>2. Shown = Says(t, b)
    BY <1>2 DEF Shown, Mine
  <2>3. clean' /\ Shown = old => Shown' = old
    <3>1. Says(t, b).playing = b
      BY DEF Says
    <3> QED
      BY <1>4, <1>6, <2>2, <3>1
  <2>4. InfoHeard(call[c].info)'
    BY <1>1, <1>5, <1>6, <1>8, <2>3 DEF Sole, InfoHeard, Answer
  <2> QED
    BY <2>1, <2>4
<1> QED
  BY <1>1, <1>6, <1>7, <1>8, NoAnswer

LEMMA StepMedia ==
  ASSUME DarwinInv, UNCHANGED <<call, isPlaying, old, player_id, players, alone, clean>>,
         media' \in [text : Texts, playing : BOOLEAN],
         notes \subseteq notes', notes' \subseteq {"info", "playing"},
         "playing" \in notes' \/ media'.playing = media.playing,
         "info" \in notes' \/ media'.text = media.text
  PROVE  DarwinInv'
<1>1. TypeOK'
  BY DEF DarwinInv, TypeOK
<1>2. \A c \in Calls : Sole(c) => PlayingHeard(call[c].playing)' /\ InfoHeard(call[c].info)'
  BY DEF Sole, PlayingHeard, InfoHeard, Shown, Answer
<1> QED
  BY <1>1, <1>2, NoAnswer

LEMMA StepPlay ==
  ASSUME DarwinInv, NEW text \in Texts, Play(text)
  PROVE  DarwinInv'
<1>1. media \in [text : Texts, playing : BOOLEAN] /\ notes \subseteq {"info", "playing"}
  BY DEF DarwinInv, TypeOK
<1>2. /\ UNCHANGED <<call, isPlaying, old, player_id, players, alone, clean>>
      /\ media' = [media EXCEPT !.text = text] /\ notes' = notes \cup {"info"}
  BY DEF Play, object
<1>3. media' \in [text : Texts, playing : BOOLEAN] /\ media'.playing = media.playing
  BY <1>1, <1>2
<1> QED
  BY <1>1, <1>2, <1>3, StepMedia

LEMMA StepToggle ==
  ASSUME DarwinInv, Toggle
  PROVE  DarwinInv'
<1>1. media \in [text : Texts, playing : BOOLEAN] /\ notes \subseteq {"info", "playing"}
  BY DEF DarwinInv, TypeOK
<1>2. PICK b \in BOOLEAN : b = ~media.playing
  BY Zenon
<1>3. /\ UNCHANGED <<call, isPlaying, old, player_id, players, alone, clean>>
      /\ media' = [media EXCEPT !.playing = b] /\ notes' = notes \cup {"playing"}
  BY <1>2 DEF Toggle, object
<1>4. media' \in [text : Texts, playing : BOOLEAN] /\ media'.text = media.text
  BY <1>1, <1>2, <1>3
<1> QED
  BY <1>1, <1>3, <1>4, StepMedia

LEMMA StepOtherAdapter ==
  ASSUME DarwinInv, NEW s \in Slots, OtherAdapter(s)
  PROVE  DarwinInv'
<1>1. /\ players[s].own # "darwin" /\ players' = [players EXCEPT ![s] = IF @ = Free THEN Web ELSE Free]
      /\ UNCHANGED <<media, notes, call, isPlaying, old, player_id, alone, clean>> /\ TypeOK
  BY DEF OtherAdapter, object, DarwinInv
<1>2. PICK e \in {Free, Web} : players' = [players EXCEPT ![s] = e]
  BY <1>1
<1>3. /\ players' \in [Slots -> {Free, Web} \cup Entries] /\ players'[s] = e
      /\ \A r \in Slots \ {s} : players'[r] = players[r]
  BY <1>1, <1>2 DEF TypeOK, Entries
<1>4. s # player_id /\ player_id \in Slots
  BY <1>1 DEF TypeOK
<1>5. TypeOK'
  <2>1. \A r \in Slots : players'[r].own = "darwin" <=> r = player_id
    BY <1>1, <1>3, <1>4, EntryFacts DEF TypeOK
  <2> QED
    BY <1>1, <1>3, <2>1 DEF TypeOK, Entries
<1>6. Shown' = Shown
  BY <1>1, <1>3, <1>4 DEF Shown
<1>7. \A c \in Calls : Sole(c) => PlayingHeard(call[c].playing)' /\ InfoHeard(call[c].info)'
  BY <1>1, <1>6 DEF Sole, PlayingHeard, InfoHeard
<1> QED
  BY <1>1, <1>5, <1>7, NoAnswer

-----------------------------------------------------------------------------
(* In whatever order the answers of the calls arrive (darwin.m:105-173), a   *)
(* call that no other overlaps leaves in old_title, old_is_playing and the  *)
(* player what plays, or a notification is still to come.                   *)
THEOREM DarwinInvariant ==
  ASSUME DarwinAssumption
  PROVE  Spec => []DarwinInv
<1>1. Init => DarwinInv
  BY InitDarwinInv
<1>2. DarwinInv /\ [Next]_vars => DarwinInv'
  <2> SUFFICES ASSUME DarwinInv, [Next]_vars PROVE DarwinInv'
    OBVIOUS
  <2>1. CASE Blocks
    BY <2>1, StepInfoDidChange, StepIsPlayingDidChange, StepAnswerPlaying, StepAnswerInfo,
       StepPlayingBlock, StepInfoBlock, StepUpdate DEF Blocks
  <2>2. ASSUME NEW playing \in BOOLEAN, NEW obeys \in BOOLEAN, Event(playing, obeys) PROVE DarwinInv'
    BY <2>2, StepEvent
  <2>3. CASE Toggle \/ \E text \in Texts : Play(text)
    BY <2>3, StepToggle, StepPlay
  <2>4. ASSUME NEW s \in Slots, OtherAdapter(s) PROVE DarwinInv'
    BY <2>4, StepOtherAdapter
  <2>5. CASE UNCHANGED vars
    <3>1. UNCHANGED <<media, notes, call, isPlaying, old, player_id, players, alone, clean>>
      BY <2>5 DEF vars, object
    <3> QED
      BY <3>1 DEF DarwinInv, TypeOK, Overlapped, Sole, InFlight, PlayingHeard, InfoHeard, Shown
  <2> QED
    BY <2>1, <2>2, <2>3, <2>4, <2>5 DEF Next
<1> QED
  BY <1>1, <1>2, PTL DEF Spec

(* The types of the adapter's state (darwin.m); its player stays in the slot  *)
(* it was given, and is the only one that says it is the adapter's.         *)
THEOREM DarwinTypeOK ==
  ASSUME DarwinAssumption
  PROVE  Spec => []TypeOK
<1>1. DarwinInv => TypeOK
  BY DEF DarwinInv
<1> QED
  BY <1>1, DarwinInvariant, PTL

(* darwin.m:117-173: when nothing is under way the player shows the media,   *)
(* unless one of the listed losses happened since the last call alone.      *)
THEOREM DarwinShowsMedia ==
  ASSUME DarwinAssumption
  PROVE  Spec => []ShowsMedia
<1>1. DarwinInv => ShowsMedia
  <2> SUFFICES ASSUME DarwinInv, clean, notes = {}, InFlight = {} PROVE Shown = media
    BY DEF ShowsMedia, Shown
  <2>1. PICK c \in Calls : Sole(c)
    BY DEF DarwinInv, Overlapped
  <2>2. call[c].playing = Done /\ call[c].info = Done
    BY DEF InFlight
  <2>3. Shown = old /\ old.playing = isPlaying /\ old.text = media.text /\ isPlaying = media.playing
    BY <2>1, <2>2, AnswerFacts DEF Sole, PlayingHeard, InfoHeard
  <2>4. /\ media \in [text : Texts, playing : BOOLEAN]
        /\ old \in [text : Texts \cup {NoText}, playing : BOOLEAN]
    BY DEF DarwinInv, TypeOK
  <2>5. old = Says(old.text, old.playing) /\ media = Says(media.text, media.playing)
    BY <2>4 DEF Says
  <2> QED
    BY <2>3, <2>5
<1> QED
  BY <1>1, DarwinInvariant, PTL

(* darwin.m:137-141: whichever copy the array holds at the index, an update   *)
(* writes to no player but the adapter's own.                               *)
THEOREM DarwinOthersUntouched ==
  ASSUME DarwinAssumption
  PROVE  Spec => OthersUntouched
<1>1. DarwinInv /\ [Next]_vars => OnlyItsOwn
  <2> SUFFICES ASSUME DarwinInv, NEW c \in Calls, Update(c), NEW s \in Slots \ {player_id}
               PROVE  players'[s] = players[s]
    BY DEF OnlyItsOwn
  <2>1. players \in [Slots -> {Free, Web} \cup Entries]
    BY DEF DarwinInv, TypeOK, Entries
  <2> QED
    BY <2>1 DEF Update, Found
<1>2. DarwinInv /\ [Next]_vars => [OnlyItsOwn]_vars
  BY <1>1
<1> QED
  BY <1>2, DarwinInvariant, PTL DEF Spec, OthersUntouched

=============================================================================
