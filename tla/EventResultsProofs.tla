-------------------------- MODULE EventResultsProofs --------------------------
(***************************************************************************)
(* The results of events, for any number of callers and events and a ring  *)
(* of any size: every variable keeps its type, and - for an application    *)
(* that leaves each event before its cell comes round again, on the paths   *)
(* that take players_lock - the result got for an id is the result of the  *)
(* event the id was given for.                                             *)
(***************************************************************************)
EXTENDS MCEventResults, TLAPS

(* The counter stays within the ring.                                      *)
LEMMA NextIdInRing ==
  ASSUME event_id \in Ids
  PROVE  NextId \in Ids
<1>1. MaxEventResults \in Nat \ {0} /\ event_id \in Nat
  BY MaxEventResultsAssumption DEF Ids
<1>2. (event_id + 1) % MaxEventResults \in 0..(MaxEventResults - 1)
  BY <1>1
<1> QED
  BY <1>2 DEF NextId, Ids

LEMMA ZeroInRing == 0 \in Ids
BY MaxEventResultsAssumption DEF Ids

-----------------------------------------------------------------------------
(* Types.  A request names an event, never NoEvent, because a thread that   *)
(* is in a call has one.                                                   *)
Named   == \A t \in Callers : pc[t] # "idle" => event[t] \in Events
TypeInv == TypeOK /\ Named

LEMMA TypesInit ==
  ASSUME Init
  PROVE  TypeInv
BY ZeroInRing DEF Init, TypeInv, Named, TypeOK, NoOut, Results

LEMMA TypesCall ==
  ASSUME TypeInv, NEW t \in Callers, Call(t)
  PROVE  TypeInv'
BY KindsAssumption DEF TypeInv, Named, TypeOK, Call, Locks, Judge, Goto, Silent, NoOut, Ids, Results

LEMMA TypesReadCounter ==
  ASSUME TypeInv, NEW t \in Callers, ReadCounter(t)
  PROVE  TypeInv'
BY NextIdInRing DEF TypeInv, Named, TypeOK, ReadCounter, Goto, Silent, NoOut, Ids, Results

LEMMA TypesWriteCounter ==
  ASSUME TypeInv, NEW t \in Callers, WriteCounter(t)
  PROVE  TypeInv'
BY DEF TypeInv, Named, TypeOK, WriteCounter, Goto, Silent, NoOut, Ids, Results

LEMMA TypesPend ==
  ASSUME TypeInv, NEW t \in Callers, Pend(t)
  PROVE  TypeInv'
BY DEF TypeInv, Named, TypeOK, Pend, Set, Counter, Goto, Silent, NoOut, Ids, Results

LEMMA TypesReturnId ==
  ASSUME TypeInv, NEW t \in Callers, ReturnId(t)
  PROVE  TypeInv'
BY ZeroInRing DEF TypeInv, Named, TypeOK, ReturnId, Counter, Goto, Silent, NoOut, Ids, Results

LEMMA TypesWnpFailedEvent ==
  ASSUME TypeInv, NEW t \in Callers, _wnp_failed_event(t)
  PROVE  TypeInv'
BY DEF TypeInv, Named, TypeOK, _wnp_failed_event, Set, Unlock, Goto, Silent, NoOut, Ids, Results

LEMMA TypesPlatform ==
  ASSUME TypeInv, NEW t \in Callers, Platform(t)
  PROVE  TypeInv'
<1>1. /\ pc' = [pc EXCEPT ![t] = "called"]
      /\ players_lock' \in {players_lock, NoThread}
      /\ out' = NoOut
      /\ UNCHANGED <<event_id, kind, reg, id, event>>
  BY DEF Platform, Goto, Unlock, Silent
<1>2. id[t] \in Ids /\ event[t] \in Events /\ pc[t] # "idle"
  BY DEF TypeInv, Named, TypeOK, Platform
<1>3. event_results' \in [Ids -> Results]
  BY <1>2 DEF Platform, TypeInv, TypeOK, Set, Results
<1>4. verdict' \in [Events -> {"none", "refused", "SUCCEEDED", "FAILED"}]
  BY DEF Platform, TypeInv, TypeOK, Judge
<1>5. requests' \subseteq [event : Events, id : Ids]
  <2>1. CASE requests' = requests \cup {[event |-> event[t], id |-> id[t]]}
    BY <1>2, <2>1 DEF TypeInv, TypeOK
  <2>2. CASE requests' = requests
    BY <2>2 DEF TypeInv, TypeOK
  <2> QED
    BY <2>1, <2>2 DEF Platform
<1> QED
  BY <1>1, <1>2, <1>3, <1>4, <1>5 DEF TypeInv, Named, TypeOK, NoOut, Results

LEMMA TypesAnswer ==
  ASSUME TypeInv, Answer
  PROVE  TypeInv'
BY DEF TypeInv, Named, TypeOK, Answer, Set, Judge, Silent, NoOut, Ids, Results

LEMMA TypesWnpGetEventResult ==
  ASSUME TypeInv, NEW t \in Callers, wnp_get_event_result(t)
  PROVE  TypeInv'
BY DEF TypeInv, Named, TypeOK, wnp_get_event_result, HandOut, Ids, Results

LEMMA TypesForget ==
  ASSUME TypeInv, NEW t \in Callers, Forget(t)
  PROVE  TypeInv'
BY ZeroInRing DEF TypeInv, Named, TypeOK, Forget, Leave, Goto, Silent, NoOut, Ids, Results

LEMMA TypesWait ==
  ASSUME TypeInv, NEW t \in Callers, Wait(t)
  PROVE  TypeInv'
BY DEF TypeInv, Named, TypeOK, Wait, Goto, Silent, NoOut, Ids, Results

LEMMA TypesPoll ==
  ASSUME TypeInv, NEW t \in Callers, Poll(t)
  PROVE  TypeInv'
BY DEF TypeInv, Named, TypeOK, Poll, Goto, Silent, NoOut, Ids, Results

LEMMA TypesExpire ==
  ASSUME TypeInv, NEW t \in Callers, Expire(t)
  PROVE  TypeInv'
BY DEF TypeInv, Named, TypeOK, Expire, Set, Goto, Silent, NoOut, Ids, Results

LEMMA TypesFinal ==
  ASSUME TypeInv, NEW t \in Callers, Final(t)
  PROVE  TypeInv'
BY ZeroInRing DEF TypeInv, Named, TypeOK, Final, HandOut, Leave, Goto, Ids, Results

LEMMA TypesStep ==
  ASSUME TypeInv, [Next]_vars
  PROVE  TypeInv'
<1>1. ASSUME NEW t \in Callers,
             \/ Call(t) \/ GetId(t) \/ _wnp_failed_event(t) \/ Platform(t)
             \/ wnp_get_event_result(t) \/ Forget(t) \/ Wait(t) \/ WaitFor(t)
      PROVE  TypeInv'
  BY <1>1, TypesCall, TypesReadCounter, TypesWriteCounter, TypesPend, TypesReturnId,
     TypesWnpFailedEvent, TypesPlatform, TypesWnpGetEventResult, TypesForget, TypesWait,
     TypesPoll, TypesExpire, TypesFinal, Zenon DEF GetId, WaitFor
<1>2. CASE UNCHANGED vars
  BY <1>2 DEF vars, TypeInv, Named, TypeOK
<1> QED
  BY <1>1, <1>2, TypesAnswer, Zenon DEF Next

(* In every execution of wnp_try_..., wnp_get_event_result and              *)
(* wnp_wait_for_event_result (wnp.c:395-505, 789-828), locked paths or not: *)
(* the counter and every id handed out name a cell of the ring, a cell      *)
(* holds one of the three results, and a request names an event.           *)
THEOREM EventTypeOK == Spec => []TypeOK
<1>1. TypeInv => TypeOK
  BY DEF TypeInv
<1> QED
  BY <1>1, TypesInit, TypesStep, PTL DEF Spec

-----------------------------------------------------------------------------
(* The inductive invariant of ResultIsOwn.                                 *)

(* No thread and no request is concerned with the event of this cell.       *)
Unclaimed(cell) == /\ \A u \in Callers : HoldsId(u) => id[u] # cell
                   /\ \A r \in requests : r.id # cell

(* From taking the id to the platform's answer a call has players_lock.     *)
Section == {"read", "write", "pend", "return", "platform", "fail"}
LockInv == \A t \in Callers : pc[t] \in Section => players_lock = t

(* The cell a call is about to return is nobody's, and it is cleared.       *)
CounterInv ==
  \A t \in Callers :
    /\ pc[t] = "read" => Unclaimed(NextId)
    /\ pc[t] = "write" => reg[t] = NextId /\ Unclaimed(reg[t])
    /\ pc[t] \in {"pend", "return"} => reg[t] = event_id /\ Unclaimed(reg[t])
    /\ pc[t] = "return" => event_results[reg[t]] = "PENDING"

(* A cell belongs to one event, an event to one caller and to the request   *)
(* of its own call.                                                        *)
HasEvent   == \A t \in Callers : event[t] = NoEvent <=> pc[t] = "idle"
OneHolder  == \A t, u \in Callers : HoldsId(t) /\ HoldsId(u) /\ id[t] = id[u] => t = u
OneCaller  == \A t, u \in Callers : event[t] = event[u] /\ event[t] # NoEvent => t = u
OneRequest == \A r, s \in requests : r.id = s.id => r = s
CellIsOwn  == \A t \in Callers : \A r \in requests :
                HoldsId(t) /\ r.id = id[t] => r.event = event[t]
Requested  == \A t \in Callers : \A r \in requests :
                r.event = event[t] =>
                  /\ r.id = id[t]
                  /\ kind[t] = "event"
                  /\ pc[t] \in {"called", "wait", "expire", "expired", "final"}

(* A refused call is known to be, and a cell never says more of its event   *)
(* than what became of it.                                                 *)
Refused ==
  \A t \in Callers :
    /\ pc[t] # "idle" /\ kind[t] # "event" => verdict[event[t]] = "refused"
    /\ pc[t] = "fail" => kind[t] # "event"
    /\ pc[t] = "platform" => kind[t] = "event"
CellIsTrue ==
  \A t \in Callers : HoldsId(t) =>
    /\ event_results[id[t]] = "SUCCEEDED" => verdict[event[t]] = "SUCCEEDED"
    /\ event_results[id[t]] = "FAILED" /\ pc[t] # "expired"
         => verdict[event[t]] \in {"FAILED", "refused"}

RingInv == /\ LockInv /\ CounterInv
           /\ HasEvent /\ OneHolder /\ OneCaller /\ OneRequest /\ CellIsOwn /\ Requested
           /\ Refused /\ CellIsTrue /\ ResultIsOwn

OwnInv  == TypeInv /\ RingInv

(* The paths that take an id under players_lock.                           *)
Locked == Kinds \subseteq {"event", "refused_locked"}

LEMMA UnclaimedIsNotLive ==
  ASSUME NEW cell
  PROVE  cell \notin LiveIds <=> Unclaimed(cell)
BY DEF LiveIds, Unclaimed

LEMMA OwnInit ==
  ASSUME Init
  PROVE  OwnInv
<1>1. TypeInv
  BY TypesInit
<1> QED
  BY <1>1, NoneAssumption DEF Init, OwnInv, RingInv, LockInv, Section, CounterInv, HasEvent, OneHolder,
     OneCaller, OneRequest, CellIsOwn, Requested, Refused, CellIsTrue, ResultIsOwn, HoldsId, NoOut

LEMMA OwnCall ==
  ASSUME OwnInv, Locked, Unclaimed(NextId), NEW t \in Callers, Call(t)
  PROVE  RingInv'
<1>1. LockInv'
  BY NoneAssumption DEF OwnInv, RingInv, TypeInv, TypeOK, LockInv, Section, Call,
     Locks, Goto, Free, Locked
<1>2. CounterInv'
  BY DEF OwnInv, RingInv, TypeInv, TypeOK, CounterInv, Unclaimed, HoldsId, NextId,
     Call, Locks, Goto, Free
<1>3. HasEvent'
  BY DEF OwnInv, RingInv, TypeInv, TypeOK, HasEvent, Call, Locks, Goto, Free
<1>4. OneHolder'
  BY DEF OwnInv, RingInv, TypeInv, TypeOK, OneHolder, HoldsId, Call, Locks, Goto,
     Free
<1>5. OneCaller'
  BY DEF OwnInv, RingInv, TypeInv, TypeOK, OneCaller, Call, Locks, Goto, Free
<1>6. OneRequest'
  BY DEF OwnInv, RingInv, TypeInv, TypeOK, OneRequest, Call, Locks, Goto, Free
<1>7. CellIsOwn'
  BY DEF OwnInv, RingInv, TypeInv, TypeOK, CellIsOwn, HoldsId, Call, Locks, Goto,
     Free
<1>8. Requested'
  BY DEF OwnInv, RingInv, TypeInv, TypeOK, Requested, Call, Locks, Goto, Free
<1>9. Refused'
  BY DEF OwnInv, RingInv, TypeInv, TypeOK, Refused, Call, Locks, Judge, Goto, Free
<1>10. CellIsTrue'
  BY DEF OwnInv, RingInv, TypeInv, TypeOK, CellIsTrue, HoldsId, Call, Locks, Judge,
     Goto, Free
<1>11. ResultIsOwn'
  BY DEF OwnInv, RingInv, TypeInv, TypeOK, ResultIsOwn, HoldsId, Call, Locks, Judge,
     Goto, Silent, NoOut, Free
<1> QED
  BY <1>1, <1>2, <1>3, <1>4, <1>5, <1>6, <1>7, <1>8, <1>9, <1>10, <1>11 DEF RingInv

LEMMA OwnReadCounter ==
  ASSUME OwnInv, NEW t \in Callers, ReadCounter(t)
  PROVE  RingInv'
<1>1. LockInv'
  BY DEF OwnInv, RingInv, TypeInv, TypeOK, LockInv, Section, ReadCounter, Goto
<1>2. CounterInv'
  BY DEF OwnInv, RingInv, TypeInv, TypeOK, CounterInv, Unclaimed, HoldsId, NextId,
     ReadCounter, Goto
<1>3. HasEvent'
  BY DEF OwnInv, RingInv, TypeInv, TypeOK, HasEvent, ReadCounter, Goto
<1>4. OneHolder'
  BY DEF OwnInv, RingInv, TypeInv, TypeOK, OneHolder, HoldsId, ReadCounter, Goto
<1>5. OneCaller'
  BY DEF OwnInv, RingInv, TypeInv, TypeOK, OneCaller, ReadCounter, Goto
<1>6. OneRequest'
  BY DEF OwnInv, RingInv, TypeInv, TypeOK, OneRequest, ReadCounter, Goto
<1>7. CellIsOwn'
  BY DEF OwnInv, RingInv, TypeInv, TypeOK, CellIsOwn, HoldsId, ReadCounter, Goto
<1>8. Requested'
  BY DEF OwnInv, RingInv, TypeInv, TypeOK, Requested, ReadCounter, Goto
<1>9. Refused'
  BY DEF OwnInv, RingInv, TypeInv, TypeOK, Refused, ReadCounter, Goto
<1>10. CellIsTrue'
  BY DEF OwnInv, RingInv, TypeInv, TypeOK, CellIsTrue, HoldsId, ReadCounter, Goto
<1>11. ResultIsOwn'
  BY DEF OwnInv, RingInv, TypeInv, TypeOK, ResultIsOwn, HoldsId, ReadCounter, Goto,
     Silent, NoOut
<1> QED
  BY <1>1, <1>2, <1>3, <1>4, <1>5, <1>6, <1>7, <1>8, <1>9, <1>10, <1>11 DEF RingInv

LEMMA OwnWriteCounter ==
  ASSUME OwnInv, NEW t \in Callers, WriteCounter(t)
  PROVE  RingInv'
<1>1. LockInv'
  BY DEF OwnInv, RingInv, TypeInv, TypeOK, LockInv, Section, WriteCounter, Goto
<1>2. CounterInv'
  BY DEF OwnInv, RingInv, TypeInv, TypeOK, CounterInv, Unclaimed, HoldsId, NextId,
     WriteCounter, Goto, LockInv, Section
<1>3. HasEvent'
  BY DEF OwnInv, RingInv, TypeInv, TypeOK, HasEvent, WriteCounter, Goto
<1>4. OneHolder'
  BY DEF OwnInv, RingInv, TypeInv, TypeOK, OneHolder, HoldsId, WriteCounter, Goto
<1>5. OneCaller'
  BY DEF OwnInv, RingInv, TypeInv, TypeOK, OneCaller, WriteCounter, Goto
<1>6. OneRequest'
  BY DEF OwnInv, RingInv, TypeInv, TypeOK, OneRequest, WriteCounter, Goto
<1>7. CellIsOwn'
  BY DEF OwnInv, RingInv, TypeInv, TypeOK, CellIsOwn, HoldsId, WriteCounter, Goto
<1>8. Requested'
  BY DEF OwnInv, RingInv, TypeInv, TypeOK, Requested, WriteCounter, Goto
<1>9. Refused'
  BY DEF OwnInv, RingInv, TypeInv, TypeOK, Refused, WriteCounter, Goto
<1>10. CellIsTrue'
  BY DEF OwnInv, RingInv, TypeInv, TypeOK, CellIsTrue, HoldsId, WriteCounter, Goto
<1>11. ResultIsOwn'
  BY DEF OwnInv, RingInv, TypeInv, TypeOK, ResultIsOwn, HoldsId, WriteCounter, Goto,
     Silent, NoOut
<1> QED
  BY <1>1, <1>2, <1>3, <1>4, <1>5, <1>6, <1>7, <1>8, <1>9, <1>10, <1>11 DEF RingInv

LEMMA OwnPend ==
  ASSUME OwnInv, NEW t \in Callers, Pend(t)
  PROVE  RingInv'
<1>1. LockInv'
  BY DEF OwnInv, RingInv, TypeInv, TypeOK, LockInv, Section, Pend, Counter, Goto
<1>2. CounterInv'
  BY DEF OwnInv, RingInv, TypeInv, TypeOK, CounterInv, Unclaimed, HoldsId, NextId,
     Pend, Set, Counter, Goto
<1>3. HasEvent'
  BY DEF OwnInv, RingInv, TypeInv, TypeOK, HasEvent, Pend, Counter, Goto
<1>4. OneHolder'
  BY DEF OwnInv, RingInv, TypeInv, TypeOK, OneHolder, HoldsId, Pend, Counter, Goto
<1>5. OneCaller'
  BY DEF OwnInv, RingInv, TypeInv, TypeOK, OneCaller, Pend, Counter, Goto
<1>6. OneRequest'
  BY DEF OwnInv, RingInv, TypeInv, TypeOK, OneRequest, Pend, Counter, Goto
<1>7. CellIsOwn'
  BY DEF OwnInv, RingInv, TypeInv, TypeOK, CellIsOwn, HoldsId, Pend, Counter, Goto
<1>8. Requested'
  BY DEF OwnInv, RingInv, TypeInv, TypeOK, Requested, Pend, Counter, Goto
<1>9. Refused'
  BY DEF OwnInv, RingInv, TypeInv, TypeOK, Refused, Pend, Counter, Goto
<1>10. CellIsTrue'
  BY DEF OwnInv, RingInv, TypeInv, TypeOK, CellIsTrue, HoldsId, Pend, Set, Counter,
     Goto
<1>11. ResultIsOwn'
  BY DEF OwnInv, RingInv, TypeInv, TypeOK, ResultIsOwn, HoldsId, Pend, Set, Counter,
     Goto, Silent, NoOut
<1> QED
  BY <1>1, <1>2, <1>3, <1>4, <1>5, <1>6, <1>7, <1>8, <1>9, <1>10, <1>11 DEF RingInv

LEMMA OwnReturnId ==
  ASSUME OwnInv, NEW t \in Callers, ReturnId(t)
  PROVE  RingInv'
<1>1. LockInv'
  BY DEF OwnInv, RingInv, TypeInv, TypeOK, LockInv, Section, ReturnId, Counter, Goto
<1>2. CounterInv'
  BY DEF OwnInv, RingInv, TypeInv, TypeOK, CounterInv, Unclaimed, HoldsId, NextId,
     ReturnId, Counter, Goto, LockInv, Section
<1>3. HasEvent'
  BY DEF OwnInv, RingInv, TypeInv, TypeOK, HasEvent, ReturnId, Counter, Goto
<1>4. OneHolder'
  BY DEF OwnInv, RingInv, TypeInv, TypeOK, OneHolder, HoldsId, ReturnId, Counter,
     Goto, CounterInv, Unclaimed
<1>5. OneCaller'
  BY DEF OwnInv, RingInv, TypeInv, TypeOK, OneCaller, ReturnId, Counter, Goto
<1>6. OneRequest'
  BY DEF OwnInv, RingInv, TypeInv, TypeOK, OneRequest, ReturnId, Counter, Goto
<1>7. CellIsOwn'
  BY DEF OwnInv, RingInv, TypeInv, TypeOK, CellIsOwn, HoldsId, ReturnId, Counter,
     Goto, CounterInv, Unclaimed
<1>8. Requested'
  BY DEF OwnInv, RingInv, TypeInv, TypeOK, Requested, ReturnId, Counter, Goto
<1>9. Refused'
  BY DEF OwnInv, RingInv, TypeInv, TypeOK, Refused, ReturnId, Counter, Goto
<1>10. CellIsTrue'
  BY DEF OwnInv, RingInv, TypeInv, TypeOK, CellIsTrue, HoldsId, ReturnId, Counter,
     Goto, CounterInv, Unclaimed
<1>11. ResultIsOwn'
  BY DEF OwnInv, RingInv, TypeInv, TypeOK, ResultIsOwn, HoldsId, ReturnId, Counter,
     Goto, Silent, NoOut
<1> QED
  BY <1>1, <1>2, <1>3, <1>4, <1>5, <1>6, <1>7, <1>8, <1>9, <1>10, <1>11 DEF RingInv

LEMMA OwnWnpFailedEvent ==
  ASSUME OwnInv, NEW t \in Callers, _wnp_failed_event(t)
  PROVE  RingInv'
<1>1. LockInv'
  BY DEF OwnInv, RingInv, TypeInv, TypeOK, LockInv, Section, _wnp_failed_event,
     Unlock, Goto
<1>2. CounterInv'
  BY DEF OwnInv, RingInv, TypeInv, TypeOK, CounterInv, Unclaimed, HoldsId, NextId,
     _wnp_failed_event, Set, Goto
<1>3. HasEvent'
  BY DEF OwnInv, RingInv, TypeInv, TypeOK, HasEvent, _wnp_failed_event, Goto
<1>4. OneHolder'
  BY DEF OwnInv, RingInv, TypeInv, TypeOK, OneHolder, HoldsId, _wnp_failed_event,
     Goto
<1>5. OneCaller'
  BY DEF OwnInv, RingInv, TypeInv, TypeOK, OneCaller, _wnp_failed_event, Goto
<1>6. OneRequest'
  BY DEF OwnInv, RingInv, TypeInv, TypeOK, OneRequest, _wnp_failed_event, Goto
<1>7. CellIsOwn'
  BY DEF OwnInv, RingInv, TypeInv, TypeOK, CellIsOwn, HoldsId, _wnp_failed_event,
     Goto
<1>8. Requested'
  BY DEF OwnInv, RingInv, TypeInv, TypeOK, Requested, _wnp_failed_event, Goto
<1>9. Refused'
  BY DEF OwnInv, RingInv, TypeInv, TypeOK, Refused, _wnp_failed_event, Goto
<1>10. CellIsTrue'
  BY DEF OwnInv, RingInv, TypeInv, TypeOK, CellIsTrue, HoldsId, _wnp_failed_event,
     Set, Goto, OneHolder, Refused
<1>11. ResultIsOwn'
  BY DEF OwnInv, RingInv, TypeInv, TypeOK, ResultIsOwn, HoldsId, _wnp_failed_event,
     Set, Goto, Silent, NoOut
<1> QED
  BY <1>1, <1>2, <1>3, <1>4, <1>5, <1>6, <1>7, <1>8, <1>9, <1>10, <1>11 DEF RingInv

LEMMA OwnPlatform ==
  ASSUME OwnInv, NEW t \in Callers, Platform(t)
  PROVE  RingInv'
<1>1. LockInv'
  BY DEF OwnInv, RingInv, TypeInv, TypeOK, LockInv, Section, Platform, Unlock, Goto
<1>2. CounterInv'
  BY DEF OwnInv, RingInv, TypeInv, TypeOK, CounterInv, Unclaimed, HoldsId, NextId,
     Platform, Set, Goto
<1>3. HasEvent'
  BY DEF OwnInv, RingInv, TypeInv, TypeOK, HasEvent, Platform, Goto
<1>4. OneHolder'
  BY DEF OwnInv, RingInv, TypeInv, TypeOK, OneHolder, HoldsId, Platform, Goto
<1>5. OneCaller'
  BY DEF OwnInv, RingInv, TypeInv, TypeOK, OneCaller, Platform, Goto
<1>6. OneRequest'
  BY DEF OwnInv, RingInv, TypeInv, TypeOK, OneRequest, Platform, Goto, CellIsOwn,
     Requested, HoldsId, HasEvent, OneCaller, OneHolder
<1>7. CellIsOwn'
  BY DEF OwnInv, RingInv, TypeInv, TypeOK, CellIsOwn, HoldsId, Platform, Goto,
     OneHolder, Refused
<1>8. Requested'
  BY NoneAssumption DEF OwnInv, RingInv, TypeInv, TypeOK, Requested, Platform, Goto,
     HoldsId, Named, CellIsOwn, OneCaller, HasEvent, Refused, OneHolder
<1>9. Refused'
  BY DEF OwnInv, RingInv, TypeInv, TypeOK, Refused, Platform, Judge, Goto,
     OneCaller, HasEvent, Requested
<1>10. CellIsTrue'
  BY DEF OwnInv, RingInv, TypeInv, TypeOK, CellIsTrue, HoldsId, Platform, Set,
     Judge, Goto, OneHolder, OneCaller, HasEvent, Requested
<1>11. ResultIsOwn'
  BY DEF OwnInv, RingInv, TypeInv, TypeOK, ResultIsOwn, HoldsId, Platform, Set,
     Judge, Goto, Silent, NoOut
<1> QED
  BY <1>1, <1>2, <1>3, <1>4, <1>5, <1>6, <1>7, <1>8, <1>9, <1>10, <1>11 DEF RingInv

LEMMA OwnAnswer ==
  ASSUME OwnInv, Answer
  PROVE  RingInv'
<1>1. LockInv'
  BY DEF OwnInv, RingInv, TypeInv, TypeOK, LockInv, Section, Answer
<1>2. CounterInv'
  BY DEF OwnInv, RingInv, TypeInv, TypeOK, CounterInv, Unclaimed, HoldsId, NextId,
     Answer, Set
<1>3. HasEvent'
  BY DEF OwnInv, RingInv, TypeInv, TypeOK, HasEvent, Answer
<1>4. OneHolder'
  BY DEF OwnInv, RingInv, TypeInv, TypeOK, OneHolder, HoldsId, Answer
<1>5. OneCaller'
  BY DEF OwnInv, RingInv, TypeInv, TypeOK, OneCaller, Answer
<1>6. OneRequest'
  BY DEF OwnInv, RingInv, TypeInv, TypeOK, OneRequest, Answer
<1>7. CellIsOwn'
  BY DEF OwnInv, RingInv, TypeInv, TypeOK, CellIsOwn, HoldsId, Answer
<1>8. Requested'
  BY DEF OwnInv, RingInv, TypeInv, TypeOK, Requested, Answer
<1>9. Refused'
  BY DEF OwnInv, RingInv, TypeInv, TypeOK, Refused, Answer, Judge, Requested,
     HasEvent
<1>10. CellIsTrue'
  BY DEF OwnInv, RingInv, TypeInv, TypeOK, CellIsTrue, HoldsId, Answer, Set, Judge,
     CellIsOwn, Requested
<1>11. ResultIsOwn'
  BY DEF OwnInv, RingInv, TypeInv, TypeOK, ResultIsOwn, HoldsId, Answer, Set, Judge,
     Silent, NoOut
<1> QED
  BY <1>1, <1>2, <1>3, <1>4, <1>5, <1>6, <1>7, <1>8, <1>9, <1>10, <1>11 DEF RingInv

LEMMA OwnWnpGetEventResult ==
  ASSUME OwnInv, NEW t \in Callers, wnp_get_event_result(t)
  PROVE  RingInv'
<1>1. LockInv'
  BY DEF OwnInv, RingInv, TypeInv, TypeOK, LockInv, Section, wnp_get_event_result
<1>2. CounterInv'
  BY DEF OwnInv, RingInv, TypeInv, TypeOK, CounterInv, Unclaimed, HoldsId, NextId,
     wnp_get_event_result
<1>3. HasEvent'
  BY DEF OwnInv, RingInv, TypeInv, TypeOK, HasEvent, wnp_get_event_result
<1>4. OneHolder'
  BY DEF OwnInv, RingInv, TypeInv, TypeOK, OneHolder, HoldsId, wnp_get_event_result
<1>5. OneCaller'
  BY DEF OwnInv, RingInv, TypeInv, TypeOK, OneCaller, wnp_get_event_result
<1>6. OneRequest'
  BY DEF OwnInv, RingInv, TypeInv, TypeOK, OneRequest, wnp_get_event_result
<1>7. CellIsOwn'
  BY DEF OwnInv, RingInv, TypeInv, TypeOK, CellIsOwn, HoldsId, wnp_get_event_result
<1>8. Requested'
  BY DEF OwnInv, RingInv, TypeInv, TypeOK, Requested, wnp_get_event_result
<1>9. Refused'
  BY DEF OwnInv, RingInv, TypeInv, TypeOK, Refused, wnp_get_event_result
<1>10. CellIsTrue'
  BY DEF OwnInv, RingInv, TypeInv, TypeOK, CellIsTrue, HoldsId, wnp_get_event_result
<1>11. ResultIsOwn'
  BY DEF OwnInv, RingInv, TypeInv, TypeOK, ResultIsOwn, HoldsId,
     wnp_get_event_result, HandOut, CellIsTrue
<1> QED
  BY <1>1, <1>2, <1>3, <1>4, <1>5, <1>6, <1>7, <1>8, <1>9, <1>10, <1>11 DEF RingInv

LEMMA OwnForget ==
  ASSUME OwnInv, NEW t \in Callers, Forget(t)
  PROVE  RingInv'
<1>1. LockInv'
  BY DEF OwnInv, RingInv, TypeInv, TypeOK, LockInv, Section, Forget, Leave, Goto
<1>2. CounterInv'
  BY DEF OwnInv, RingInv, TypeInv, TypeOK, CounterInv, Unclaimed, HoldsId, NextId,
     Forget, Leave, Goto
<1>3. HasEvent'
  BY DEF OwnInv, RingInv, TypeInv, TypeOK, HasEvent, Forget, Leave, Goto
<1>4. OneHolder'
  BY DEF OwnInv, RingInv, TypeInv, TypeOK, OneHolder, HoldsId, Forget, Leave, Goto
<1>5. OneCaller'
  BY DEF OwnInv, RingInv, TypeInv, TypeOK, OneCaller, Forget, Leave, Goto
<1>6. OneRequest'
  BY DEF OwnInv, RingInv, TypeInv, TypeOK, OneRequest, Forget, Leave, Goto
<1>7. CellIsOwn'
  BY DEF OwnInv, RingInv, TypeInv, TypeOK, CellIsOwn, HoldsId, Forget, Leave, Goto
<1>8. Requested'
  BY NoneAssumption DEF OwnInv, RingInv, TypeInv, TypeOK, Requested, Forget, Leave,
     Goto, HasEvent
<1>9. Refused'
  BY DEF OwnInv, RingInv, TypeInv, TypeOK, Refused, Forget, Leave, Goto
<1>10. CellIsTrue'
  BY DEF OwnInv, RingInv, TypeInv, TypeOK, CellIsTrue, HoldsId, Forget, Leave, Goto
<1>11. ResultIsOwn'
  BY DEF OwnInv, RingInv, TypeInv, TypeOK, ResultIsOwn, HoldsId, Forget, Leave,
     Goto, Silent, NoOut
<1> QED
  BY <1>1, <1>2, <1>3, <1>4, <1>5, <1>6, <1>7, <1>8, <1>9, <1>10, <1>11 DEF RingInv

LEMMA OwnWait ==
  ASSUME OwnInv, NEW t \in Callers, Wait(t)
  PROVE  RingInv'
<1>1. LockInv'
  BY DEF OwnInv, RingInv, TypeInv, TypeOK, LockInv, Section, Wait, Goto
<1>2. CounterInv'
  BY DEF OwnInv, RingInv, TypeInv, TypeOK, CounterInv, Unclaimed, HoldsId, NextId,
     Wait, Goto
<1>3. HasEvent'
  BY DEF OwnInv, RingInv, TypeInv, TypeOK, HasEvent, Wait, Goto
<1>4. OneHolder'
  BY DEF OwnInv, RingInv, TypeInv, TypeOK, OneHolder, HoldsId, Wait, Goto
<1>5. OneCaller'
  BY DEF OwnInv, RingInv, TypeInv, TypeOK, OneCaller, Wait, Goto
<1>6. OneRequest'
  BY DEF OwnInv, RingInv, TypeInv, TypeOK, OneRequest, Wait, Goto
<1>7. CellIsOwn'
  BY DEF OwnInv, RingInv, TypeInv, TypeOK, CellIsOwn, HoldsId, Wait, Goto
<1>8. Requested'
  BY DEF OwnInv, RingInv, TypeInv, TypeOK, Requested, Wait, Goto
<1>9. Refused'
  BY DEF OwnInv, RingInv, TypeInv, TypeOK, Refused, Wait, Goto
<1>10. CellIsTrue'
  BY DEF OwnInv, RingInv, TypeInv, TypeOK, CellIsTrue, HoldsId, Wait, Goto
<1>11. ResultIsOwn'
  BY DEF OwnInv, RingInv, TypeInv, TypeOK, ResultIsOwn, HoldsId, Wait, Goto, Silent,
     NoOut
<1> QED
  BY <1>1, <1>2, <1>3, <1>4, <1>5, <1>6, <1>7, <1>8, <1>9, <1>10, <1>11 DEF RingInv

LEMMA OwnPoll ==
  ASSUME OwnInv, NEW t \in Callers, Poll(t)
  PROVE  RingInv'
<1>1. LockInv'
  BY DEF OwnInv, RingInv, TypeInv, TypeOK, LockInv, Section, Poll, Goto
<1>2. CounterInv'
  BY DEF OwnInv, RingInv, TypeInv, TypeOK, CounterInv, Unclaimed, HoldsId, NextId,
     Poll, Goto
<1>3. HasEvent'
  BY DEF OwnInv, RingInv, TypeInv, TypeOK, HasEvent, Poll, Goto
<1>4. OneHolder'
  BY DEF OwnInv, RingInv, TypeInv, TypeOK, OneHolder, HoldsId, Poll, Goto
<1>5. OneCaller'
  BY DEF OwnInv, RingInv, TypeInv, TypeOK, OneCaller, Poll, Goto
<1>6. OneRequest'
  BY DEF OwnInv, RingInv, TypeInv, TypeOK, OneRequest, Poll, Goto
<1>7. CellIsOwn'
  BY DEF OwnInv, RingInv, TypeInv, TypeOK, CellIsOwn, HoldsId, Poll, Goto
<1>8. Requested'
  BY DEF OwnInv, RingInv, TypeInv, TypeOK, Requested, Poll, Goto
<1>9. Refused'
  BY DEF OwnInv, RingInv, TypeInv, TypeOK, Refused, Poll, Goto
<1>10. CellIsTrue'
  BY DEF OwnInv, RingInv, TypeInv, TypeOK, CellIsTrue, HoldsId, Poll, Goto
<1>11. ResultIsOwn'
  BY DEF OwnInv, RingInv, TypeInv, TypeOK, ResultIsOwn, HoldsId, Poll, Goto, Silent,
     NoOut
<1> QED
  BY <1>1, <1>2, <1>3, <1>4, <1>5, <1>6, <1>7, <1>8, <1>9, <1>10, <1>11 DEF RingInv

LEMMA OwnExpire ==
  ASSUME OwnInv, NEW t \in Callers, Expire(t)
  PROVE  RingInv'
<1>1. LockInv'
  BY DEF OwnInv, RingInv, TypeInv, TypeOK, LockInv, Section, Expire, Goto
<1>2. CounterInv'
  BY DEF OwnInv, RingInv, TypeInv, TypeOK, CounterInv, Unclaimed, HoldsId, NextId,
     Expire, Set, Goto
<1>3. HasEvent'
  BY DEF OwnInv, RingInv, TypeInv, TypeOK, HasEvent, Expire, Goto
<1>4. OneHolder'
  BY DEF OwnInv, RingInv, TypeInv, TypeOK, OneHolder, HoldsId, Expire, Goto
<1>5. OneCaller'
  BY DEF OwnInv, RingInv, TypeInv, TypeOK, OneCaller, Expire, Goto
<1>6. OneRequest'
  BY DEF OwnInv, RingInv, TypeInv, TypeOK, OneRequest, Expire, Goto
<1>7. CellIsOwn'
  BY DEF OwnInv, RingInv, TypeInv, TypeOK, CellIsOwn, HoldsId, Expire, Goto
<1>8. Requested'
  BY DEF OwnInv, RingInv, TypeInv, TypeOK, Requested, Expire, Goto
<1>9. Refused'
  BY DEF OwnInv, RingInv, TypeInv, TypeOK, Refused, Expire, Goto
<1>10. CellIsTrue'
  BY DEF OwnInv, RingInv, TypeInv, TypeOK, CellIsTrue, HoldsId, Expire, Set, Goto,
     OneHolder
<1>11. ResultIsOwn'
  BY DEF OwnInv, RingInv, TypeInv, TypeOK, ResultIsOwn, HoldsId, Expire, Set, Goto,
     Silent, NoOut
<1> QED
  BY <1>1, <1>2, <1>3, <1>4, <1>5, <1>6, <1>7, <1>8, <1>9, <1>10, <1>11 DEF RingInv

LEMMA OwnFinal ==
  ASSUME OwnInv, NEW t \in Callers, Final(t)
  PROVE  RingInv'
<1>1. LockInv'
  BY DEF OwnInv, RingInv, TypeInv, TypeOK, LockInv, Section, Final, Leave, Goto
<1>2. CounterInv'
  BY DEF OwnInv, RingInv, TypeInv, TypeOK, CounterInv, Unclaimed, HoldsId, NextId,
     Final, Leave, Goto
<1>3. HasEvent'
  BY DEF OwnInv, RingInv, TypeInv, TypeOK, HasEvent, Final, Leave, Goto
<1>4. OneHolder'
  BY DEF OwnInv, RingInv, TypeInv, TypeOK, OneHolder, HoldsId, Final, Leave, Goto
<1>5. OneCaller'
  BY DEF OwnInv, RingInv, TypeInv, TypeOK, OneCaller, Final, Leave, Goto
<1>6. OneRequest'
  BY DEF OwnInv, RingInv, TypeInv, TypeOK, OneRequest, Final, Leave, Goto
<1>7. CellIsOwn'
  BY DEF OwnInv, RingInv, TypeInv, TypeOK, CellIsOwn, HoldsId, Final, Leave, Goto
<1>8. Requested'
  BY NoneAssumption DEF OwnInv, RingInv, TypeInv, TypeOK, Requested, Final, Leave,
     Goto, HasEvent
<1>9. Refused'
  BY DEF OwnInv, RingInv, TypeInv, TypeOK, Refused, Final, Leave, Goto
<1>10. CellIsTrue'
  BY DEF OwnInv, RingInv, TypeInv, TypeOK, CellIsTrue, HoldsId, Final, Leave, Goto
<1>11. ResultIsOwn'
  BY DEF OwnInv, RingInv, TypeInv, TypeOK, ResultIsOwn, HoldsId, Final, HandOut,
     Leave, Goto, CellIsTrue
<1> QED
  BY <1>1, <1>2, <1>3, <1>4, <1>5, <1>6, <1>7, <1>8, <1>9, <1>10, <1>11 DEF RingInv

-----------------------------------------------------------------------------
LEMMA OwnStep ==
  ASSUME OwnInv, Locked, [OrderlyNext]_vars
  PROVE  OwnInv'
<1>1. TypeInv'
  BY TypesStep DEF OwnInv, OrderlyNext
<1>2. ASSUME NEW t \in Callers, Call(t), OrderlyNext
      PROVE  OwnInv'
  <2>1. pc[t] = "idle" /\ pc'[t] # "idle"
    BY <1>2 DEF Call, Goto, OwnInv, TypeInv, TypeOK
  <2>2. Unclaimed(NextId)
    BY <1>2, <2>1, UnclaimedIsNotLive DEF OrderlyNext
  <2> QED
    BY <1>1, <1>2, <2>2, OwnCall DEF OwnInv
<1>3. ASSUME NEW t \in Callers, GetId(t)
      PROVE  OwnInv'
  BY <1>1, <1>3, OwnReadCounter, OwnWriteCounter, OwnPend, OwnReturnId DEF GetId, OwnInv
<1>4. ASSUME NEW t \in Callers, WaitFor(t)
      PROVE  OwnInv'
  BY <1>1, <1>4, OwnPoll, OwnExpire, OwnFinal DEF WaitFor, OwnInv
<1>5. ASSUME NEW t \in Callers,
             \/ _wnp_failed_event(t) \/ Platform(t) \/ wnp_get_event_result(t)
             \/ Forget(t) \/ Wait(t)
      PROVE  OwnInv'
  BY <1>1, <1>5, OwnWnpFailedEvent, OwnPlatform, OwnWnpGetEventResult, OwnForget, OwnWait
     DEF OwnInv
<1>6. CASE Answer
  BY <1>1, <1>6, OwnAnswer DEF OwnInv
<1>7. CASE UNCHANGED vars
  BY <1>1, <1>7 DEF vars, OwnInv, RingInv, TypeInv, TypeOK, LockInv, CounterInv, Unclaimed,
     HasEvent, OneHolder, OneCaller, OneRequest, CellIsOwn, Requested, Refused, CellIsTrue,
     ResultIsOwn, HoldsId, NextId
<1> QED
  BY <1>2, <1>3, <1>4, <1>5, <1>6, <1>7, Zenon DEF OrderlyNext, Next

(* wnp.h:251-255, of wnp_get_event_result and wnp_wait_for_event_result     *)
(* (wnp.c:789-828): what an application gets for an id is what became of    *)
(* the event the id was given for - however the calls, the answers and the  *)
(* timeouts of any number of threads interleave, as long as the cell an     *)
(* event is given is nobody's any more when the event is started            *)
(* (OrderlySpec), and no call is refused before players_lock is taken (what *)
(* happens otherwise is in the run events_race).                           *)
THEOREM EventResultIsOwn ==
  ASSUME Locked
  PROVE  OrderlySpec => []ResultIsOwn
<1>1. Init => OwnInv
  BY OwnInit
<1>2. OwnInv /\ [OrderlyNext]_vars => OwnInv'
  BY OwnStep
<1>3. OwnInv => ResultIsOwn
  BY DEF OwnInv, RingInv
<1> QED
  BY <1>1, <1>2, <1>3, PTL DEF OrderlySpec

=============================================================================
