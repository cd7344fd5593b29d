----------------------------- MODULE EventResults -----------------------------
(***************************************************************************)
(* The results of wnp_try_... events (wnp.c:395-505, 789-828): a ring of  *)
(* result cells, a counter that hands out the next cell, the adapter's or *)
(* the browser extension's answer, and the wait with its timeout.          *)
(*                                                                         *)
(* event_results is only touched under event_results_lock, one cell at a  *)
(* time: a read or write of it is one step.  The counter is a static int  *)
(* that only some callers read and write under players_lock: its read and *)
(* its write are steps of their own.                                       *)
(***************************************************************************)
EXTENDS Naturals

CONSTANTS
  Callers,            \* application threads
  Events,             \* names for the events in flight (bounds their number)
  Kinds,              \* the paths through _wnp_execute_event that are taken
  MaxEventResults,    \* WNP_MAX_EVENT_RESULTS
  NoEvent, NoThread

ASSUME KindsAssumption ==
  Kinds \subseteq {"event", "refused_locked", "refused_unlocked"}
ASSUME MaxEventResultsAssumption == MaxEventResults \in Nat \ {0}
ASSUME NoneAssumption == NoEvent \notin Events /\ NoThread \notin Callers

VARIABLES
  event_results,   \* _wnp_state.event_results
  event_id,        \* the static counter of _wnp_get_next_event_id
  players_lock,    \* _wnp_state.players_lock, as far as callers hold it
  pc,
  kind,            \* which path the thread's call takes
  reg,             \* the value the thread computed for the counter
  id,              \* the event id its call returned
  event,           \* the event the thread is concerned with
  requests,        \* [event, id] sent to a platform that answers later
  verdict,         \* what became of an event, whatever the cells say
  out              \* the result the last step handed to the application

vars == <<event_results, event_id, players_lock, pc, kind, reg, id, event,
          requests, verdict, out>>

Ids     == 0..(MaxEventResults - 1)
Results == {"PENDING", "SUCCEEDED", "FAILED"}

NoOut == [event |-> NoEvent, result |-> "PENDING", expired |-> FALSE]

Init ==
  /\ event_results = [e \in Ids |-> "FAILED"]
  /\ event_id = 0
  /\ players_lock = NoThread
  /\ pc = [t \in Callers |-> "idle"]
  /\ kind = [t \in Callers |-> "none"]
  /\ reg = [t \in Callers |-> 0]
  /\ id = [t \in Callers |-> 0]
  /\ event = [t \in Callers |-> NoEvent]
  /\ requests = {}
  /\ verdict = [e \in Events |-> "none"]
  /\ out = NoOut

Goto(t, p) == pc' = [pc EXCEPT ![t] = p]
Silent     == out' = NoOut
Free(e)    == (\A t \in Callers : event[t] # e) /\ (\A r \in requests : r.event # e)

Set(cell, result) == event_results' = [event_results EXCEPT ![cell] = result]
Judge(e, v)       == verdict' = [verdict EXCEPT ![e] = v]
Unlock(t)         == players_lock' = IF players_lock = t THEN NoThread ELSE players_lock

-----------------------------------------------------------------------------
(* wnp.c:428, 435 and 938 take an id without the lock.                     *)
Locks(k) == k # "refused_unlocked"

Call(t) ==
  /\ pc[t] = "idle"
  /\ \E k \in Kinds, e \in Events :
       /\ Free(e)
       /\ IF Locks(k) THEN players_lock = NoThread /\ players_lock' = t
                      ELSE UNCHANGED players_lock
       /\ kind' = [kind EXCEPT ![t] = k]
       /\ event' = [event EXCEPT ![t] = e]
       /\ Judge(e, IF k = "event" THEN "none" ELSE "refused")
  /\ Goto(t, "read")
  /\ Silent
  /\ UNCHANGED <<event_results, event_id, reg, id, requests>>

(* Mutant of NextId: the counter wraps one cell too late.                   *)
NextIdTooFar == (event_id + 1) % (MaxEventResults + 1)

NextId == (event_id + 1) % MaxEventResults

ReadCounter(t) ==
  /\ pc[t] = "read"
  /\ reg' = [reg EXCEPT ![t] = NextId]
  /\ Goto(t, "write")
  /\ Silent
  /\ UNCHANGED <<event_results, event_id, players_lock, kind, id, event, requests, verdict>>

WriteCounter(t) ==
  /\ pc[t] = "write"
  /\ event_id' = reg[t]
  /\ Goto(t, "pend")
  /\ Silent
  /\ UNCHANGED <<event_results, players_lock, kind, reg, id, event, requests, verdict>>

(* The counter as a later expression of the function sees it: the compiler *)
(* may have kept what the thread wrote, or read the variable again.        *)
Counter(t) == {reg[t], event_id}

(* Mutant of Pend: the cell keeps the result of an older event.             *)
PendForgets(t) ==
  /\ pc[t] = "pend"
  /\ Goto(t, "return")
  /\ Silent
  /\ UNCHANGED <<event_results, event_id, players_lock, kind, reg, id, event, requests,
                 verdict>>

Pend(t) ==
  /\ pc[t] = "pend"
  /\ \E cell \in Counter(t) : Set(cell, "PENDING")
  /\ Goto(t, "return")
  /\ Silent
  /\ UNCHANGED <<event_id, players_lock, kind, reg, id, event, requests, verdict>>

ReturnId(t) ==
  /\ pc[t] = "return"
  /\ \E cell \in Counter(t) : id' = [id EXCEPT ![t] = cell]
  /\ reg' = [reg EXCEPT ![t] = 0]
  /\ Goto(t, IF kind[t] = "event" THEN "platform" ELSE "fail")
  /\ Silent
  /\ UNCHANGED <<event_results, event_id, players_lock, kind, event, requests, verdict>>

_wnp_failed_event(t) ==
  /\ pc[t] = "fail"
  /\ Set(id[t], "FAILED")
  /\ Unlock(t)
  /\ Goto(t, "called")
  /\ Silent
  /\ UNCHANGED <<event_id, kind, reg, id, event, requests, verdict>>

(* The platform answers at once, later, or - the request is lost - never.  *)
Platform(t) ==
  /\ pc[t] = "platform"
  /\ \/ \E result \in {"SUCCEEDED", "FAILED"} :
          /\ Set(id[t], result)
          /\ Judge(event[t], result)
          /\ UNCHANGED requests
     \/ /\ requests' = requests \cup {[event |-> event[t], id |-> id[t]]}
        /\ UNCHANGED <<event_results, verdict>>
     \/ UNCHANGED <<event_results, verdict, requests>>
  /\ Unlock(t)
  /\ Goto(t, "called")
  /\ Silent
  /\ UNCHANGED <<event_id, kind, reg, id, event>>

(* A client thread of the web server, or a completion handler.             *)
Answer ==
  /\ \E r \in requests, result \in {"SUCCEEDED", "FAILED"} :
       /\ Set(r.id, result)
       /\ Judge(r.event, result)
       /\ requests' = requests \ {r}
  /\ Silent
  /\ UNCHANGED <<event_id, players_lock, pc, kind, reg, id, event>>

-----------------------------------------------------------------------------
HandOut(t, expired) ==
  out' = [event |-> event[t], result |-> event_results[id[t]], expired |-> expired]

(* The thread forgets its call.                                            *)
Leave(t) ==
  /\ Goto(t, "idle")
  /\ kind' = [kind EXCEPT ![t] = "none"]
  /\ id' = [id EXCEPT ![t] = 0]
  /\ event' = [event EXCEPT ![t] = NoEvent]

wnp_get_event_result(t) ==
  /\ pc[t] = "called"
  /\ HandOut(t, FALSE)
  /\ UNCHANGED <<event_results, event_id, players_lock, pc, kind, reg, id, event,
                 requests, verdict>>

Forget(t) ==
  /\ pc[t] = "called"
  /\ Leave(t)
  /\ Silent
  /\ UNCHANGED <<event_results, event_id, players_lock, reg, requests, verdict>>

Wait(t) ==
  /\ pc[t] = "called"
  /\ Goto(t, "wait")
  /\ Silent
  /\ UNCHANGED <<event_results, event_id, players_lock, kind, reg, id, event, requests,
                 verdict>>

(* Mutant of Poll: the looks are not counted.                               *)
PollForever(t) ==
  /\ pc[t] = "wait"
  /\ Goto(t, IF event_results[id[t]] = "PENDING" THEN "wait" ELSE "final")
  /\ Silent
  /\ UNCHANGED <<event_results, event_id, players_lock, kind, reg, id, event, requests,
                 verdict>>

(* The loop: an answer ends it, or the 101st look in vain.  The looks in   *)
(* between change nothing but their count.                                 *)
Poll(t) ==
  /\ pc[t] = "wait"
  /\ Goto(t, IF event_results[id[t]] = "PENDING" THEN "expire" ELSE "final")
  /\ Silent
  /\ UNCHANGED <<event_results, event_id, players_lock, kind, reg, id, event, requests,
                 verdict>>

Expire(t) ==
  /\ pc[t] = "expire"
  /\ Set(id[t], "FAILED")
  /\ Goto(t, "expired")
  /\ Silent
  /\ UNCHANGED <<event_id, players_lock, kind, reg, id, event, requests, verdict>>

Final(t) ==
  /\ pc[t] \in {"final", "expired"}
  /\ HandOut(t, pc[t] = "expired")
  /\ Leave(t)
  /\ UNCHANGED <<event_results, event_id, players_lock, reg, requests, verdict>>

GetId(t) == ReadCounter(t) \/ WriteCounter(t) \/ Pend(t) \/ ReturnId(t)
WaitFor(t) == Poll(t) \/ Expire(t) \/ Final(t)

Next ==
  \/ \E t \in Callers :
       \/ Call(t) \/ GetId(t) \/ _wnp_failed_event(t) \/ Platform(t)
       \/ wnp_get_event_result(t) \/ Forget(t) \/ Wait(t) \/ WaitFor(t)
  \/ Answer

Spec == Init /\ [][Next]_vars

(* A thread in the library is scheduled; nothing is assumed of the answers. *)
Fairness ==
  \A t \in Callers : /\ WF_vars(GetId(t)) /\ WF_vars(_wnp_failed_event(t))
                     /\ WF_vars(Platform(t)) /\ WF_vars(WaitFor(t))

FairSpec == Spec /\ Fairness

-----------------------------------------------------------------------------
(* The cells that belong to an event somebody is still concerned with.     *)
HoldsId(t) == pc[t] \in {"platform", "fail", "called", "wait", "expire", "expired", "final"}
LiveIds    == {id[t] : t \in {u \in Callers : HoldsId(u)}} \cup {r.id : r \in requests}

TypeOK ==
  /\ event_results \in [Ids -> Results]
  /\ event_id \in Ids
  /\ players_lock \in Callers \cup {NoThread}
  /\ pc \in [Callers -> {"idle", "read", "write", "pend", "return", "platform", "fail",
                         "called", "wait", "expire", "expired", "final"}]
  /\ kind \in [Callers -> Kinds \cup {"none"}]
  /\ reg \in [Callers -> Ids]
  /\ id \in [Callers -> Ids]
  /\ event \in [Callers -> Events \cup {NoEvent}]
  /\ requests \subseteq [event : Events, id : Ids]
  /\ verdict \in [Events -> {"none", "refused", "SUCCEEDED", "FAILED"}]
  /\ out \in [event : Events \cup {NoEvent}, result : Results, expired : BOOLEAN]

(* wnp.h:251-255 "Gets the result for an event. event_id - The id returned  *)
(* from an event function": what is got for the id is what became of that  *)
(* event - success only if it succeeded, failure only if it failed, was     *)
(* refused, or was given up by the wait itself.                             *)
ResultIsOwn ==
  /\ out.result = "SUCCEEDED" => verdict[out.event] = "SUCCEEDED"
  /\ out.result = "FAILED" /\ ~out.expired => verdict[out.event] \in {"FAILED", "refused"}

(* wnp.c:804-828: wnp_wait_for_event_result returns, answer or no answer.   *)
WaitReturns == \A t \in Callers : pc[t] = "wait" ~> pc[t] = "idle"
=============================================================================
