------------------------------- MODULE Notify -------------------------------
(***************************************************************************)
(* notify.Service, the fan-out of completion messages to the event streams *)
(* of one verifier process.  The streams of an id share one subscription   *)
(* of the pub/sub bus, kept by a group that is counted by `listeners' and  *)
(* reclaimed with its last stream.  The steps are the critical sections of *)
(* s.mu; the bus is its contract (pkg/pubsub): a buffer of one message per *)
(* subscription, and what does not fit is dropped.                         *)
(***************************************************************************)
EXTENDS Integers, FiniteSets

CONSTANTS Ids,       \* session ids, the topics of the bus
          Messages,  \* what Submit publishes
          Streams,   \* listener channels
          None

Slot == Messages \cup {None}
Group == [members : SUBSET Streams, buf : Slot]
Stream == [phase : {"opening", "subscribed", "open", "closing"},
           id : Ids, chan : Slot, sub : Slot]

ASSUME NotifyAssumption ==
  /\ IsFiniteSet(Streams)
  /\ None \notin Messages
  /\ None \notin Group /\ None \notin Stream

VARIABLES CH,         \* the group of each id, or None
          listeners,  \* the number of listeners of each id
          stream      \* where each listener is between Open and Close, or None
notifyVars == <<CH, listeners, stream>>

NotifyTypeOK ==
  /\ CH \in [Ids -> Group \cup {None}]
  /\ listeners \in [Ids -> 0..Cardinality(Streams)]
  /\ stream \in [Streams -> Stream \cup {None}]

NotifyInit ==
  /\ CH = [i \in Ids |-> None]
  /\ listeners = [i \in Ids |-> 0]
  /\ stream = [h \in Streams |-> None]

InPhase(h, phase) == stream[h] # None /\ stream[h].phase = phase

(* A send that drops the message when the buffer is taken.                 *)
Offer(slot, m) == IF slot = None THEN m ELSE slot

-----------------------------------------------------------------------------
(* OpenListener.                                                           *)

OpenListener(h, id) ==
  /\ stream[h] = None
  /\ stream' = [stream EXCEPT ![h] = [phase |-> "opening", id |-> id,
                                      chan |-> None, sub |-> None]]
  /\ UNCHANGED <<CH, listeners>>

(* Mutant of Attach: the fast path forgets to count its listener.          *)
AttachUncounted(h) ==
  /\ InPhase(h, "opening")
  /\ CH[stream[h].id] # None
  /\ CH' = [CH EXCEPT ![stream[h].id].members = @ \cup {h}]
  /\ stream' = [stream EXCEPT ![h].phase = "open"]
  /\ UNCHANGED listeners

(* Fast path: there is a group, register with it.                          *)
Attach(h) ==
  /\ InPhase(h, "opening")
  /\ CH[stream[h].id] # None
  /\ CH' = [CH EXCEPT ![stream[h].id].members = @ \cup {h}]
  /\ listeners' = [listeners EXCEPT ![stream[h].id] = @ + 1]
  /\ stream' = [stream EXCEPT ![h].phase = "open"]

(* Slow path: subscribe to the bus, outside s.mu.                          *)
Subscribe(h) ==
  /\ InPhase(h, "opening")
  /\ CH[stream[h].id] = None
  /\ stream' = [stream EXCEPT ![h].phase = "subscribed"]
  /\ UNCHANGED <<CH, listeners>>

(* The bus refuses: the listener is returned closed and unregistered, so   *)
(* that its CloseListener does nothing.                                    *)
SubscribeFails(h) ==
  /\ InPhase(h, "opening")
  /\ CH[stream[h].id] = None
  /\ stream' = [stream EXCEPT ![h] = None]
  /\ UNCHANGED <<CH, listeners>>

(* The subscription becomes the group's, with the message it may hold; or  *)
(* another OpenListener was faster, and the fast path is tried again.      *)
Install(h) ==
  /\ InPhase(h, "subscribed")
  /\ IF CH[stream[h].id] = None
     THEN /\ CH' = [CH EXCEPT ![stream[h].id] = [members |-> {h}, buf |-> stream[h].sub]]
          /\ listeners' = [listeners EXCEPT ![stream[h].id] = @ + 1]
          /\ stream' = [stream EXCEPT ![h].phase = "open", ![h].sub = None]
     ELSE /\ stream' = [stream EXCEPT ![h].phase = "opening", ![h].sub = None]
          /\ UNCHANGED <<CH, listeners>>

-----------------------------------------------------------------------------
(* Submit: the bus hands the message to every subscription of the id.      *)
Submit(id, m) ==
  /\ CH' = [CH EXCEPT ![id] = IF @ = None THEN None
                              ELSE [members |-> @.members, buf |-> Offer(@.buf, m)]]
  /\ stream' = [h \in Streams |->
                  IF InPhase(h, "subscribed") /\ stream[h].id = id
                  THEN [stream[h] EXCEPT !.sub = Offer(@, m)] ELSE stream[h]]
  /\ UNCHANGED listeners

(* fanOut and deliver: the group's goroutine takes the message from the    *)
(* subscription to every registered listener.                              *)
FanOut(id) ==
  /\ CH[id] # None
  /\ CH[id].buf # None
  /\ CH' = [CH EXCEPT ![id].buf = None]
  /\ stream' = [h \in Streams |->
                  IF h \in CH[id].members
                  THEN [stream[h] EXCEPT !.chan = Offer(@, CH[id].buf)] ELSE stream[h]]
  /\ UNCHANGED listeners

-----------------------------------------------------------------------------
(* CloseListener: unregister and close the channel, then, in a critical    *)
(* section of its own, give up the count.  The last one takes the group    *)
(* out of CH and closes it; nothing is registered with it any more.        *)

Unregister(h) ==
  /\ InPhase(h, "open")
  /\ CH' = [CH EXCEPT ![stream[h].id] = IF @ = None THEN None
                                        ELSE [members |-> @.members \ {h}, buf |-> @.buf]]
  /\ stream' = [stream EXCEPT ![h].phase = "closing", ![h].chan = None]
  /\ UNCHANGED listeners

Reclaim(h) ==
  /\ InPhase(h, "closing")
  /\ LET id == stream[h].id
     IN /\ listeners' = [listeners EXCEPT ![id] = @ - 1]
        /\ CH' = IF listeners[id] <= 1 THEN [CH EXCEPT ![id] = None] ELSE CH
  /\ stream' = [stream EXCEPT ![h] = None]

-----------------------------------------------------------------------------
Of(id, phases) == {h \in Streams : stream[h] # None /\ stream[h].id = id
                                     /\ stream[h].phase \in phases}

(* However opens and closes of an id interleave: a group is in CH exactly  *)
(* as long as somebody counts on it, and it delivers to the open listeners *)
(* and to no closed channel (a send on one panics).                        *)
GroupAccounted ==
  \A i \in Ids :
    /\ listeners[i] = Cardinality(Of(i, {"open", "closing"}))
    /\ CH[i] = None <=> listeners[i] = 0
    /\ CH[i] # None => CH[i].members = Of(i, {"open"})
=============================================================================
