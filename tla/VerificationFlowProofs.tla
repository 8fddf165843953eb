----------------------- MODULE VerificationFlowProofs -----------------------
(***************************************************************************)
(* Proofs about VerificationFlow and the Notify component it is composed   *)
(* with, for any number of sessions, tabs, streams, posts, codes and       *)
(* faults.  The inductive invariant has a part for each hand-over: from a  *)
(* post to the store, from the store to a preference update that holds a   *)
(* copy of it, from the bus to a stream, and from a stream to its tab.     *)
(***************************************************************************)
EXTENDS VerificationFlow, FiniteSetTheorems, TLAPS

(* The session was created: it is in the store, or it is over for good.    *)
Born(s) == ctx[s] # None \/ late[s]

(* Post p is a payment with jti j and its presentation was accepted.       *)
Accepted(p, j) == post[p] # None /\ post[p].jti = j /\ post[p].phase # "verify"

(* What a post has done so far: the code is cached, then persisted.        *)
PostOK(p) ==
  post[p] # None =>
    /\ ctx[post[p].session] # None
    /\ post[p].phase \in {"verify", "claimed"} => post[p].code = None
    /\ post[p].phase \in {"cached", "saved"} => post[p].code \in creds
    /\ post[p].phase = "cached" => saved[post[p].code] = None
    /\ post[p].phase = "saved" => saved[post[p].code] = post[p].session

(* A code is of one post and of one session.                               *)
CodesOwned ==
  /\ \A p, q \in Posts :
       post[p] # None /\ post[q] # None /\ post[p].code # None /\ post[p].code = post[q].code
       => p = q
  /\ \A s \in Ids : Completed(s) => saved[ctx[s]] = s
  /\ \A c \in Codes : saved[c] # None => c \in creds /\ Born(saved[c])
  /\ \A c \in announced : saved[c] # None
  /\ \A c \in Codes : saved[c] = None => paid[c] = None

(* What a preference update has read, and is going to write back.          *)
PrefOK ==
  pref # None =>
    /\ pref.doc # None
    /\ Born(pref.session)
    /\ pref.doc \in Codes => /\ saved[pref.doc] = pref.session
                             /\ ctx[pref.session] # Pending

(* Codes on their way to a tab stand for cached credentials.               *)
MessagesCached ==
  /\ \A i \in Ids : CH[i] # None => CH[i].buf \in creds \cup {None}
  /\ \A h \in Streams : stream[h] # None => /\ stream[h].chan \in creds \cup {None}
                                            /\ stream[h].sub \in creds \cup {None}
  /\ \A t \in Tabs : tab[t].code \in creds \cup {None}

(* What a tab stores at each phase.                                        *)
TabOK(t) ==
  /\ tab[t].phase \in OnQR \cup {"menu", "reload", "told", "refused"} => tab[t].code = None
  /\ tab[t].phase \in OnQR \cup {"reload", "told", "refused"} => tab[t].sid # None
  /\ tab[t].phase \in {"load", "done"} => tab[t].code # None
  /\ tab[t].sid # None => Born(tab[t].sid)

(* A handler with a client serves its tab's session, alone.                *)
HandlerOK(h) ==
  handler[h].tab # None =>
    /\ stream[h] # None
    /\ stream[h].id = tab[handler[h].tab].sid
    /\ stream[h].phase # "closing"
    /\ tab[handler[h].tab].phase \in {"connecting", "watching", "unchecked"}
    /\ tab[handler[h].tab].phase # "connecting" => stream[h].phase = "open"
    /\ \A g \in Streams : handler[g].tab = handler[h].tab => g = h

(* A session whose stream has no deadline was complete when it was opened. *)
UnarmedOK(h) ==
  handler[h].tab # None /\ ~handler[h].armed =>
    LET t == handler[h].tab
    IN \/ tab[t].sid \in overwritten
       \/ ctx[tab[t].sid] = None
       \/ tab[t].phase # "watching" /\ Completed(tab[t].sid)

(* The completion of s was published, and can be found in the store, or is *)
(* going to be written back to it.                                         *)
Published(s) ==
  \/ ctx[s] \in announced
  \/ pref # None /\ pref.session = s /\ pref.doc \in announced /\ ctx[s] # None

NoneLost ==
  \A h \in Streams :
    handler[h].tab # None /\ tab[handler[h].tab].phase = "watching" /\ Published(stream[h].id)
      => MessageWaits(h, stream[h].id)

(* At most one post is past the claim of a jti, and none once a code was   *)
(* persisted for it, but the one that persisted it: as long as the session *)
(* of that code is in the store.  (A process that starts again forgets its *)
(* sessions together with the jtis.)                                       *)
JtiOK(j) ==
  /\ \A p, q \in Posts : Accepted(p, j) /\ Accepted(q, j) => p = q
  /\ \A p \in Posts : Accepted(p, j) => j \in used
  /\ \A c \in Codes : paid[c] = j => j \in used \/ ctx[saved[c]] = None
  /\ \A p \in Posts, c \in Codes :
       Accepted(p, j) /\ paid[c] = j =>
         (post[p].phase = "saved" /\ post[p].code = c) \/ ctx[saved[c]] = None

IInv ==
  /\ TypeOK
  /\ GroupAccounted
  /\ \A p \in Posts : PostOK(p)
  /\ CodesOwned
  /\ PrefOK
  /\ MessagesCached
  /\ \A t \in Tabs : TabOK(t)
  /\ \A h \in Streams : HandlerOK(h)
  /\ \A h \in Streams : UnarmedOK(h)
  /\ NoneLost
  /\ \A j \in Jtis : JtiOK(j)
  /\ PaymentAcceptedOnce

-----------------------------------------------------------------------------
(* The notification service.                                               *)

NotifyInv == NotifyTypeOK /\ GroupAccounted

(* The streams of an id are finitely many.                                 *)
LEMMA OfFinite == \A i, P : IsFiniteSet(Of(i, P)) /\ Of(i, P) \subseteq Streams
                           /\ Cardinality(Of(i, P)) \in 0..Cardinality(Streams)
<1> TAKE i, P
<1>1. Of(i, P) \in SUBSET Streams
  BY DEF Of
<1>2. IsFiniteSet(Of(i, P)) /\ Cardinality(Of(i, P)) <= Cardinality(Streams)
  BY <1>1, FS_Subset, NotifyAssumption
<1>3. Cardinality(Of(i, P)) \in Nat /\ Cardinality(Streams) \in Nat
  BY <1>2, FS_CardinalityType, NotifyAssumption
<1> QED BY <1>1, <1>2, <1>3

(* Steps that change no registration keep the accounts.                    *)
LEMMA SameAccounts ==
  ASSUME NotifyInv, NotifyTypeOK', UNCHANGED listeners,
         \A h \in Streams : /\ InPhase(h, "open")' <=> InPhase(h, "open")
                            /\ InPhase(h, "closing")' <=> InPhase(h, "closing")
                            /\ InPhase(h, "open") \/ InPhase(h, "closing")
                                 => stream'[h].id = stream[h].id,
         \A i \in Ids : /\ CH[i] = None <=> CH'[i] = None
                        /\ CH[i] # None => CH'[i].members = CH[i].members
  PROVE  GroupAccounted'
<1>1. \A i \in Ids : /\ Of(i, {"open"})' = Of(i, {"open"})
                     /\ Of(i, {"open", "closing"})' = Of(i, {"open", "closing"})
  BY DEF Of, InPhase
<1> QED BY <1>1 DEF NotifyInv, GroupAccounted

(* Opening and subscribing register nothing.                               *)
LEMMA OpenKeeps ==
  ASSUME NotifyInv, NEW h \in Streams,
         (\E i \in Ids : OpenListener(h, i)) \/ Subscribe(h) \/ SubscribeFails(h)
  PROVE  NotifyInv'
<1> USE NotifyAssumption
<1>0. stream \in [Streams -> Stream \cup {None}]
  BY DEF NotifyInv, NotifyTypeOK
<1>1. UNCHANGED <<CH, listeners>>
  BY DEF OpenListener, Subscribe, SubscribeFails
<1>2. /\ ~InPhase(h, "open") /\ ~InPhase(h, "closing")
      /\ ~InPhase(h, "open")' /\ ~InPhase(h, "closing")'
      /\ \A g \in Streams \ {h} : stream'[g] = stream[g]
      /\ stream' \in [Streams -> Stream \cup {None}]
  <2>1. CASE \E i \in Ids : OpenListener(h, i)
    <3>1. PICK i \in Ids : OpenListener(h, i)
      BY <2>1
    <3> DEFINE new == [phase |-> "opening", id |-> i, chan |-> None, sub |-> None]
    <3>2. new \in Stream /\ new.phase = "opening"
      BY DEF Stream, Slot
    <3>3. stream' = [stream EXCEPT ![h] = new] /\ stream[h] = None
      BY <3>1 DEF OpenListener
    <3> HIDE DEF new
    <3> QED BY <1>0, <3>2, <3>3 DEF InPhase
  <2>2. CASE Subscribe(h)
    <3>1. /\ stream[h] \in Stream /\ stream[h].phase = "opening"
          /\ stream' = [stream EXCEPT ![h].phase = "subscribed"]
      BY <1>0, <2>2 DEF Subscribe, InPhase
    <3>2. [stream[h] EXCEPT !.phase = "subscribed"] \in Stream
      BY <3>1 DEF Stream
    <3> QED BY <1>0, <3>1, <3>2 DEF InPhase, Stream
  <2>3. CASE SubscribeFails(h)
    <3>1. stream[h].phase = "opening" /\ stream' = [stream EXCEPT ![h] = None]
      BY <2>3 DEF SubscribeFails, InPhase
    <3> QED BY <1>0, <3>1 DEF InPhase
  <2> QED BY <2>1, <2>2, <2>3
<1>3. NotifyTypeOK'
  BY <1>1, <1>2 DEF NotifyInv, NotifyTypeOK
<1>4. \A g \in Streams : /\ InPhase(g, "open")' <=> InPhase(g, "open")
                         /\ InPhase(g, "closing")' <=> InPhase(g, "closing")
                         /\ InPhase(g, "open") \/ InPhase(g, "closing")
                              => stream'[g].id = stream[g].id
  BY <1>2 DEF InPhase
<1>5. GroupAccounted'
  BY <1>1, <1>3, <1>4, SameAccounts
<1> QED BY <1>3, <1>5 DEF NotifyInv

(* The fast and the slow path register a listener and count it, in one     *)
(* critical section.                                                       *)
LEMMA RegisterKeeps ==
  ASSUME NotifyInv, NEW h \in Streams, NEW i \in Ids, NEW r \in Stream, NEW b \in Slot,
         stream[h] # None, stream[h].id = i, stream[h].phase \in {"opening", "subscribed"},
         stream' = [stream EXCEPT ![h] = r], r.phase = "open", r.id = i,
         listeners' = [listeners EXCEPT ![i] = @ + 1],
         CH' = [CH EXCEPT ![i] = [members |-> IF CH[i] = None THEN {h} ELSE CH[i].members \cup {h},
                                  buf |-> b]]
  PROVE  NotifyInv'
<1> USE NotifyAssumption
<1> DEFINE O == Of(i, {"open"})
           C == Of(i, {"open", "closing"})
           g == [members |-> IF CH[i] = None THEN {h} ELSE CH[i].members \cup {h}, buf |-> b]
<1>1. /\ stream \in [Streams -> Stream \cup {None}] /\ listeners \in [Ids -> 0..Cardinality(Streams)]
      /\ CH \in [Ids -> Group \cup {None}] /\ Cardinality(Streams) \in Nat
  BY FS_CardinalityType DEF NotifyInv, NotifyTypeOK
<1>2. /\ stream'[h] = r /\ r # None
      /\ \A x \in Streams \ {h} : stream'[x] = stream[x]
  BY <1>1
<1>3. Of(i, {"open"})' = O \cup {h} /\ Of(i, {"open", "closing"})' = C \cup {h} /\ h \notin C
  BY <1>2 DEF Of
<1>4. \A j \in Ids \ {i} : /\ Of(j, {"open"})' = Of(j, {"open"})
                           /\ Of(j, {"open", "closing"})' = Of(j, {"open", "closing"})
  BY <1>2 DEF Of
<1>5. Cardinality(C \cup {h}) = Cardinality(C) + 1 /\ Cardinality(C) \in Nat
      /\ Cardinality(C \cup {h}) \in 0..Cardinality(Streams)
  <2>1. IsFiniteSet(C) /\ Cardinality(C) \in Nat
    BY OfFinite
  <2>2. Cardinality(C \cup {h}) = Cardinality(C) + 1 /\ IsFiniteSet(C \cup {h})
    BY <1>3, <2>1, FS_AddElement
  <2>3. C \cup {h} \in SUBSET Streams
    BY OfFinite
  <2>4. Cardinality(C \cup {h}) <= Cardinality(Streams)
    BY <2>3, FS_Subset
  <2> QED BY <1>1, <2>1, <2>2, <2>4
<1>6. listeners[i] = Cardinality(C) /\ (CH[i] = None <=> listeners[i] = 0)
      /\ (CH[i] # None => CH[i].members = O)
  BY DEF NotifyInv, GroupAccounted
<1>7. CH[i] = None => O = {}
  <2>1. CH[i] = None => C = {}
    BY <1>6, OfFinite, FS_EmptySet
  <2> QED BY <2>1 DEF Of
<1>8. g \in Group /\ g.members = O \cup {h}
  <2>1. g.members = O \cup {h} /\ g.buf = b
    BY <1>6, <1>7
  <2>2. O \cup {h} \subseteq Streams
    BY OfFinite
  <2> QED BY <2>1, <2>2 DEF Group
<1>9. CH'[i] = g /\ \A j \in Ids \ {i} : CH'[j] = CH[j]
  BY <1>1
<1>10. listeners'[i] = Cardinality(C) + 1 /\ \A j \in Ids \ {i} : listeners'[j] = listeners[j]
  BY <1>1, <1>6
<1> HIDE DEF O, C, g
<1>11. NotifyTypeOK'
  <2>1. CH' \in [Ids -> Group \cup {None}]
    BY <1>1, <1>8, <1>9
  <2>2. listeners' \in [Ids -> 0..Cardinality(Streams)]
    BY <1>1, <1>5, <1>10
  <2>3. stream' \in [Streams -> Stream \cup {None}]
    BY <1>1
  <2> QED BY <2>1, <2>2, <2>3 DEF NotifyTypeOK
<1>12. ASSUME NEW j \in Ids
       PROVE  /\ listeners'[j] = Cardinality(Of(j, {"open", "closing"})')
              /\ CH'[j] = None <=> listeners'[j] = 0
              /\ CH'[j] # None => CH'[j].members = Of(j, {"open"})'
  <2>1. CASE j = i
    <3>1. Of(j, {"open"})' = O \cup {h} /\ Of(j, {"open", "closing"})' = C \cup {h}
      BY <2>1, <1>2 DEF Of, O, C
    <3>2. listeners'[j] = Cardinality(C) + 1 /\ CH'[j] = g /\ g # None
      BY <2>1, <1>8, <1>9, <1>10
    <3>3. listeners'[j] = Cardinality(Of(j, {"open", "closing"})')
      BY <3>1, <3>2, <1>5
    <3>4. CH'[j] # None /\ listeners'[j] # 0
      <4>1. CH'[j] # None
        BY <3>2
      <4>2. \A n \in Nat : n + 1 # 0
        OBVIOUS
      <4> QED BY <4>1, <4>2, <3>2, <1>5
    <3>5. CH'[j].members = Of(j, {"open"})'
      BY <3>1, <3>2, <1>8
    <3> QED BY <3>3, <3>4, <3>5
  <2>2. CASE j # i
    BY <2>2, <1>4, <1>9, <1>10 DEF NotifyInv, GroupAccounted
  <2> QED BY <2>1, <2>2
<1>13. GroupAccounted'
  BY <1>12 DEF GroupAccounted
<1> QED BY <1>11, <1>13 DEF NotifyInv

(* OpenListener registers on its fast path, and when it installs a group.  *)
LEMMA AttachKeeps ==
  ASSUME NotifyInv, NEW h \in Streams, Attach(h) \/ Install(h)
  PROVE  NotifyInv'
<1> USE NotifyAssumption
<1> DEFINE i == stream[h].id
<1>1. /\ stream \in [Streams -> Stream \cup {None}] /\ CH \in [Ids -> Group \cup {None}]
  BY DEF NotifyInv, NotifyTypeOK
<1>2. /\ stream[h] # None /\ stream[h] \in Stream /\ i \in Ids
      /\ stream[h].phase \in {"opening", "subscribed"} /\ stream[h].sub \in Slot
  BY <1>1 DEF Attach, Install, InPhase, Stream
<1>3. CASE Attach(h)
  <2> DEFINE r == [stream[h] EXCEPT !.phase = "open"]
  <2>1. r \in Stream /\ r.phase = "open" /\ r.id = i
    BY <1>2 DEF Stream
  <2>2. CH[i] # None /\ CH[i] \in Group /\ CH[i].buf \in Slot
    BY <1>1, <1>2, <1>3 DEF Attach, Group
  <2>3. stream' = [stream EXCEPT ![h] = r] /\ listeners' = [listeners EXCEPT ![i] = @ + 1]
    BY <1>3 DEF Attach
  <2>4. [CH[i] EXCEPT !.members = @ \cup {h}] = [members |-> CH[i].members \cup {h}, buf |-> CH[i].buf]
    BY <2>2 DEF Group
  <2>5. CH' = [CH EXCEPT ![i] = [CH[i] EXCEPT !.members = @ \cup {h}]]
    BY <1>3 DEF Attach
  <2>6. CH' = [CH EXCEPT ![i] = [members |-> IF CH[i] = None THEN {h} ELSE CH[i].members \cup {h},
                                 buf |-> CH[i].buf]]
    BY <2>2, <2>4, <2>5
  <2> HIDE DEF i, r
  <2> QED BY <1>2, <2>1, <2>2, <2>3, <2>6, RegisterKeeps DEF i
<1>4. CASE Install(h) /\ CH[i] = None
  <2> DEFINE r == [stream[h] EXCEPT !.phase = "open", !.sub = None]
  <2>1. r \in Stream /\ r.phase = "open" /\ r.id = i
    BY <1>2 DEF Stream, Slot
  <2>2. stream' = [stream EXCEPT ![h] = r] /\ listeners' = [listeners EXCEPT ![i] = @ + 1]
    BY <1>1, <1>4 DEF Install
  <2>3. CH' = [CH EXCEPT ![i] = [members |-> IF CH[i] = None THEN {h} ELSE CH[i].members \cup {h},
                                 buf |-> stream[h].sub]]
    BY <1>4 DEF Install
  <2> HIDE DEF r
  <2> QED BY <1>2, <2>1, <2>2, <2>3, RegisterKeeps
<1>5. CASE Install(h) /\ CH[i] # None
  <2> DEFINE r == [stream[h] EXCEPT !.phase = "opening", !.sub = None]
  <2>1. r \in Stream /\ r.phase = "opening" /\ r.id = i
    BY <1>2 DEF Stream, Slot
  <2>2. stream' = [stream EXCEPT ![h] = r] /\ UNCHANGED <<CH, listeners>>
    BY <1>1, <1>5 DEF Install
  <2> HIDE DEF r
  <2>3. /\ stream'[h] = r /\ \A g \in Streams \ {h} : stream'[g] = stream[g]
        /\ stream' \in [Streams -> Stream \cup {None}]
    BY <1>1, <2>1, <2>2
  <2>4. NotifyTypeOK'
    BY <2>2, <2>3 DEF NotifyInv, NotifyTypeOK
  <2>5. \A g \in Streams : /\ InPhase(g, "open")' <=> InPhase(g, "open")
                           /\ InPhase(g, "closing")' <=> InPhase(g, "closing")
                           /\ InPhase(g, "open") \/ InPhase(g, "closing")
                                => stream'[g].id = stream[g].id
    BY <1>2, <2>1, <2>3 DEF InPhase
  <2>6. GroupAccounted'
    BY <2>2, <2>4, <2>5, SameAccounts
  <2> QED BY <2>4, <2>6 DEF NotifyInv
<1> QED BY <1>3, <1>4, <1>5

(* The streams and the groups stay what they are.                          *)
StreamsStay ==
  /\ \A h \in Streams : /\ stream[h] = None <=> stream'[h] = None
                        /\ stream[h] # None => /\ stream'[h].phase = stream[h].phase
                                               /\ stream'[h].id = stream[h].id
  /\ \A i \in Ids : CH[i] = None <=> CH'[i] = None

(* A message is offered to the subscriptions, and taken from the group's   *)
(* to its open streams.                                                    *)
LEMMA DeliverKeeps ==
  ASSUME NotifyInv, NEW i \in Ids, FanOut(i) \/ \E m \in Messages : Submit(i, m)
  PROVE  NotifyInv' /\ StreamsStay
<1> USE NotifyAssumption
<1>1. /\ stream \in [Streams -> Stream \cup {None}] /\ CH \in [Ids -> Group \cup {None}]
      /\ UNCHANGED listeners
  BY DEF NotifyInv, NotifyTypeOK, FanOut, Submit
<1>2. /\ CH' \in [Ids -> Group \cup {None}]
      /\ \A j \in Ids : /\ CH[j] = None <=> CH'[j] = None
                        /\ CH[j] # None => CH'[j].members = CH[j].members
  <2>1. CASE FanOut(i)
    <3>1. CH[i] \in Group /\ CH' = [CH EXCEPT ![i].buf = None]
      BY <1>1, <2>1 DEF FanOut
    <3>2. /\ [CH[i] EXCEPT !.buf = None] \in Group
          /\ [CH[i] EXCEPT !.buf = None].members = CH[i].members
      BY <3>1 DEF Group, Slot
    <3> QED BY <1>1, <3>1, <3>2
  <2>2. CASE \E m \in Messages : Submit(i, m)
    <3>1. PICK m \in Messages : Submit(i, m)
      BY <2>2
    <3> DEFINE g == [members |-> CH[i].members, buf |-> Offer(CH[i].buf, m)]
    <3>2. CH' = [CH EXCEPT ![i] = IF CH[i] = None THEN None ELSE g]
      BY <1>1, <3>1 DEF Submit
    <3>3. CH[i] # None => g \in Group /\ g.members = CH[i].members
      BY <1>1 DEF Group, Slot, Offer
    <3> HIDE DEF g
    <3> QED BY <1>1, <3>2, <3>3
  <2> QED BY <2>1, <2>2
<1>3. /\ stream' \in [Streams -> Stream \cup {None}]
      /\ \A h \in Streams : /\ stream[h] = None <=> stream'[h] = None
                            /\ stream[h] # None => /\ stream'[h].phase = stream[h].phase
                                                   /\ stream'[h].id = stream[h].id
  <2>1. CASE FanOut(i)
    <3> DEFINE m == CH[i].buf
    <3>1. /\ m \in Messages /\ CH[i].members = Of(i, {"open"})
          /\ stream' = [h \in Streams |-> IF h \in CH[i].members
                                          THEN [stream[h] EXCEPT !.chan = Offer(@, m)]
                                          ELSE stream[h]]
      BY <1>1, <2>1 DEF FanOut, Group, Slot, NotifyInv, GroupAccounted
    <3>2. \A h \in Streams : h \in CH[i].members => stream[h] # None
      BY <3>1 DEF Of
    <3> HIDE DEF m
    <3>3. \A x \in Stream : LET y == [x EXCEPT !.chan = Offer(@, m)]
                            IN y \in Stream /\ y.phase = x.phase /\ y.id = x.id
      BY <3>1 DEF Stream, Slot, Offer
    <3> QED BY <1>1, <3>1, <3>2, <3>3
  <2>2. CASE \E m \in Messages : Submit(i, m)
    <3>1. PICK m \in Messages : Submit(i, m)
      BY <2>2
    <3>2. stream' = [h \in Streams |-> IF InPhase(h, "subscribed") /\ stream[h].id = i
                                       THEN [stream[h] EXCEPT !.sub = Offer(@, m)]
                                       ELSE stream[h]]
      BY <3>1 DEF Submit
    <3>3. \A x \in Stream : LET y == [x EXCEPT !.sub = Offer(@, m)]
                            IN y \in Stream /\ y.phase = x.phase /\ y.id = x.id
      BY DEF Stream, Slot, Offer
    <3>4. \A h \in Streams : InPhase(h, "subscribed") => stream[h] # None
      BY DEF InPhase
    <3> QED BY <1>1, <3>2, <3>3, <3>4
  <2> QED BY <2>1, <2>2
<1>4. NotifyTypeOK'
  BY <1>1, <1>2, <1>3 DEF NotifyInv, NotifyTypeOK
<1>5. GroupAccounted'
  <2>1. \A h \in Streams : /\ InPhase(h, "open")' <=> InPhase(h, "open")
                           /\ InPhase(h, "closing")' <=> InPhase(h, "closing")
                           /\ InPhase(h, "open") \/ InPhase(h, "closing")
                                => stream'[h].id = stream[h].id
    BY <1>3 DEF InPhase
  <2> QED BY <1>1, <1>2, <1>4, <2>1, SameAccounts
<1> QED BY <1>2, <1>3, <1>4, <1>5 DEF NotifyInv, StreamsStay

(* CloseListener, first critical section: the stream leaves the group, and *)
(* still counts.                                                           *)
LEMMA UnregisterKeeps == ASSUME NotifyInv, NEW h \in Streams, Unregister(h) PROVE NotifyInv'
<1> USE NotifyAssumption
<1> DEFINE i == stream[h].id
           r == [stream[h] EXCEPT !.phase = "closing", !.chan = None]
<1>1. /\ stream \in [Streams -> Stream \cup {None}] /\ CH \in [Ids -> Group \cup {None}]
  BY DEF NotifyInv, NotifyTypeOK
<1>2. /\ stream[h] \in Stream /\ stream[h].phase = "open" /\ i \in Ids
      /\ stream' = [stream EXCEPT ![h] = r] /\ UNCHANGED listeners
  <2>1. stream[h] # None /\ stream[h].phase = "open" /\ UNCHANGED listeners
    BY DEF Unregister, InPhase
  <2>2. stream[h] \in Stream /\ i \in Ids
    BY <1>1, <2>1 DEF Stream
  <2>3. stream' = [stream EXCEPT ![h] = r]
    BY <1>1 DEF Unregister
  <2> QED BY <2>1, <2>2, <2>3
<1>3. r \in Stream /\ r.phase = "closing" /\ r.id = i
  BY <1>2 DEF Stream, Slot
<1> HIDE DEF r
<1>4. stream'[h] = r /\ \A g \in Streams \ {h} : stream'[g] = stream[g]
  BY <1>1, <1>2
<1>5. \A j \in Ids : /\ Of(j, {"open", "closing"})' = Of(j, {"open", "closing"})
                     /\ Of(j, {"open"})' = Of(j, {"open"}) \ {h}
                     /\ j # i => h \notin Of(j, {"open"})
  BY <1>2, <1>3, <1>4 DEF Of
<1>6. CH' = [CH EXCEPT ![i] = IF CH[i] = None THEN None
                              ELSE [members |-> CH[i].members \ {h}, buf |-> CH[i].buf]]
  BY <1>1 DEF Unregister
<1>7. /\ CH' \in [Ids -> Group \cup {None}]
      /\ \A j \in Ids : /\ CH[j] = None <=> CH'[j] = None
                        /\ j # i => CH'[j] = CH[j]
      /\ CH[i] # None => CH'[i].members = CH[i].members \ {h}
  <2>1. CASE CH[i] = None
    BY <1>1, <1>2, <1>6, <2>1
  <2>2. CASE CH[i] # None
    <3>1. [members |-> CH[i].members \ {h}, buf |-> CH[i].buf] \in Group
      BY <1>1, <1>2, <2>2 DEF Group
    <3> QED BY <1>1, <1>2, <1>6, <2>2, <3>1
  <2> QED BY <2>1, <2>2
<1>8. NotifyTypeOK'
  BY <1>1, <1>2, <1>3, <1>7 DEF NotifyInv, NotifyTypeOK
<1> HIDE DEF i
<1>9. ASSUME NEW j \in Ids
      PROVE  /\ listeners'[j] = Cardinality(Of(j, {"open", "closing"})')
             /\ CH'[j] = None <=> listeners'[j] = 0
             /\ CH'[j] # None => CH'[j].members = Of(j, {"open"})'
  <2>1. /\ listeners[j] = Cardinality(Of(j, {"open", "closing"}))
        /\ CH[j] = None <=> listeners[j] = 0
        /\ CH[j] # None => CH[j].members = Of(j, {"open"})
    BY DEF NotifyInv, GroupAccounted
  <2>2. CASE j = i
    BY <1>2, <1>5, <1>7, <2>1, <2>2, ZenonT(30)
  <2>3. CASE j # i
    BY <1>2, <1>5, <1>7, <2>1, <2>3, ZenonT(30)
  <2> QED BY <2>2, <2>3
<1>10. GroupAccounted'
  BY <1>9 DEF GroupAccounted
<1> QED BY <1>8, <1>10 DEF NotifyInv

(* A stream that counts is counted; two are counted as two.                *)
LEMMA CountedStreams ==
  ASSUME NotifyInv, NEW i \in Ids
  PROVE  /\ listeners[i] \in Nat
         /\ \A h \in Of(i, {"open", "closing"}) : listeners[i] > 0 /\ CH[i] # None
         /\ \A h, g \in Of(i, {"open", "closing"}) : h # g => listeners[i] > 1
<1> DEFINE C == Of(i, {"open", "closing"})
<1>1. IsFiniteSet(C) /\ Cardinality(C) \in Nat
  BY OfFinite
<1>2. listeners[i] = Cardinality(C) /\ (CH[i] = None <=> listeners[i] = 0)
  BY DEF NotifyInv, GroupAccounted
<1> HIDE DEF C
<1>3. \A h \in C : Cardinality(C) > 0
  BY <1>1, FS_EmptySet
<1>4. ASSUME NEW h \in C, NEW g \in C, h # g PROVE Cardinality(C) > 1
  <2>1. Cardinality(C) # 1
    BY <1>1, <1>4, FS_Singleton
  <2> QED BY <1>1, <1>3, <2>1
<1> QED BY <1>1, <1>2, <1>3, <1>4 DEF C

(* CloseListener, second critical section: the last one that counts takes  *)
(* the group with it.                                                      *)
LEMMA ReclaimKeeps ==
  ASSUME NotifyInv, NEW h \in Streams, Reclaim(h)
  PROVE  /\ NotifyInv'
         /\ \A g \in Streams : g # h /\ InPhase(g, "open") => CH'[stream[g].id] = CH[stream[g].id]
<1> USE NotifyAssumption
<1> DEFINE i == stream[h].id
           C == Of(i, {"open", "closing"})
<1>1. /\ stream \in [Streams -> Stream \cup {None}] /\ CH \in [Ids -> Group \cup {None}]
      /\ listeners \in [Ids -> 0..Cardinality(Streams)] /\ Cardinality(Streams) \in Nat
  BY FS_CardinalityType DEF NotifyInv, NotifyTypeOK
<1>2. /\ stream[h] \in Stream /\ stream[h].phase = "closing" /\ i \in Ids
      /\ stream' = [stream EXCEPT ![h] = None]
      /\ listeners' = [listeners EXCEPT ![i] = @ - 1]
      /\ CH' = IF listeners[i] <= 1 THEN [CH EXCEPT ![i] = None] ELSE CH
  BY <1>1 DEF Reclaim, InPhase, Stream
<1>3. stream'[h] = None /\ \A g \in Streams \ {h} : stream'[g] = stream[g]
  BY <1>1, <1>2
<1>4. \A j \in Ids : /\ Of(j, {"open", "closing"})' = Of(j, {"open", "closing"}) \ {h}
                     /\ Of(j, {"open"})' = Of(j, {"open"})
                     /\ j # i => h \notin Of(j, {"open", "closing"})
  BY <1>2, <1>3 DEF Of
<1>5. h \in C
  BY <1>2 DEF Of
<1>6. /\ listeners[i] = Cardinality(C) /\ listeners[i] \in Nat /\ listeners[i] > 0 /\ CH[i] # None
      /\ Cardinality(C \ {h}) = Cardinality(C) - 1
      /\ CH[i].members = Of(i, {"open"})
  <2>1. IsFiniteSet(C) /\ Cardinality(C) \in Nat
    BY OfFinite
  <2> QED BY <1>2, <1>5, <2>1, CountedStreams, FS_RemoveElement DEF NotifyInv, GroupAccounted
<1>7. /\ CH' \in [Ids -> Group \cup {None}]
      /\ CH'[i] = IF listeners[i] <= 1 THEN None ELSE CH[i]
      /\ \A j \in Ids \ {i} : CH'[j] = CH[j]
      /\ listeners' \in [Ids -> 0..Cardinality(Streams)]
      /\ listeners'[i] = listeners[i] - 1
      /\ \A j \in Ids \ {i} : listeners'[j] = listeners[j]
  <2>1. listeners[i] - 1 \in 0..Cardinality(Streams)
    BY <1>1, <1>2, <1>6
  <2> QED BY <1>1, <1>2, <2>1
<1>8. NotifyTypeOK'
  BY <1>1, <1>2, <1>7 DEF NotifyTypeOK
<1>9. ASSUME NEW g \in Streams, g # h, InPhase(g, "open")
      PROVE  CH'[stream[g].id] = CH[stream[g].id]
  <2>1. stream[g].id \in Ids
    BY <1>1, <1>9 DEF InPhase, Stream
  <2>2. CASE stream[g].id = i
    <3>1. g \in C
      BY <1>9, <2>2 DEF Of, InPhase
    <3>2. listeners[i] > 1
      BY <1>2, <1>5, <1>9, <3>1, CountedStreams
    <3> QED BY <1>6, <1>7, <2>2, <3>2
  <2> QED BY <1>7, <2>1, <2>2
<1> HIDE DEF C, i
<1>10. ASSUME NEW j \in Ids
       PROVE  /\ listeners'[j] = Cardinality(Of(j, {"open", "closing"})')
              /\ CH'[j] = None <=> listeners'[j] = 0
              /\ CH'[j] # None => CH'[j].members = Of(j, {"open"})'
  <2>1. CASE j = i
    <3>1. Of(j, {"open", "closing"})' = C \ {h} /\ Of(j, {"open"})' = Of(i, {"open"})
      BY <2>1, <1>4 DEF C
    <3>2. listeners'[j] = Cardinality(Of(j, {"open", "closing"})')
      BY <2>1, <3>1, <1>6, <1>7
    <3>3. CH'[j] = None <=> listeners'[j] = 0
      BY <2>1, <1>6, <1>7
    <3> QED BY <2>1, <3>1, <3>2, <3>3, <1>6, <1>7
  <2>2. CASE j # i
    <3>1. /\ Of(j, {"open", "closing"})' = Of(j, {"open", "closing"})
          /\ Of(j, {"open"})' = Of(j, {"open"})
      BY <2>2, <1>4
    <3> QED BY <2>2, <3>1, <1>7 DEF NotifyInv, GroupAccounted
  <2> QED BY <2>1, <2>2
<1>11. GroupAccounted'
  BY <1>10 DEF GroupAccounted
<1> QED BY <1>8, <1>9, <1>11 DEF NotifyInv

(* Nothing happens to the service.                                         *)
LEMMA NotifyStutter == ASSUME NotifyInv, UNCHANGED <<CH, listeners, stream>> PROVE NotifyInv'
<1>1. NotifyTypeOK'
  BY DEF NotifyInv, NotifyTypeOK
<1>2. \A h \in Streams : \A ph \in {"open", "closing"} : InPhase(h, ph)' <=> InPhase(h, ph)
  BY DEF InPhase
<1>3. GroupAccounted'
  BY <1>1, <1>2, SameAccounts
<1> QED BY <1>1, <1>3 DEF NotifyInv

(* A process starts with no group and no stream.                           *)
LEMMA ResetInv ==
  ASSUME CH' = [i \in Ids |-> None], listeners' = [i \in Ids |-> 0],
         stream' = [h \in Streams |-> None]
  PROVE  NotifyInv'
<1>1. \A i \in Ids : Of(i, {"open", "closing"})' = {}
  BY DEF Of
<1>2. Cardinality({}) = 0 /\ Cardinality(Streams) \in Nat
  BY FS_EmptySet, FS_CardinalityType, NotifyAssumption
<1>3. NotifyTypeOK'
  BY <1>2 DEF NotifyTypeOK
<1>4. GroupAccounted'
  BY <1>1, <1>2 DEF GroupAccounted
<1> QED BY <1>3, <1>4 DEF NotifyInv

-----------------------------------------------------------------------------
(* The page and the store.                                                 *)

(* The parts of the inductive invariant about the store and the posts, and *)
(* about the notification service and the tabs.                            *)
StoreInv ==
  /\ \A p \in Posts : PostOK(p)
  /\ CodesOwned
  /\ PrefOK
  /\ \A j \in Jtis : JtiOK(j)
  /\ PaymentAcceptedOnce
TabInv ==
  /\ MessagesCached
  /\ \A t \in Tabs : TabOK(t)
  /\ \A h \in Streams : HandlerOK(h)

storeVars == <<ctx, late, creds, used, saved, paid, announced, overwritten, post, pref>>

(* CHOOSE picks an element of a set that has one.                          *)
LEMMA AnyIsIn == \A S : S # {} => Any(S) \in S
BY DEF Any

(* Init establishes the inductive invariant.                               *)
LEMMA InitIInv == Init => IInv
<1> SUFFICES ASSUME Init PROVE IInv
  OBVIOUS
<1> USE NotifyAssumption, FlowAssumption
<1>1. NotifyTypeOK /\ GroupAccounted
  <2>1. \A i \in Ids : Of(i, {"open", "closing"}) = {}
    BY DEF Of, Init, NotifyInit
  <2>2. Cardinality({}) = 0 /\ Cardinality(Streams) \in Nat
    BY FS_EmptySet, FS_CardinalityType
  <2>3. NotifyInit
    BY DEF Init
  <2>4. NotifyTypeOK
    BY <2>2, <2>3 DEF NotifyTypeOK, NotifyInit
  <2>5. GroupAccounted
    BY <2>1, <2>2, <2>3 DEF GroupAccounted, NotifyInit
  <2> QED BY <2>4, <2>5
<1>2. TypeOK
  <2>1. Menu \in Tab /\ NoHandler \in [tab : Tabs \cup {None}, armed : BOOLEAN]
    BY DEF Menu, Tab, NoHandler
  <2> QED BY <1>1, <2>1 DEF TypeOK, Init, Contexts
<1>3. /\ \A p \in Posts : PostOK(p)
      /\ CodesOwned /\ PrefOK /\ PaymentAcceptedOnce
  BY DEF Init, PostOK, CodesOwned, Completed, PrefOK, PaymentAcceptedOnce, Codes
<1>4. \A j \in Jtis : JtiOK(j)
  BY DEF Init, JtiOK, Accepted
<1>5. MessagesCached /\ (\A t \in Tabs : TabOK(t)) /\ (\A h \in Streams : HandlerOK(h))
  BY DEF Init, NotifyInit, MessagesCached, TabOK, HandlerOK, Menu, NoHandler, OnQR
<1>6. (\A h \in Streams : UnarmedOK(h)) /\ NoneLost
  BY DEF Init, UnarmedOK, NoneLost, NoHandler
<1> QED BY <1>1, <1>2, <1>3, <1>4, <1>5, <1>6 DEF IInv

(* What a step that touches neither the store nor the posts keeps of them. *)
LEMMA StoreFrame ==
  ASSUME IInv, UNCHANGED storeVars, UNCHANGED config
  PROVE  StoreInv'
<1>1. UNCHANGED <<ctx, late, creds, used, saved, paid, announced, overwritten, post, pref, payments>>
  BY DEF storeVars, config
<1>2. (\A p \in Posts : PostOK(p)') /\ CodesOwned' /\ PrefOK'
  BY <1>1 DEF IInv, PostOK, CodesOwned, PrefOK, Born, Completed
<1>3. (\A j \in Jtis : JtiOK(j)') /\ PaymentAcceptedOnce'
  BY <1>1 DEF IInv, JtiOK, PaymentAcceptedOnce, Accepted
<1> QED BY <1>1, <1>2, <1>3 DEF StoreInv

(* A session does not leave the store to come back, and the caches grow.   *)
Onwards ==
  /\ \A s \in Ids : Born(s) => Born(s)' /\ (ctx[s] = None => ctx'[s] = None)
  /\ creds \subseteq creds'
  /\ overwritten \subseteq overwritten'

(* What a step that touches no stream and no tab keeps of them.            *)
LEMMA TabFrame ==
  ASSUME IInv, UNCHANGED <<notifyVars, tab, handler>>, Onwards,
         \A s \in Ids : Completed(s) => Completed(s)' \/ ctx'[s] = None \/ s \in overwritten',
         \A s \in Ids : Born(s) /\ Published(s)' => Published(s)
  PROVE  /\ TabInv' /\ NotifyInv'
         /\ (\A h \in Streams : UnarmedOK(h))'
         /\ NoneLost'
<1> USE NotifyAssumption, FlowAssumption
<1>1. UNCHANGED <<CH, listeners, stream, tab, handler>>
  BY DEF notifyVars
<1>2. /\ tab \in [Tabs -> Tab] /\ handler \in [Streams -> [tab : Tabs \cup {None}, armed : BOOLEAN]]
      /\ stream \in [Streams -> Stream \cup {None}]
  BY DEF IInv, TypeOK, NotifyTypeOK
<1>3. \A t \in Tabs : tab[t].sid \in Ids \cup {None}
  BY <1>2 DEF Tab
<1>4. \A t \in Tabs : TabOK(t)'
  BY <1>1, <1>3 DEF IInv, TabOK, Onwards
<1>5. MessagesCached' /\ \A h \in Streams : HandlerOK(h)'
  BY <1>1 DEF IInv, MessagesCached, HandlerOK, Onwards
<1>6. NotifyInv'
  BY <1>1, NotifyStutter DEF IInv, TypeOK, NotifyInv
<1>7. \A h \in Streams : handler[h].tab # None =>
        /\ handler[h].tab \in Tabs /\ tab[handler[h].tab].sid \in Ids
        /\ Born(tab[handler[h].tab].sid) /\ stream[h].id = tab[handler[h].tab].sid
  <2> SUFFICES ASSUME NEW h \in Streams, handler[h].tab # None
               PROVE  /\ handler[h].tab \in Tabs /\ tab[handler[h].tab].sid \in Ids
                      /\ Born(tab[handler[h].tab].sid) /\ stream[h].id = tab[handler[h].tab].sid
    OBVIOUS
  <2>1. handler[h].tab \in Tabs
    BY <1>2
  <2>2. stream[h].id = tab[handler[h].tab].sid /\ stream[h] \in Stream
    BY <1>2 DEF IInv, HandlerOK
  <2>3. tab[handler[h].tab].sid \in Ids
    BY <2>2 DEF Stream
  <2> QED BY <2>1, <2>2, <2>3 DEF IInv, TabOK
<1>8. ASSUME NEW h \in Streams PROVE UnarmedOK(h)'
  <2>1. UnarmedOK(h)
    BY DEF IInv
  <2> QED BY <1>1, <1>7, <2>1 DEF UnarmedOK, Onwards
<1>9. NoneLost'
  <2> SUFFICES ASSUME NEW h \in Streams, handler[h].tab # None,
                      tab[handler[h].tab].phase = "watching", Published(stream[h].id)'
               PROVE  MessageWaits(h, stream[h].id)'
    BY <1>1 DEF NoneLost
  <2>2. stream[h].id \in Ids /\ Born(stream[h].id)
    BY <1>7
  <2>3. Published(stream[h].id)
    BY <1>1, <2>2
  <2>4. MessageWaits(h, stream[h].id)
    BY <2>3 DEF IInv, NoneLost
  <2> QED BY <1>1, <2>4 DEF MessageWaits
<1> QED BY <1>4, <1>5, <1>6, <1>8, <1>9 DEF TabInv

-----------------------------------------------------------------------------
(* VerificationDirectPost.                                                 *)

(* What such a step leaves alone, and what the types come to.              *)
LEMMA PostTypes ==
  ASSUME IInv, NEW p \in Posts, NEW y \in Post \cup {None}, post' = [post EXCEPT ![p] = y],
         UNCHANGED <<late, overwritten, tab, handler, pref>>, UNCHANGED config,
         ctx' \in [Ids -> Contexts], creds' \subseteq Codes, used' \subseteq Jtis,
         saved' \in [Codes -> Ids \cup {None}], paid' \in [Codes -> Jtis \cup {None}],
         announced' \subseteq Codes, NotifyTypeOK',
         faults' \in 0..MaxFaults
  PROVE  TypeOK'
<1>1. UNCHANGED <<backend, payments>>
  BY DEF config
<1> QED BY <1>1 DEF IInv, TypeOK

(* A post that has done nothing that lasts, or has done everything, ends;  *)
(* or it gives back what it claimed.                                       *)
LEMMA PostEndsKeeps ==
  ASSUME IInv, NEW p \in Posts, post[p] # None, PostEnds(p), UNCHANGED config,
         UNCHANGED <<notifyVars, ctx, late, creds, saved, paid, announced, overwritten, tab, handler, pref>>,
         faults' \in 0..MaxFaults,
         \/ used' = used
         \/ post[p].phase \in {"claimed", "cached"} /\ used' = used \ {post[p].jti}
  PROVE  IInv'
<1> USE NotifyAssumption, FlowAssumption
<1>0. UNCHANGED <<CH, listeners, stream, ctx, late, creds, saved, paid, announced, overwritten, tab,
                  handler, pref, payments>>
  BY DEF notifyVars, config
<1>1. post \in [Posts -> Post \cup {None}]
  BY DEF IInv, TypeOK
<1>2. post'[p] = None /\ \A q \in Posts \ {p} : post'[q] = post[q]
  BY <1>1 DEF PostEnds
<1>3. TypeOK'
  BY <1>0, PostTypes DEF IInv, TypeOK, NotifyTypeOK, PostEnds
<1>4. /\ TabInv' /\ NotifyInv' /\ (\A h \in Streams : UnarmedOK(h))' /\ NoneLost'
  BY <1>0, TabFrame DEF Onwards, Born, Completed, Published
<1>5. \A q \in Posts : PostOK(q)'
  BY <1>0, <1>2 DEF IInv, PostOK
<1>6. CodesOwned' /\ PrefOK' /\ PaymentAcceptedOnce'
  BY <1>0, <1>2 DEF IInv, CodesOwned, PrefOK, PaymentAcceptedOnce, Born, Completed
<1>7. ASSUME NEW j \in Jtis PROVE JtiOK(j)'
  <2>1. JtiOK(j)
    BY DEF IInv
  <2>2. \A q \in Posts : Accepted(q, j)' <=> Accepted(q, j) /\ q # p
    BY <1>2 DEF Accepted
  <2>3. CASE j \in used => j \in used'
    BY <1>0, <1>2, <2>1, <2>2, <2>3 DEF JtiOK
  <2>4. CASE j \in used /\ j \notin used'
    <3>1. post[p].jti = j /\ post[p].phase \in {"claimed", "cached"}
      BY <2>4
    <3>2. Accepted(p, j) /\ post[p].phase # "saved"
      BY <3>1 DEF Accepted
    <3>3. /\ \A q \in Posts : ~Accepted(q, j)'
          /\ \A c \in Codes : paid[c] = j => ctx[saved[c]] = None
      BY <2>1, <2>2, <3>2 DEF JtiOK
    <3> QED BY <1>0, <3>3 DEF JtiOK
  <2> QED BY <2>3, <2>4
<1> QED BY <1>0, <1>3, <1>4, <1>5, <1>6, <1>7 DEF IInv, TabInv, NotifyInv

(* ClaimRefused, VerifyFails, WriteFails and AnnounceFails end a post.     *)
LEMMA PostEndSteps ==
  ASSUME IInv, UNCHANGED config, NEW p \in Posts,
         ClaimRefused(p) \/ VerifyFails(p) \/ WriteFails(p) \/ AnnounceFails(p)
  PROVE  IInv'
<1> USE FlowAssumption
<1>1. /\ post[p] # None /\ PostEnds(p)
      /\ UNCHANGED <<notifyVars, ctx, late, creds, saved, paid, announced, overwritten, tab, handler, pref>>
  BY DEF ClaimRefused, VerifyFails, WriteFails, AnnounceFails, At
<1>2. faults' \in 0..MaxFaults
  BY DEF ClaimRefused, VerifyFails, WriteFails, AnnounceFails, Failure, IInv, TypeOK
<1>3. \/ used' = used
      \/ post[p].phase \in {"claimed", "cached"} /\ used' = used \ {post[p].jti}
  BY DEF ClaimRefused, VerifyFails, WriteFails, AnnounceFails, At
<1> QED BY <1>1, <1>2, <1>3, PostEndsKeeps

(* A post arrives for a session in the store.                              *)
LEMMA PostArrivesStep ==
  ASSUME IInv, UNCHANGED config, NEW s \in Ids, NEW j, PostArrives(s, j)
  PROVE  IInv'
<1> USE NotifyAssumption, FlowAssumption
<1> DEFINE p == Any({q \in Posts : post[q] = None})
           y == [phase |-> "verify", session |-> s, jti |-> j, code |-> None]
<1>0. UNCHANGED <<CH, listeners, stream, ctx, late, creds, used, saved, paid, announced, overwritten, tab,
                  handler, pref, faults, payments>> /\ UNCHANGED notifyVars
  BY DEF notifyVars, config, PostArrives
<1>1. p \in Posts /\ post[p] = None
  <2>1. {q \in Posts : post[q] = None} # {}
    BY DEF PostArrives
  <2> QED BY <2>1, AnyIsIn
<1>2. post \in [Posts -> Post \cup {None}] /\ post' = [post EXCEPT ![p] = y] /\ ctx[s] # None
  BY DEF IInv, TypeOK, PostArrives
<1>3. y \in Post /\ y.phase = "verify" /\ y.session = s /\ y.code = None
  BY DEF Post, PostArrives
<1> HIDE DEF p, y
<1>4. post'[p] = y /\ \A q \in Posts \ {p} : post'[q] = post[q]
  BY <1>1, <1>2
<1>5. TypeOK'
  BY <1>0, <1>1, <1>2, <1>3, PostTypes DEF IInv, TypeOK, NotifyTypeOK
<1>6. /\ TabInv' /\ NotifyInv' /\ (\A h \in Streams : UnarmedOK(h))' /\ NoneLost'
  BY <1>0, TabFrame DEF Onwards, Born, Completed, Published
<1>7. \A q \in Posts : PostOK(q)'
  BY <1>0, <1>2, <1>3, <1>4 DEF IInv, PostOK
<1>8. CodesOwned' /\ PrefOK' /\ PaymentAcceptedOnce'
  BY <1>0, <1>3, <1>4 DEF IInv, CodesOwned, PrefOK, PaymentAcceptedOnce, Born, Completed
<1>9. ASSUME NEW x \in Jtis PROVE JtiOK(x)'
  <2>1. \A q \in Posts : /\ Accepted(q, x)' => Accepted(q, x) /\ post'[q] = post[q]
    BY <1>3, <1>4 DEF Accepted
  <2> QED BY <1>0, <2>1 DEF IInv, JtiOK
<1> QED BY <1>0, <1>5, <1>6, <1>7, <1>8, <1>9 DEF IInv, TabInv, NotifyInv

(* The presentation is accepted.  That its jti is not claimed says that no *)
(* other post with it got this far: none is under way, and none persisted  *)
(* a code for a session that is still in the store.                        *)
LEMMA ClaimStep == ASSUME IInv, UNCHANGED config, NEW p \in Posts, Claim(p) PROVE IInv'
<1> USE NotifyAssumption, FlowAssumption
<1> DEFINE y == [post[p] EXCEPT !.phase = "claimed"]
<1>0. UNCHANGED <<CH, listeners, stream, ctx, late, creds, saved, paid, announced, overwritten, tab,
                  handler, pref, faults, payments>> /\ UNCHANGED notifyVars
  BY DEF notifyVars, config, Claim
<1>1. /\ post \in [Posts -> Post \cup {None}] /\ post[p] \in Post /\ post[p].phase = "verify"
      /\ post' = [post EXCEPT ![p] = y] /\ post[p].session \in Ids
      /\ post[p].jti \notin used /\ used' = used \cup ({post[p].jti} \ {None})
      /\ post[p].jti \in Jtis \cup {None}
  BY DEF IInv, TypeOK, Claim, At, Post
<1>2. y \in Post /\ y.phase = "claimed" /\ y.session = post[p].session /\ y.code = post[p].code
      /\ y.jti = post[p].jti
  BY <1>1 DEF Post
<1> HIDE DEF y
<1>3. post'[p] = y /\ \A q \in Posts \ {p} : post'[q] = post[q]
  BY <1>1
<1>4. TypeOK'
  BY <1>0, <1>1, <1>2, PostTypes DEF IInv, TypeOK, NotifyTypeOK
<1>5. /\ TabInv' /\ NotifyInv' /\ (\A h \in Streams : UnarmedOK(h))' /\ NoneLost'
  BY <1>0, TabFrame DEF Onwards, Born, Completed, Published
<1>6. PostOK(p) /\ ctx[post[p].session] # None /\ post[p].code = None
  BY <1>1 DEF IInv, PostOK
<1>7. \A q \in Posts : PostOK(q)'
  BY <1>0, <1>2, <1>3, <1>6 DEF IInv, PostOK
<1>8. CodesOwned' /\ PrefOK' /\ PaymentAcceptedOnce'
  BY <1>0, <1>2, <1>3, <1>6 DEF IInv, CodesOwned, PrefOK, PaymentAcceptedOnce, Born, Completed
<1>9. ASSUME NEW x \in Jtis PROVE JtiOK(x)'
  <2>1. JtiOK(x)
    BY DEF IInv
  <2>2. CASE x # post[p].jti
    <3>1. \A q \in Posts : Accepted(q, x)' => Accepted(q, x) /\ post'[q] = post[q]
      BY <1>2, <1>3, <2>2 DEF Accepted
    <3>2. x \in used => x \in used'
      BY <1>1
    <3> QED BY <1>0, <2>1, <3>1, <3>2 DEF JtiOK
  <2>3. CASE x = post[p].jti
    <3>1. x \notin used /\ x \in used'
      BY <1>1, <2>3
    <3>2. /\ \A q \in Posts : ~Accepted(q, x)
          /\ \A c \in Codes : paid[c] = x => ctx[saved[c]] = None
      BY <2>1, <3>1 DEF JtiOK
    <3>3. \A q \in Posts : Accepted(q, x)' => q = p
      BY <1>3, <3>2 DEF Accepted
    <3> QED BY <1>0, <3>1, <3>2, <3>3 DEF JtiOK
  <2> QED BY <2>2, <2>3
<1> QED BY <1>0, <1>4, <1>5, <1>7, <1>8, <1>9 DEF IInv, TabInv, NotifyInv

(* The credentials are cached under a code that nothing refers to.         *)
LEMMA CacheStep == ASSUME IInv, UNCHANGED config, NEW p \in Posts, CacheCredentials(p) PROVE IInv'
<1> USE NotifyAssumption, FlowAssumption
<1> DEFINE c == Any(FreshCodes)
           y == [post[p] EXCEPT !.phase = "cached", !.code = c]
<1>0. UNCHANGED <<CH, listeners, stream, ctx, late, used, saved, paid, announced, overwritten, tab,
                  handler, pref, faults, payments>> /\ UNCHANGED notifyVars
  BY DEF notifyVars, config, CacheCredentials
<1>a. c \in Codes /\ c \notin creds
  <2>1. c \in FreshCodes
    BY AnyIsIn DEF CacheCredentials
  <2> QED BY <2>1 DEF FreshCodes
<1>b. c \in Messages
  BY <1>a DEF Codes
<1>1. /\ post \in [Posts -> Post \cup {None}] /\ post[p] \in Post /\ post[p].phase = "claimed"
      /\ creds' = creds \cup {c} /\ post[p].session \in Ids
  BY DEF IInv, TypeOK, CacheCredentials, At, Post
<1>c. post' = [post EXCEPT ![p] = y]
  BY <1>1 DEF CacheCredentials
<1>2. y \in Post /\ y.phase = "cached" /\ y.session = post[p].session /\ y.code = c
      /\ y.jti = post[p].jti
  BY <1>1, <1>a DEF Post
<1> HIDE DEF y, c
<1>3. post'[p] = y /\ \A q \in Posts \ {p} : post'[q] = post[q]
  BY <1>1, <1>c
<1>4. TypeOK'
  BY <1>0, <1>1, <1>2, <1>a, <1>c, PostTypes DEF IInv, TypeOK, NotifyTypeOK
<1>5. /\ TabInv' /\ NotifyInv' /\ (\A h \in Streams : UnarmedOK(h))' /\ NoneLost'
  BY <1>0, <1>1, TabFrame DEF Onwards, Born, Completed, Published
<1>6. PostOK(p) /\ ctx[post[p].session] # None /\ saved[c] = None
  BY <1>1, <1>a DEF IInv, PostOK, CodesOwned
<1>7. \A q \in Posts : PostOK(q)'
  BY <1>0, <1>1, <1>2, <1>3, <1>6 DEF IInv, PostOK
<1>8. PrefOK' /\ PaymentAcceptedOnce'
  BY <1>0 DEF IInv, PrefOK, PaymentAcceptedOnce, Born, Completed
<1>9. CodesOwned'
  <2>1. \A q \in Posts : post[q] # None => post[q].code \in creds \cup {None}
    <3> SUFFICES ASSUME NEW q \in Posts, post[q] # None PROVE post[q].code \in creds \cup {None}
      OBVIOUS
    <3>1. post[q].phase \in {"verify", "claimed", "cached", "saved"}
      BY <1>1 DEF Post
    <3> QED BY <3>1 DEF IInv, PostOK
  <2>2. \A q \in Posts \ {p} : post[q] # None => post[q].code # c
    BY <1>a, <1>b, <2>1
  <2> QED BY <1>0, <1>1, <1>2, <1>3, <2>2 DEF IInv, CodesOwned, Born, Completed
<1>10. ASSUME NEW x \in Jtis PROVE JtiOK(x)'
  <2>1. JtiOK(x)
    BY DEF IInv
  <2>2. \A q \in Posts : Accepted(q, x)' <=> Accepted(q, x)
    BY <1>1, <1>2, <1>3 DEF Accepted
  <2>3. x = post[p].jti =>
          /\ Accepted(p, x)
          /\ \A d \in Codes : paid[d] = x => ctx[saved[d]] = None
    BY <1>1, <2>1 DEF Accepted, JtiOK
  <2>4. \A q \in Posts : Accepted(q, x) => post'[q] = post[q] \/ x = post[p].jti
    BY <1>3 DEF Accepted
  <2> QED BY <1>0, <2>1, <2>2, <2>3, <2>4 DEF JtiOK
<1> QED BY <1>0, <1>4, <1>5, <1>7, <1>8, <1>9, <1>10 DEF IInv, TabInv, NotifyInv

(* The completion marker: the first code persisted for a jti.              *)
LEMMA SaveStep == ASSUME IInv, UNCHANGED config, NEW p \in Posts, SaveMarker(p) PROVE IInv'
<1> USE NotifyAssumption, FlowAssumption
<1> DEFINE c == post[p].code
           s == post[p].session
           j == post[p].jti
           y == [post[p] EXCEPT !.phase = "saved"]
<1>0. UNCHANGED <<CH, listeners, stream, late, creds, used, announced, overwritten, tab,
                  handler, pref, faults, payments>> /\ UNCHANGED notifyVars
  BY DEF notifyVars, config, SaveMarker
<1>1. /\ post \in [Posts -> Post \cup {None}] /\ post[p] \in Post /\ post[p].phase = "cached"
      /\ post[p] # None /\ s \in Ids
      /\ ctx \in [Ids -> Contexts] /\ saved \in [Codes -> Ids \cup {None}] /\ creds \subseteq Codes
      /\ paid \in [Codes -> Jtis \cup {None}] /\ j \in Jtis \cup {None}
      /\ announced \subseteq Codes
  BY DEF IInv, TypeOK, SaveMarker, At, Post
<1>2. c \in creds /\ c \in Codes /\ c # None /\ saved[c] = None /\ ctx[s] # None /\ c # Pending
  BY <1>1 DEF IInv, PostOK, Codes
<1>3. /\ ctx' = [ctx EXCEPT ![s] = c] /\ saved' = [saved EXCEPT ![c] = s]
      /\ paid' = [paid EXCEPT ![c] = j]
      /\ post' = [post EXCEPT ![p] = y]
  BY DEF SaveMarker
<1>4. y \in Post /\ y.phase = "saved" /\ y.session = s /\ y.code = c /\ y.jti = j
  BY <1>1 DEF Post
<1> HIDE DEF y, c, s, j
<1>5. /\ post'[p] = y /\ \A q \in Posts \ {p} : post'[q] = post[q]
      /\ ctx'[s] = c /\ \A x \in Ids \ {s} : ctx'[x] = ctx[x]
      /\ saved'[c] = s /\ \A d \in Codes \ {c} : saved'[d] = saved[d]
      /\ paid'[c] = j /\ \A d \in Codes \ {c} : paid'[d] = paid[d]
  BY <1>1, <1>2, <1>3
<1>6. TypeOK'
  BY <1>0, <1>1, <1>2, <1>3, <1>4, PostTypes DEF IInv, TypeOK, NotifyTypeOK, Contexts
<1>7. c \notin announced
  BY <1>2 DEF IInv, CodesOwned
<1>8. /\ TabInv' /\ NotifyInv' /\ (\A h \in Streams : UnarmedOK(h))' /\ NoneLost'
  <2>1. Onwards
    BY <1>0, <1>2, <1>5 DEF Onwards, Born
  <2>2. \A x \in Ids : Completed(x) => Completed(x)'
    BY <1>2, <1>5 DEF Completed
  <2>3. \A x \in Ids : Published(x)' => Published(x)
    BY <1>0, <1>2, <1>5, <1>7 DEF Published
  <2> QED BY <1>0, <2>1, <2>2, <2>3, TabFrame
<1>9. ASSUME NEW q \in Posts PROVE PostOK(q)'
  <2>1. CASE q = p
    BY <2>1, <1>0, <1>2, <1>4, <1>5 DEF PostOK
  <2>2. CASE q # p
    <3>1. PostOK(q) /\ post'[q] = post[q]
      BY <2>2, <1>5 DEF IInv
    <3>2. CASE post[q] = None
      BY <3>1, <3>2 DEF PostOK
    <3>3. CASE post[q] # None
      <4>1. post[q].session \in Ids /\ post[q].code \in Codes \cup {None}
        BY <1>1, <3>3 DEF Post
      <4>2. post[q].code # c
        BY <1>1, <1>2, <2>2, <3>3 DEF IInv, CodesOwned, c
      <4>3. ctx'[post[q].session] # None
        BY <1>2, <1>5, <3>1, <3>3, <4>1 DEF PostOK
      <4>4. post[q].code \in Codes => saved'[post[q].code] = saved[post[q].code]
        BY <1>5, <4>2
      <4>5. post[q].phase \in {"cached", "saved"} => post[q].code \in Codes
        BY <1>1, <3>1, <3>3 DEF PostOK
      <4> QED BY <1>0, <3>1, <3>3, <4>3, <4>4, <4>5 DEF PostOK
    <3> QED BY <3>2, <3>3
  <2> QED BY <2>1, <2>2
<1>10. CodesOwned'
  <2>1. \A q \in Posts : (post'[q] = None <=> post[q] = None) /\ (post[q] # None => post'[q].code = post[q].code)
    BY <1>1, <1>4, <1>5 DEF c
  <2>2. \A x \in Ids : Completed(x)' => saved'[ctx'[x]] = x
    <3> SUFFICES ASSUME NEW x \in Ids, Completed(x)' PROVE saved'[ctx'[x]] = x
      OBVIOUS
    <3>1. CASE x = s
      BY <3>1, <1>5
    <3>2. CASE x # s
      <4>1. ctx'[x] = ctx[x] /\ Completed(x) /\ saved[ctx[x]] = x
        BY <3>2, <1>5 DEF Completed, IInv, CodesOwned
      <4>2. ctx[x] # c
        BY <4>1, <1>2
      <4> QED BY <4>1, <4>2, <1>5 DEF Completed
    <3> QED BY <3>1, <3>2
  <2>3. \A d \in Codes : saved'[d] # None => /\ d \in creds
                                             /\ ctx'[saved'[d]] # None \/ late[saved'[d]]
    <3> SUFFICES ASSUME NEW d \in Codes, saved'[d] # None
                 PROVE  d \in creds /\ (ctx'[saved'[d]] # None \/ late[saved'[d]])
      OBVIOUS
    <3>1. CASE d = c
      BY <3>1, <1>2, <1>5
    <3>2. CASE d # c
      <4>1. saved'[d] = saved[d] /\ saved[d] \in Ids
        BY <3>2, <1>1, <1>5
      <4>2. d \in creds /\ (ctx[saved[d]] # None \/ late[saved[d]])
        BY <4>1 DEF IInv, CodesOwned, Born
      <4> QED BY <4>1, <4>2, <1>2, <1>5
    <3> QED BY <3>1, <3>2
  <2>4. \A d \in announced : saved'[d] # None
    BY <1>1, <1>5, <1>7 DEF IInv, CodesOwned
  <2>5. \A q, r \in Posts :
          post'[q] # None /\ post'[r] # None /\ post'[q].code # None /\ post'[q].code = post'[r].code
          => q = r
    BY <2>1 DEF IInv, CodesOwned
  <2>6. \A d \in Codes : saved'[d] = None => paid'[d] = None
    BY <1>1, <1>5 DEF IInv, CodesOwned
  <2> QED BY <1>0, <2>2, <2>3, <2>4, <2>5, <2>6 DEF CodesOwned, Born
<1>11. PrefOK'
  <2> SUFFICES ASSUME pref # None
               PROVE  /\ pref.doc # None /\ Born(pref.session)'
                      /\ pref.doc \in Codes => /\ saved'[pref.doc] = pref.session
                                               /\ ctx'[pref.session] # Pending
    BY <1>0 DEF PrefOK
  <2>1. /\ pref.doc # None /\ Born(pref.session) /\ pref.session \in Ids
        /\ pref.doc \in Codes => /\ saved[pref.doc] = pref.session
                                 /\ ctx[pref.session] # Pending
    BY DEF IInv, PrefOK, TypeOK, Preference
  <2>2. pref.doc \in Codes => pref.doc # c
    BY <2>1, <1>2
  <2> QED BY <1>0, <1>2, <1>5, <2>1, <2>2 DEF Born
<1>12. ASSUME j # None PROVE \A d \in Codes : paid[d] = j => ctx[saved[d]] = None
  <2>1. Accepted(p, j) /\ JtiOK(j)
    BY <1>1, <1>12 DEF Accepted, IInv, j
  <2> QED BY <1>1, <2>1 DEF JtiOK
<1>13. PaymentAcceptedOnce'
  <2> SUFFICES ASSUME NEW d \in Codes, NEW e \in Codes, paid'[d] # None,
                      paid'[d] = paid'[e], saved'[d] = saved'[e]
               PROVE  d = e
    BY DEF PaymentAcceptedOnce
  <2>1. CASE d = c \/ e = c
    <3>1. \A x \in Codes : x # c /\ saved'[x] = s => paid'[x] # j \/ j = None
      BY <1>2, <1>5, <1>12
    <3> QED BY <2>1, <1>5, <3>1
  <2>2. CASE d # c /\ e # c
    BY <2>2, <1>5 DEF IInv, PaymentAcceptedOnce
  <2> QED BY <2>1, <2>2
<1>14. ASSUME NEW x \in Jtis PROVE JtiOK(x)'
  <2>1. JtiOK(x) /\ x # None
    BY DEF IInv
  <2>2. \A q \in Posts : Accepted(q, x)' <=> Accepted(q, x)
    BY <1>1, <1>4, <1>5 DEF Accepted, j
  <2>3. \A d \in Codes \ {c} : paid'[d] = x =>
          paid[d] = x /\ (ctx'[saved'[d]] = None <=> ctx[saved[d]] = None)
    <3> SUFFICES ASSUME NEW d \in Codes \ {c}, paid'[d] = x
                 PROVE  paid[d] = x /\ (ctx'[saved'[d]] = None <=> ctx[saved[d]] = None)
      OBVIOUS
    <3>1. paid[d] = x /\ saved'[d] = saved[d] /\ saved[d] \in Ids
      BY <1>1, <1>5, <2>1 DEF IInv, CodesOwned
    <3> QED BY <1>2, <1>5, <3>1
  <2>4. CASE x = j
    <3>1. Accepted(p, x)
      BY <1>1, <2>4 DEF Accepted, j
    <3>2. x \in used /\ \A q \in Posts : Accepted(q, x) => q = p
      BY <2>1, <3>1 DEF JtiOK
    <3>3. \A d \in Codes : paid'[d] = x => d = c \/ ctx'[saved'[d]] = None
      BY <1>12, <2>1, <2>3, <2>4
    <3> QED BY <1>0, <1>4, <1>5, <2>2, <3>2, <3>3 DEF JtiOK
  <2>5. CASE x # j
    <3>1. \A d \in Codes : paid'[d] = x => d # c
      BY <1>5, <2>5
    <3>2. \A q \in Posts : Accepted(q, x) => post'[q] = post[q]
      BY <1>5, <2>5 DEF Accepted, j
    <3> QED BY <1>0, <2>1, <2>2, <2>3, <3>1, <3>2 DEF JtiOK
  <2> QED BY <2>4, <2>5
<1> QED BY <1>0, <1>6, <1>8, <1>9, <1>10, <1>11, <1>13, <1>14 DEF IInv, TabInv, NotifyInv

(* The code is published: every group of the session then has a message.   *)
LEMMA AnnounceStep == ASSUME IInv, UNCHANGED config, NEW p \in Posts, Announce(p) PROVE IInv'
<1> USE NotifyAssumption, FlowAssumption
<1>0. UNCHANGED <<ctx, late, creds, used, saved, paid, overwritten, tab, handler, pref, faults, payments>>
  BY DEF config, Announce
<1>a. /\ post \in [Posts -> Post \cup {None}] /\ post[p] # None /\ post[p].phase = "saved"
      /\ post[p].session \in Ids /\ creds \subseteq Codes /\ announced \subseteq Codes
  BY DEF IInv, TypeOK, Announce, At, Post
<1>b. /\ post[p].code \in creds /\ post[p].code \in Messages
      /\ saved[post[p].code] = post[p].session
  BY <1>a DEF IInv, PostOK, Codes
<1>c. PICK s \in Ids, c \in Messages : s = post[p].session /\ c = post[p].code
  BY <1>a, <1>b
<1>1. /\ creds \subseteq Codes /\ announced \subseteq Codes
      /\ post' = [post EXCEPT ![p] = None] /\ announced' = announced \cup {c} /\ Submit(s, c)
  BY <1>a, <1>c DEF Announce, PostEnds, Submit
<1>2. c \in creds /\ saved[c] = s
  BY <1>b, <1>c
<1>3. post'[p] = None /\ \A q \in Posts \ {p} : post'[q] = post[q]
  BY <1>1, <1>a
<1>n. NotifyInv
  BY DEF IInv, TypeOK, NotifyInv
<1>4. /\ NotifyInv'
      /\ \A h \in Streams : /\ stream[h] = None <=> stream'[h] = None
                            /\ stream[h] # None => /\ stream'[h].phase = stream[h].phase
                                                   /\ stream'[h].id = stream[h].id
  <2>1. NotifyInv' /\ StreamsStay
    BY <1>n, <1>1, DeliverKeeps
  <2> QED BY <2>1 DEF StreamsStay
<1>5. TypeOK'
  BY <1>0, <1>1, <1>2, <1>4, PostTypes DEF IInv, TypeOK, NotifyInv, Codes
<1>6. \A q \in Posts : PostOK(q)'
  BY <1>0, <1>3 DEF IInv, PostOK
<1>7. CodesOwned' /\ PrefOK' /\ PaymentAcceptedOnce'
  BY <1>0, <1>1, <1>2, <1>3 DEF IInv, CodesOwned, PrefOK, PaymentAcceptedOnce, Born, Completed
<1>8. ASSUME NEW x \in Jtis PROVE JtiOK(x)'
  <2>1. \A q \in Posts : Accepted(q, x)' => Accepted(q, x) /\ post'[q] = post[q]
    BY <1>3 DEF Accepted
  <2> QED BY <1>0, <2>1 DEF IInv, JtiOK
<1>9. /\ CH \in [Ids -> Group \cup {None}] /\ stream \in [Streams -> Stream \cup {None}]
      /\ \A x \in Ids \ {s} : CH'[x] = CH[x]
      /\ CH[s] # None => CH'[s] # None /\ CH'[s].buf = Offer(CH[s].buf, c)
      /\ CH[s] = None => CH'[s] = None
  <2>1. CH \in [Ids -> Group \cup {None}] /\ stream \in [Streams -> Stream \cup {None}]
    BY <1>n DEF NotifyInv, NotifyTypeOK
  <2>2. CH' = [CH EXCEPT ![s] = IF CH[s] = None THEN None
                                ELSE [members |-> CH[s].members, buf |-> Offer(CH[s].buf, c)]]
    BY <1>1 DEF Submit
  <2>3. CH[s] # None => [members |-> CH[s].members, buf |-> Offer(CH[s].buf, c)] \in Group
    BY <2>1, <1>1, <1>2 DEF Group, Slot, Offer
  <2> QED BY <1>1, <2>1, <2>2, <2>3
<1>10. \A h \in Streams : stream[h] # None => /\ stream'[h].chan = stream[h].chan
                                              /\ stream'[h].sub \in {stream[h].sub, c}
  <2>1. stream' = [h \in Streams |-> IF InPhase(h, "subscribed") /\ stream[h].id = s
                                     THEN [stream[h] EXCEPT !.sub = Offer(@, c)]
                                     ELSE stream[h]]
    BY <1>1 DEF Submit
  <2>2. \A x \in Stream : LET z == [x EXCEPT !.sub = Offer(@, c)]
                          IN z.chan = x.chan /\ z.sub \in {x.sub, c}
    BY DEF Stream, Offer
  <2> QED BY <1>9, <2>1, <2>2
<1>11. MessagesCached'
  <2>1. \A i \in Ids : CH'[i] # None => CH'[i].buf \in creds \cup {None}
    BY <1>2, <1>9 DEF IInv, MessagesCached, Offer
  <2>2. \A h \in Streams : stream'[h] # None => /\ stream'[h].chan \in creds \cup {None}
                                                /\ stream'[h].sub \in creds \cup {None}
    BY <1>2, <1>4, <1>10 DEF IInv, MessagesCached
  <2> QED BY <1>0, <2>1, <2>2 DEF IInv, MessagesCached
<1>12. \A t \in Tabs : TabOK(t)'
  BY <1>0 DEF IInv, TabOK, Born
<1>13. \A h \in Streams : HandlerOK(h)'
  BY <1>0, <1>4 DEF IInv, HandlerOK
<1>14. \A h \in Streams : UnarmedOK(h)'
  BY <1>0 DEF IInv, UnarmedOK, Completed
<1>15. NoneLost'
  <2> SUFFICES ASSUME NEW h \in Streams, handler[h].tab # None,
                      tab[handler[h].tab].phase = "watching", \/ ctx[stream'[h].id] \in announced'
                      \/ /\ pref # None /\ pref.session = stream'[h].id
                         /\ pref.doc \in announced' /\ ctx[stream'[h].id] # None
               PROVE  stream'[h].chan # None \/ (CH'[stream'[h].id] # None /\ CH'[stream'[h].id].buf # None)
    BY <1>0 DEF NoneLost, MessageWaits, Published
  <2>1. /\ stream[h] # None /\ stream[h].phase = "open" /\ stream[h].id \in Ids
        /\ stream'[h].id = stream[h].id
    BY <1>4, <1>9 DEF IInv, HandlerOK, Stream
  <2>2. CASE stream[h].id = s
    <3>1. h \in Of(s, {"open", "closing"})
      BY <2>1, <2>2 DEF Of
    <3>2. CH[s] # None
      BY <1>1, <1>n, <3>1, CountedStreams
    <3>3. CH'[s].buf # None
      BY <1>2, <1>9, <3>2 DEF Offer
    <3> QED BY <1>9, <2>1, <2>2, <3>2, <3>3
  <2>3. CASE stream[h].id # s
    <3>1. ctx[stream[h].id] # c
      BY <1>2, <2>1, <2>3 DEF IInv, CodesOwned, Completed, Codes
    <3>2. pref # None /\ pref.session = stream[h].id => pref.doc # c
      BY <1>2, <2>3 DEF IInv, PrefOK, Codes
    <3>3. Published(stream[h].id)
      BY <1>0, <1>1, <2>1, <3>1, <3>2 DEF Published
    <3>4. MessageWaits(h, stream[h].id)
      BY <3>3 DEF IInv, NoneLost
    <3> QED BY <1>9, <1>10, <2>1, <2>3, <3>4 DEF MessageWaits
  <2> QED BY <2>2, <2>3
<1> QED BY <1>0, <1>4, <1>5, <1>6, <1>7, <1>8, <1>11, <1>12, <1>13, <1>14, <1>15 DEF IInv, NotifyInv

-----------------------------------------------------------------------------
(* The preference update, time and eviction.                               *)

(* The document is read.                                                   *)
LEMMA ReadPreferenceStep ==
  ASSUME IInv, UNCHANGED config, NEW s \in Ids, ReadPreference(s)
  PROVE  IInv'
<1> USE NotifyAssumption, FlowAssumption
<1> DEFINE r == [session |-> s, doc |-> ctx[s]]
<1>0. UNCHANGED <<CH, listeners, stream, ctx, late, creds, used, saved, paid, announced, overwritten, post,
                  tab, handler, faults, backend, payments>> /\ UNCHANGED notifyVars
  BY DEF notifyVars, config, ReadPreference
<1>1. pref = None /\ ctx[s] # None /\ pref' = r /\ ctx[s] \in Contexts
  BY DEF ReadPreference, IInv, TypeOK
<1>2. r \in Preference /\ r.session = s /\ r.doc = ctx[s]
  BY <1>1 DEF Preference
<1> HIDE DEF r
<1>3. TypeOK'
  BY <1>0, <1>1, <1>2 DEF IInv, TypeOK, NotifyTypeOK
<1>4. \A x \in Ids : Published(x)' => Published(x)
  BY <1>0, <1>1, <1>2 DEF Published
<1>5. /\ TabInv' /\ NotifyInv' /\ (\A h \in Streams : UnarmedOK(h))' /\ NoneLost'
  BY <1>0, <1>4, TabFrame DEF Onwards, Born, Completed
<1>6. PrefOK'
  BY <1>0, <1>1, <1>2 DEF IInv, PrefOK, CodesOwned, Born, Completed
<1>7. (\A p \in Posts : PostOK(p)') /\ CodesOwned' /\ PaymentAcceptedOnce'
  BY <1>0 DEF IInv, PostOK, CodesOwned, PaymentAcceptedOnce, Born, Completed
<1>8. \A x \in Jtis : JtiOK(x)'
  BY <1>0 DEF IInv, JtiOK, Accepted
<1> QED BY <1>0, <1>3, <1>5, <1>6, <1>7, <1>8 DEF IInv, TabInv, NotifyInv

(* Steps that move sessions on: what is left to show of the store when     *)
(* only ctx, late, pref and overwritten change.                            *)
LEMMA SessionKeeps ==
  ASSUME IInv, UNCHANGED config, TypeOK', Onwards, PrefOK',
         UNCHANGED <<creds, used, saved, paid, announced, post>>,
         \A p \in Posts : post[p] # None => ctx'[post[p].session] # None,
         \A s \in Ids : Completed(s)' => saved[ctx'[s]] = s
  PROVE  StoreInv'
<1> USE FlowAssumption
<1>0. UNCHANGED <<creds, used, saved, paid, announced, post, payments>>
  BY DEF config
<1>1. \A p \in Posts : PostOK(p)'
  BY <1>0 DEF IInv, PostOK
<1>2. CodesOwned'
  <2>1. \A c \in Codes : saved[c] # None => saved[c] \in Ids
    BY DEF IInv, TypeOK
  <2> QED BY <1>0, <2>1 DEF IInv, CodesOwned, Onwards, Born
<1>3. ASSUME NEW j \in Jtis PROVE JtiOK(j)'
  <2>1. JtiOK(j)
    BY DEF IInv
  <2>2. \A p \in Posts : Accepted(p, j)' <=> Accepted(p, j)
    BY <1>0 DEF Accepted
  <2>3. \A c \in Codes : paid[c] = j => saved[c] \in Ids /\ Born(saved[c])
    BY DEF IInv, CodesOwned, TypeOK
  <2>4. \A c \in Codes : paid[c] = j /\ ctx[saved[c]] = None => ctx'[saved[c]] = None
    BY <2>3 DEF Onwards
  <2> QED BY <1>0, <2>1, <2>2, <2>4 DEF JtiOK
<1>4. PaymentAcceptedOnce'
  BY <1>0 DEF IInv, PaymentAcceptedOnce
<1> QED BY <1>0, <1>1, <1>2, <1>3, <1>4 DEF StoreInv

(* The document that was read is written over what is there now.           *)
LEMMA UpdatePreferenceStep ==
  ASSUME IInv, UNCHANGED config, UpdatePreference
  PROVE  IInv'
<1> USE NotifyAssumption, FlowAssumption
<1>0. UNCHANGED <<CH, listeners, stream, late, creds, used, saved, paid, announced, post,
                  tab, handler, faults, backend, payments>> /\ UNCHANGED notifyVars
  BY DEF notifyVars, config, UpdatePreference
<1>1. PICK s \in Ids, d \in Contexts : s = pref.session /\ d = pref.doc
  BY DEF UpdatePreference, IInv, TypeOK, Preference
<1>2. /\ pref # None /\ pref' = None
      /\ d # None /\ Born(s) /\ (d \in Codes => saved[d] = s /\ ctx[s] # Pending)
  BY <1>1 DEF UpdatePreference, IInv, PrefOK
<1>3. /\ ctx \in [Ids -> Contexts]
      /\ ctx' = IF ctx[s] = None THEN ctx ELSE [ctx EXCEPT ![s] = d]
      /\ overwritten' = overwritten \cup {x \in {s} : Completed(x) /\ d = Pending}
  BY <1>1 DEF UpdatePreference, IInv, TypeOK
<1>4. /\ ctx'[s] = IF ctx[s] = None THEN None ELSE d
      /\ \A x \in Ids \ {s} : ctx'[x] = ctx[x]
      /\ ctx' \in [Ids -> Contexts]
  BY <1>3
<1>5. TypeOK'
  BY <1>0, <1>2, <1>3, <1>4 DEF IInv, TypeOK, NotifyTypeOK
<1>6. Onwards
  BY <1>0, <1>2, <1>3, <1>4 DEF Onwards, Born
<1>7. \A x \in Ids : Completed(x) => Completed(x)' \/ ctx'[x] = None \/ x \in overwritten'
  BY <1>2, <1>3, <1>4 DEF Completed, Contexts
<1>8. \A x \in Ids : Published(x)' => Published(x)
  <2>1. announced \subseteq Codes
    BY DEF IInv, TypeOK
  <2> QED BY <1>0, <1>1, <1>2, <1>4, <2>1 DEF Published
<1>9. /\ TabInv' /\ NotifyInv' /\ (\A h \in Streams : UnarmedOK(h))' /\ NoneLost'
  BY <1>0, <1>6, <1>7, <1>8, TabFrame
<1>10. \A p \in Posts : post[p] # None => ctx'[post[p].session] # None
  <2>1. \A p \in Posts : post[p] # None => ctx[post[p].session] # None /\ post[p].session \in Ids
    BY DEF IInv, PostOK, TypeOK, Post
  <2> QED BY <1>2, <1>4, <2>1
<1>11. \A x \in Ids : Completed(x)' => saved[ctx'[x]] = x
  BY <1>2, <1>4 DEF IInv, CodesOwned, Completed, Codes
<1>12. PrefOK'
  BY <1>2 DEF PrefOK
<1>13. StoreInv'
  BY <1>0, <1>5, <1>6, <1>10, <1>11, <1>12, SessionKeeps
<1> QED BY <1>5, <1>9, <1>13 DEF IInv, TabInv, NotifyInv, StoreInv

(* A deadline passes, and a session is dropped that no post is about.      *)
LEMMA TimeStep ==
  ASSUME IInv, UNCHANGED config, NEW s \in Ids, DeadlinePasses(s) \/ Evict(s)
  PROVE  IInv'
<1> USE NotifyAssumption, FlowAssumption
<1>0. UNCHANGED <<CH, listeners, stream, creds, used, saved, paid, announced, overwritten, post,
                  tab, handler, pref, faults, backend, payments>> /\ UNCHANGED notifyVars
  BY DEF notifyVars, config, DeadlinePasses, Evict
<1>1. ctx \in [Ids -> Contexts] /\ late \in [Ids -> BOOLEAN] /\ announced \subseteq Codes
  BY DEF IInv, TypeOK
<1>2. /\ \A x \in Ids \ {s} : ctx'[x] = ctx[x] /\ late'[x] = late[x]
      /\ ctx'[s] \in {ctx[s], None} /\ late'[s] /\ ctx[s] # None
      /\ ctx' \in [Ids -> Contexts] /\ late' \in [Ids -> BOOLEAN]
  <2>1. CASE DeadlinePasses(s)
    BY <1>1, <2>1 DEF DeadlinePasses
  <2>2. CASE Evict(s)
    BY <1>1, <2>2 DEF Evict, Contexts
  <2> QED BY <2>1, <2>2
<1>3. TypeOK'
  BY <1>0, <1>2 DEF IInv, TypeOK, NotifyTypeOK
<1>4. Onwards
  <2>1. \A x \in Ids : Born(x) => Born(x)'
    BY <1>2 DEF Born
  <2>2. \A x \in Ids : ctx[x] = None => ctx'[x] = None
    BY <1>2
  <2> QED BY <1>0, <2>1, <2>2 DEF Onwards
<1>5. \A x \in Ids : Completed(x) => Completed(x)' \/ ctx'[x] = None
  BY <1>2 DEF Completed
<1>6. \A x \in Ids : Published(x)' => Published(x)
  BY <1>0, <1>1, <1>2 DEF Published, Codes
<1>7. /\ TabInv' /\ NotifyInv' /\ (\A h \in Streams : UnarmedOK(h))' /\ NoneLost'
  BY <1>0, <1>4, <1>5, <1>6, TabFrame
<1>8. \A p \in Posts : post[p] # None => ctx'[post[p].session] # None
  <2>1. \A p \in Posts : post[p] # None => ctx[post[p].session] # None /\ post[p].session \in Ids
    BY DEF IInv, PostOK, TypeOK, Post
  <2>2. CASE DeadlinePasses(s)
    BY <2>1, <2>2 DEF DeadlinePasses
  <2>3. CASE Evict(s)
    BY <1>2, <2>1, <2>3 DEF Evict
  <2> QED BY <2>2, <2>3
<1>9. \A x \in Ids : Completed(x)' => saved[ctx'[x]] = x
  BY <1>2 DEF IInv, CodesOwned, Completed, Codes
<1>10. PrefOK'
  <2>1. pref # None => pref.session \in Ids
    BY DEF IInv, TypeOK, Preference
  <2> QED BY <1>0, <1>2, <2>1 DEF IInv, PrefOK, Born
<1>11. StoreInv'
  BY <1>0, <1>3, <1>4, <1>8, <1>9, <1>10, SessionKeeps
<1> QED BY <1>3, <1>7, <1>11 DEF IInv, TabInv, NotifyInv, StoreInv

-----------------------------------------------------------------------------
(* The page.                                                               *)

(* The handler of a stream with a client knows the session of its tab.     *)
LEMMA Attachment ==
  ASSUME IInv, NEW h \in Streams, handler[h].tab # None
  PROVE  /\ handler[h].tab \in Tabs /\ stream[h] \in Stream /\ stream[h] # None
         /\ stream[h].id \in Ids /\ stream[h].id = tab[handler[h].tab].sid /\ Born(stream[h].id)
         /\ tab[handler[h].tab].phase \in {"connecting", "watching", "unchecked"}
<1> USE FlowAssumption
<1>1. handler[h].tab \in Tabs /\ stream \in [Streams -> Stream \cup {None}]
  BY DEF IInv, TypeOK, NotifyTypeOK
<1>2. /\ stream[h] \in Stream /\ stream[h] # None /\ stream[h].id = tab[handler[h].tab].sid
      /\ tab[handler[h].tab].phase \in {"connecting", "watching", "unchecked"}
  BY <1>1 DEF IInv, HandlerOK
<1>3. stream[h].id \in Ids
  BY <1>2 DEF Stream
<1> QED BY <1>1, <1>2, <1>3 DEF IInv, TabOK

(* A tab without a stream, or one that leaves its stream, moves on.        *)
LEMMA LeaveKeeps ==
  ASSUME IInv, NEW t \in Tabs, NEW r \in Tab, tab' = [tab EXCEPT ![t] = r],
         UNCHANGED notifyVars, Onwards, TabOK(t)', r.code \in creds \cup {None},
         \A h \in Streams : /\ handler[h].tab = t => handler'[h].tab = None
                            /\ handler[h].tab # t => handler'[h] = handler[h],
         \A s \in Ids : Completed(s) => Completed(s)' \/ ctx'[s] = None \/ s \in overwritten',
         \A s \in Ids : Born(s) /\ Published(s)' => Published(s)
  PROVE  TabInv' /\ NotifyInv' /\ (\A h \in Streams : UnarmedOK(h))' /\ NoneLost'
<1> USE NotifyAssumption, FlowAssumption
<1>1. UNCHANGED <<CH, listeners, stream>>
  BY DEF notifyVars
<1>2. tab \in [Tabs -> Tab]
  BY DEF IInv, TypeOK
<1>3. tab'[t] = r /\ \A u \in Tabs \ {t} : tab'[u] = tab[u]
  BY <1>2
<1>4. NotifyInv'
  BY <1>1, NotifyStutter DEF IInv, TypeOK, NotifyInv
<1>5. ASSUME NEW u \in Tabs PROVE TabOK(u)'
  <2>1. CASE u # t
    <3>1. tab[u].sid \in Ids \cup {None} /\ tab'[u] = tab[u] /\ TabOK(u)
      BY <1>2, <1>3, <2>1 DEF Tab, IInv
    <3> QED BY <3>1 DEF TabOK, Onwards
  <2> QED BY <2>1
<1>6. MessagesCached'
  BY <1>1, <1>3 DEF IInv, MessagesCached, Onwards
<1>7. \A h \in Streams : handler'[h].tab # None =>
        handler'[h] = handler[h] /\ handler[h].tab \in Tabs \ {t}
                                /\ tab'[handler[h].tab] = tab[handler[h].tab]
  BY <1>3, Attachment
<1>8. ASSUME NEW h \in Streams PROVE HandlerOK(h)'
  <2> SUFFICES ASSUME handler'[h].tab # None PROVE HandlerOK(h)'
    BY DEF HandlerOK
  <2>1. handler'[h] = handler[h] /\ tab'[handler[h].tab] = tab[handler[h].tab] /\ HandlerOK(h)
    BY <1>7 DEF IInv
  <2>2. \A g \in Streams : handler'[g].tab = handler[h].tab => handler[g].tab = handler[h].tab
    BY <1>7, <2>1
  <2> QED BY <1>1, <2>1, <2>2 DEF HandlerOK
<1>9. ASSUME NEW h \in Streams PROVE UnarmedOK(h)'
  <2> SUFFICES ASSUME handler'[h].tab # None PROVE UnarmedOK(h)'
    BY DEF UnarmedOK
  <2>1. handler'[h] = handler[h] /\ tab'[handler[h].tab] = tab[handler[h].tab] /\ UnarmedOK(h)
    BY <1>7 DEF IInv
  <2>2. tab[handler[h].tab].sid \in Ids /\ Born(tab[handler[h].tab].sid)
    BY <2>1, Attachment
  <2> QED BY <2>1, <2>2 DEF UnarmedOK, Onwards
<1>10. NoneLost'
  <2> SUFFICES ASSUME NEW h \in Streams, handler'[h].tab # None,
                      tab'[handler'[h].tab].phase = "watching", Published(stream[h].id)'
               PROVE  MessageWaits(h, stream[h].id)'
    BY <1>1 DEF NoneLost
  <2>1. handler'[h] = handler[h] /\ tab[handler[h].tab].phase = "watching"
    BY <1>7
  <2>2. stream[h].id \in Ids /\ Born(stream[h].id)
    BY <2>1, Attachment
  <2>3. Published(stream[h].id)
    BY <1>1, <2>2
  <2>4. MessageWaits(h, stream[h].id)
    BY <2>1, <2>3 DEF IInv, NoneLost
  <2> QED BY <1>1, <2>4 DEF MessageWaits
<1> QED BY <1>4, <1>5, <1>6, <1>8, <1>9, <1>10 DEF TabInv

(* The same, when the store is left alone.                                 *)
LEMMA PageKeeps ==
  ASSUME IInv, UNCHANGED config, NEW t \in Tabs, NEW r \in Tab, tab' = [tab EXCEPT ![t] = r],
         UNCHANGED notifyVars, UNCHANGED storeVars, TabOK(t)', r.code \in creds \cup {None},
         faults' \in 0..MaxFaults,
         \/ Leave(t)
         \/ UNCHANGED handler /\ tab[t].phase \notin {"connecting", "watching", "unchecked"}
  PROVE  IInv'
<1> USE NotifyAssumption, FlowAssumption
<1>0. UNCHANGED <<CH, listeners, stream, ctx, late, creds, used, saved, paid, announced, overwritten, post,
                  pref, backend, payments>>
  BY DEF notifyVars, config, storeVars
<1>1. handler \in [Streams -> [tab : Tabs \cup {None}, armed : BOOLEAN]]
  BY DEF IInv, TypeOK
<1>2. /\ handler' \in [Streams -> [tab : Tabs \cup {None}, armed : BOOLEAN]]
      /\ \A h \in Streams : /\ handler[h].tab = t => handler'[h].tab = None
                            /\ handler[h].tab # t => handler'[h] = handler[h]
  <2>1. CASE Leave(t)
    <3>1. \A x \in [tab : Tabs \cup {None}, armed : BOOLEAN] :
            /\ [x EXCEPT !.tab = None] \in [tab : Tabs \cup {None}, armed : BOOLEAN]
            /\ [x EXCEPT !.tab = None].tab = None
      OBVIOUS
    <3> QED BY <1>1, <2>1, <3>1 DEF Leave, Attached
  <2>2. CASE UNCHANGED handler /\ tab[t].phase \notin {"connecting", "watching", "unchecked"}
    <3>1. \A h \in Streams : handler[h].tab # t
      BY <2>2, Attachment
    <3> QED BY <1>1, <2>2, <3>1
  <2> QED BY <2>1, <2>2
<1>3. TypeOK'
  BY <1>0, <1>2 DEF IInv, TypeOK, NotifyTypeOK
<1>4. TabInv' /\ NotifyInv' /\ (\A h \in Streams : UnarmedOK(h))' /\ NoneLost'
  <2>1. Onwards
    BY <1>0 DEF Onwards, Born
  <2>2. \A s \in Ids : Completed(s) => Completed(s)'
    BY <1>0 DEF Completed
  <2>3. \A s \in Ids : Published(s)' => Published(s)
    BY <1>0 DEF Published
  <2> QED BY <1>2, <2>1, <2>2, <2>3, LeaveKeeps
<1>5. StoreInv'
  BY StoreFrame
<1> QED BY <1>3, <1>4, <1>5 DEF IInv, TabInv, NotifyInv, StoreInv

(* A tab moves to another phase and stores what it stored.                 *)
LEMMA PhaseKeeps ==
  ASSUME IInv, UNCHANGED config, NEW t \in Tabs,
         NEW ph \in {"menu", "reload", "ready", "load", "done", "told", "refused"},
         tab' = [tab EXCEPT ![t].phase = ph],
         UNCHANGED notifyVars, UNCHANGED storeVars, faults' \in 0..MaxFaults,
         ph \in {"load", "done"} <=> tab[t].code # None,
         ph \in {"ready", "reload", "told", "refused"} => tab[t].sid # None,
         \/ Leave(t)
         \/ UNCHANGED handler /\ tab[t].phase \notin {"connecting", "watching", "unchecked"}
  PROVE  IInv'
<1> DEFINE r == [tab[t] EXCEPT !.phase = ph]
<1>1. tab \in [Tabs -> Tab] /\ tab[t] \in Tab
  BY DEF IInv, TypeOK
<1>2. r \in Tab /\ r.phase = ph /\ r.sid = tab[t].sid /\ r.code = tab[t].code
  BY <1>1 DEF Tab
<1>3. tab' = [tab EXCEPT ![t] = r]
  OBVIOUS
<1> HIDE DEF r
<1>4. tab'[t] = r
  BY <1>1, <1>3
<1>5. tab[t].code \in creds \cup {None}
  BY DEF IInv, MessagesCached
<1>6. UNCHANGED <<ctx, late>>
  BY DEF storeVars
<1>7. TabOK(t)'
  BY <1>2, <1>4, <1>6 DEF IInv, TabOK, OnQR, Born
<1> QED BY <1>2, <1>3, <1>5, <1>7, PageKeeps

(* A tab forgets its session: it has a code, or nothing.                   *)
LEMMA ForgetKeeps ==
  ASSUME IInv, UNCHANGED config, NEW t \in Tabs, NEW ph \in {"menu", "load", "gone"},
         NEW c \in creds \cup {None}, ph = "load" <=> c # None,
         tab' = [tab EXCEPT ![t] = [phase |-> ph, sid |-> None, code |-> c]],
         UNCHANGED notifyVars, UNCHANGED storeVars, faults' \in 0..MaxFaults,
         \/ Leave(t)
         \/ UNCHANGED handler /\ tab[t].phase \notin {"connecting", "watching", "unchecked"}
  PROVE  IInv'
<1> DEFINE r == [phase |-> ph, sid |-> None, code |-> c]
<1>1. tab \in [Tabs -> Tab] /\ creds \subseteq Codes
  BY DEF IInv, TypeOK
<1>2. r \in Tab /\ r.phase = ph /\ r.sid = None /\ r.code = c
  BY <1>1 DEF Tab
<1>3. tab' = [tab EXCEPT ![t] = r]
  OBVIOUS
<1> HIDE DEF r
<1>4. tab'[t] = r
  BY <1>1, <1>3
<1>5. TabOK(t)'
  BY <1>2, <1>4 DEF TabOK, OnQR
<1> QED BY <1>2, <1>3, <1>5, PageKeeps

(* The code in the store stands for cached credentials.                    *)
LEMMA StoredCode == ASSUME IInv, NEW s \in Ids, Completed(s) PROVE ctx[s] \in creds /\ ctx[s] # None
BY NotifyAssumption, FlowAssumption DEF IInv, CodesOwned, Completed, Codes

(* Steps of a tab that has no stream.                                      *)
LEMMA PageSteps ==
  ASSUME IInv, UNCHANGED config, NEW t \in Tabs,
         \/ Rejoin(t) \/ Refuse(t) \/ Resume(t) \/ ResumeFails(t) \/ LoadResult(t) \/ BackToMenu(t)
  PROVE  IInv'
<1> USE NotifyAssumption, FlowAssumption
<1>1. /\ UNCHANGED notifyVars /\ UNCHANGED storeVars /\ UNCHANGED handler
      /\ tab[t].phase \in {"menu", "ready", "reload", "load", "done", "gone", "told"}
  BY DEF Rejoin, Refuse, Resume, ResumeFails, LoadResult, BackToMenu, storeVars
<1>2. faults' \in 0..MaxFaults
  BY DEF Rejoin, Refuse, Resume, ResumeFails, LoadResult, BackToMenu, Failure, IInv, TypeOK
<1>3. TabOK(t) /\ tab \in [Tabs -> Tab] /\ tab[t].sid \in Ids \cup {None}
  BY DEF IInv, TypeOK, Tab
<1>4. CASE Rejoin(t)
  BY <1>1, <1>2, <1>3, <1>4, PhaseKeeps DEF Rejoin, Reusable, TabOK
<1>5. CASE Refuse(t)
  BY <1>1, <1>2, <1>3, <1>5, PhaseKeeps DEF Refuse, TabOK, OnQR
<1>6. CASE ResumeFails(t)
  BY <1>1, <1>2, <1>3, <1>6, PhaseKeeps DEF ResumeFails, TabOK
<1>7. CASE LoadResult(t)
  <2>1. CASE tab' = [tab EXCEPT ![t].phase = "done"]
    BY <1>1, <1>2, <1>3, <1>7, <2>1, PhaseKeeps DEF LoadResult, TabOK
  <2>2. CASE tab' = [tab EXCEPT ![t] = [phase |-> "gone", sid |-> None, code |-> None]]
    BY <1>1, <1>2, <2>2, ForgetKeeps
  <2> QED BY <1>7, <2>1, <2>2 DEF LoadResult
<1>8. CASE BackToMenu(t)
  <2>1. tab' = [tab EXCEPT ![t] = [phase |-> "menu", sid |-> None, code |-> None]]
    BY <1>8 DEF BackToMenu, Menu
  <2> QED BY <1>1, <1>2, <2>1, ForgetKeeps
<1>9. CASE Resume(t)
  <2>1. tab[t].phase = "reload" /\ tab[t].sid \in Ids /\ tab[t].code = None
    BY <1>3, <1>9 DEF Resume, TabOK
  <2>2. PICK s \in Ids : s = tab[t].sid
    BY <2>1
  <2>3. tab' = [tab EXCEPT ![t] =
                  IF Completed(s) THEN [phase |-> "load", sid |-> None, code |-> ctx[s]]
                  ELSE IF ctx[s] = Pending /\ ~late[s] THEN [tab[t] EXCEPT !.phase = "ready"]
                  ELSE [phase |-> "menu", sid |-> None, code |-> None]]
    BY <1>9, <2>2 DEF Resume, Menu
  <2>4. CASE Completed(s)
    <3>1. PICK c \in creds : c = ctx[s] /\ c # None
      BY <2>4, StoredCode
    <3>2. tab' = [tab EXCEPT ![t] = [phase |-> "load", sid |-> None, code |-> c]]
      BY <2>3, <2>4, <3>1
    <3> QED BY <1>1, <1>2, <3>1, <3>2, ForgetKeeps
  <2>5. CASE ~Completed(s) /\ ctx[s] = Pending /\ ~late[s]
    <3>1. tab' = [tab EXCEPT ![t].phase = "ready"]
      BY <2>3, <2>5
    <3> QED BY <1>1, <1>2, <2>1, <3>1, PhaseKeeps
  <2>6. CASE ~Completed(s) /\ ~(ctx[s] = Pending /\ ~late[s])
    <3>1. tab' = [tab EXCEPT ![t] = [phase |-> "menu", sid |-> None, code |-> None]]
      BY <2>3, <2>6
    <3> QED BY <1>1, <1>2, <3>1, ForgetKeeps
  <2> QED BY <2>4, <2>5, <2>6
<1> QED BY <1>4, <1>5, <1>6, <1>7, <1>8, <1>9

(* Steps in which a tab leaves its stream, for a result or to come back.   *)
LEMMA LeaveSteps ==
  ASSUME IInv, UNCHANGED config, NEW t \in Tabs,
         \/ Reload(t)
         \/ \E h \in Streams : \/ ReceiveMessage(t, h) \/ ReceiveExpired(t, h) \/ Disconnect(t, h)
                               \/ Reconcile(t, h) /\ Completed(tab[t].sid)
  PROVE  IInv'
<1> USE NotifyAssumption, FlowAssumption
<1>1. UNCHANGED notifyVars /\ UNCHANGED storeVars /\ Leave(t)
  BY DEF Reload, ReceiveMessage, ReceiveExpired, Disconnect, Reconcile, storeVars
<1>2. faults' \in 0..MaxFaults
  BY DEF Reload, ReceiveMessage, ReceiveExpired, Disconnect, Reconcile, Failure, IInv, TypeOK
<1>3. TabOK(t) /\ tab \in [Tabs -> Tab] /\ tab[t].sid \in Ids \cup {None}
  BY DEF IInv, TypeOK, Tab
<1>4. CASE Reload(t)
  <2>1. PICK ph \in {"load", "reload"} : ph = IF tab[t].code # None THEN "load" ELSE "reload"
    OBVIOUS
  <2>2. tab' = [tab EXCEPT ![t].phase = ph] /\ tab[t].phase \in OnQR \cup {"refused", "done"}
    BY <1>4, <2>1 DEF Reload
  <2>3. ph = "reload" => tab[t].sid # None
    BY <1>3, <2>1, <2>2 DEF TabOK
  <2> QED BY <1>1, <1>2, <2>1, <2>2, <2>3, PhaseKeeps
<1>5. ASSUME NEW h \in Streams, handler[h].tab = t
      PROVE  stream[h] # None /\ tab[t].sid \in Ids /\ tab[t].code = None
  <2>1. tab[t].phase \in {"connecting", "watching", "unchecked"} /\ stream[h] # None
    BY <1>5, Attachment
  <2> QED BY <1>3, <2>1 DEF TabOK, OnQR
<1>6. ASSUME NEW h \in Streams, ReceiveMessage(t, h) PROVE IInv'
  <2>1. handler[h].tab = t /\ stream[h].chan # None
    BY <1>6 DEF ReceiveMessage, OnStream, Attached
  <2>2. stream[h].chan \in creds
    BY <1>5, <2>1 DEF IInv, MessagesCached
  <2>3. PICK c \in creds : c = stream[h].chan
    BY <2>2
  <2>4. tab' = [tab EXCEPT ![t] = [phase |-> "load", sid |-> None, code |-> c]]
    BY <1>6, <2>3 DEF ReceiveMessage
  <2> QED BY <1>1, <1>2, <2>1, <2>3, <2>4, ForgetKeeps
<1>7. ASSUME NEW h \in Streams, ReceiveExpired(t, h) PROVE IInv'
  <2>1. handler[h].tab = t /\ tab' = [tab EXCEPT ![t].phase = "told"]
    BY <1>7 DEF ReceiveExpired, OnStream, Attached
  <2> QED BY <1>1, <1>2, <1>5, <2>1, PhaseKeeps
<1>8. ASSUME NEW h \in Streams, Disconnect(t, h) PROVE IInv'
  <2>1. handler[h].tab = t /\ tab' = [tab EXCEPT ![t].phase = "ready"]
    BY <1>8 DEF Disconnect, Attached
  <2> QED BY <1>1, <1>2, <1>5, <2>1, PhaseKeeps
<1>9. ASSUME NEW h \in Streams, Reconcile(t, h), Completed(tab[t].sid) PROVE IInv'
  <2>1. handler[h].tab = t
    BY <1>9 DEF Reconcile, OnStream, Attached
  <2>2. PICK c \in creds : c = ctx[tab[t].sid] /\ c # None
    BY <1>5, <1>9, <2>1, StoredCode
  <2>3. tab' = [tab EXCEPT ![t] = [phase |-> "load", sid |-> None, code |-> c]]
    BY <1>9, <2>2 DEF Reconcile
  <2> QED BY <1>1, <1>2, <2>2, <2>3, ForgetKeeps
<1> QED BY <1>4, <1>6, <1>7, <1>8, <1>9

(* A fresh session: nothing is about it yet.                               *)
LEMMA UIInteractionStep ==
  ASSUME IInv, UNCHANGED config, NEW t \in Tabs, NEW s \in Ids, UIInteraction(t, s)
  PROVE  IInv'
<1> USE NotifyAssumption, FlowAssumption
<1> DEFINE r == [tab[t] EXCEPT !.phase = "ready", !.sid = s]
<1>0. UNCHANGED <<CH, listeners, stream, late, creds, used, saved, paid, announced, overwritten, post,
                  handler, pref, faults, backend, payments>> /\ UNCHANGED notifyVars
  BY DEF notifyVars, config, UIInteraction
<1>1. /\ tab \in [Tabs -> Tab] /\ tab[t] \in Tab /\ tab[t].phase = "menu" /\ ~Born(s)
      /\ ctx \in [Ids -> Contexts] /\ ctx' = [ctx EXCEPT ![s] = Pending]
      /\ announced \subseteq Codes
  BY DEF IInv, TypeOK, UIInteraction, Born
<1>2. r \in Tab /\ r.phase = "ready" /\ r.sid = s /\ r.code = tab[t].code /\ r.code = None
  BY <1>1 DEF Tab, IInv, TabOK
<1>3. tab' = [tab EXCEPT ![t] = r]
  BY <1>1 DEF UIInteraction
<1> HIDE DEF r
<1>4. tab'[t] = r /\ ctx'[s] = Pending /\ \A x \in Ids \ {s} : ctx'[x] = ctx[x]
  BY <1>1, <1>3
<1>5. TypeOK'
  BY <1>0, <1>1, <1>2, <1>3 DEF IInv, TypeOK, NotifyTypeOK, Contexts
<1>6. TabOK(t)'
  BY <1>2, <1>4 DEF TabOK, Born, OnQR
<1>7. Onwards
  BY <1>0, <1>1, <1>4 DEF Onwards, Born
<1>8. \A x \in Ids : Completed(x) <=> Completed(x)'
  BY <1>1, <1>4 DEF Completed, Born, Codes
<1>9. \A x \in Ids : Born(x) /\ Published(x)' => Published(x)
  BY <1>0, <1>1, <1>4 DEF Published
<1>10. \A h \in Streams : handler[h].tab # t
  BY <1>1, Attachment
<1>11. TabInv' /\ NotifyInv' /\ (\A h \in Streams : UnarmedOK(h))' /\ NoneLost'
  BY <1>0, <1>2, <1>3, <1>6, <1>7, <1>8, <1>9, <1>10, LeaveKeeps
<1>12. PrefOK'
  <2>1. pref # None => pref.session \in Ids \ {s}
    BY <1>1 DEF IInv, TypeOK, Preference, PrefOK
  <2> QED BY <1>0, <1>4, <2>1 DEF IInv, PrefOK, Born
<1>13. \A p \in Posts : post[p] # None => ctx'[post[p].session] # None
  <2>1. \A p \in Posts : post[p] # None => ctx[post[p].session] # None /\ post[p].session \in Ids
    BY DEF IInv, PostOK, TypeOK, Post
  <2> QED BY <1>4, <2>1
<1>14. \A x \in Ids : Completed(x)' => saved[ctx'[x]] = x
  BY <1>4, <1>8 DEF IInv, CodesOwned, Completed
<1>15. StoreInv'
  BY <1>0, <1>5, <1>7, <1>12, <1>13, <1>14, SessionKeeps
<1> QED BY <1>5, <1>11, <1>15 DEF IInv, TabInv, NotifyInv, StoreInv

-----------------------------------------------------------------------------
(* The event streams.                                                      *)

(* The page asked for the completion, and was told there is none, or got   *)
(* no answer.  What is not in the store is not published, and a preference *)
(* update cannot bring it back.                                            *)
LEMMA CheckedStep ==
  ASSUME IInv, UNCHANGED config, NEW t \in Tabs, NEW h \in Streams,
         ReconcileFails(t, h) \/ (Reconcile(t, h) /\ ~Completed(tab[t].sid))
  PROVE  IInv'
<1> USE NotifyAssumption, FlowAssumption
<1>0. UNCHANGED <<CH, listeners, stream, ctx, late, creds, used, saved, paid, announced, overwritten, post,
                  handler, pref, backend, payments>> /\ UNCHANGED storeVars
  BY DEF notifyVars, config, storeVars, Reconcile, ReconcileFails
<1>1. PICK ph \in {"watching", "unchecked"} : /\ tab' = [tab EXCEPT ![t].phase = ph]
                                              /\ ph = "watching" => ~Completed(tab[t].sid)
  BY DEF Reconcile, ReconcileFails
<1>2. /\ tab \in [Tabs -> Tab] /\ tab[t] \in Tab /\ tab[t].phase = "connecting"
      /\ handler[h].tab = t /\ stream[h].phase = "open"
  BY DEF IInv, TypeOK, Reconcile, ReconcileFails, OnStream, Attached, InPhase
<1> DEFINE r == [tab[t] EXCEPT !.phase = ph]
<1>3. r \in Tab /\ r.phase = ph /\ r.sid = tab[t].sid /\ r.code = tab[t].code
  BY <1>2 DEF Tab
<1>4. tab' = [tab EXCEPT ![t] = r]
  BY <1>1
<1> HIDE DEF r
<1>5. tab'[t] = r /\ \A u \in Tabs \ {t} : tab'[u] = tab[u]
  BY <1>2, <1>4
<1>6. faults' \in 0..MaxFaults
  BY DEF Reconcile, ReconcileFails, Failure, IInv, TypeOK
<1>7. TypeOK'
  BY <1>0, <1>3, <1>4, <1>6 DEF IInv, TypeOK, NotifyTypeOK
<1>8. NotifyInv'
  BY <1>0, NotifyStutter DEF IInv, TypeOK, NotifyInv
<1>9. MessagesCached'
  BY <1>0, <1>3, <1>5 DEF IInv, MessagesCached
<1>10. \A u \in Tabs : TabOK(u)'
  BY <1>0, <1>2, <1>3, <1>5 DEF IInv, TabOK, OnQR, Born
<1>11. \A g \in Streams : handler[g].tab # None =>
         \/ g = h
         \/ handler[g].tab \in Tabs /\ tab'[handler[g].tab] = tab[handler[g].tab]
  <2>1. \A g \in Streams : handler[g].tab = t => g = h
    BY <1>2 DEF IInv, HandlerOK
  <2> QED BY <1>5, <2>1, Attachment
<1>12. ASSUME NEW g \in Streams PROVE HandlerOK(g)'
  <2>1. HandlerOK(g)
    BY DEF IInv
  <2>2. CASE g = h
    BY <1>0, <1>1, <1>2, <1>3, <1>5, <2>1, <2>2 DEF HandlerOK
  <2>3. CASE g # h
    BY <1>0, <1>11, <2>1, <2>3 DEF HandlerOK
  <2> QED BY <2>2, <2>3
<1>13. ASSUME NEW g \in Streams PROVE UnarmedOK(g)'
  <2>1. UnarmedOK(g)
    BY DEF IInv
  <2>2. CASE g = h
    BY <1>0, <1>1, <1>2, <1>3, <1>5, <2>1, <2>2 DEF UnarmedOK, Completed
  <2>3. CASE g # h
    BY <1>0, <1>11, <2>1, <2>3 DEF UnarmedOK, Completed
  <2> QED BY <2>2, <2>3
<1>14. NoneLost'
  <2> SUFFICES ASSUME NEW g \in Streams, handler[g].tab # None,
                      tab'[handler[g].tab].phase = "watching", Published(stream[g].id)
               PROVE  MessageWaits(g, stream[g].id)
    BY <1>0 DEF NoneLost, Published, MessageWaits
  <2>1. CASE g = h
    <3>1. stream[g].id = tab[t].sid /\ tab[t].sid \in Ids
      BY <1>2, <2>1, Attachment
    <3>2. ~Completed(stream[g].id)
      BY <1>1, <1>2, <1>3, <1>5, <2>1, <3>1
    <3>3. announced \subseteq Codes /\ ctx[stream[g].id] \in Contexts
      BY <3>1 DEF IInv, TypeOK
    <3>4. pref # None /\ pref.session = stream[g].id /\ pref.doc \in Codes
          => ctx[stream[g].id] # Pending
      BY DEF IInv, PrefOK
    <3> QED BY <3>2, <3>3, <3>4 DEF Published, Completed, Contexts
  <2>2. CASE g # h
    <3>1. tab[handler[g].tab].phase = "watching"
      BY <1>11, <2>2
    <3> QED BY <3>1 DEF IInv, NoneLost
  <2> QED BY <2>1, <2>2
<1>15. StoreInv'
  BY <1>0, StoreFrame
<1> QED BY <1>7, <1>8, <1>9, <1>10, <1>12, <1>13, <1>14, <1>15 DEF IInv, NotifyInv, StoreInv

(* Tabs that were attached are back to "ready", the others where they were. *)
TabsBack ==
  /\ tab' \in [Tabs -> Tab]
  /\ \A t \in Tabs : \/ tab'[t] = tab[t]
                     \/ /\ \E h \in Streams : handler[h].tab = t
                        /\ tab'[t].phase = "ready"
                        /\ tab'[t].sid = tab[t].sid /\ tab'[t].code = tab[t].code

(* They still have what they stored.                                       *)
LEMMA TabsBackKeep ==
  ASSUME IInv, TabsBack, \A s \in Ids : Born(s) => Born(s)'
  PROVE  (\A t \in Tabs : TabOK(t)') /\ (\A t \in Tabs : tab'[t].code \in creds \cup {None})
<1> USE FlowAssumption
<1>1. \A t \in Tabs : tab[t].sid \in Ids \cup {None}
  BY DEF IInv, TypeOK, Tab
<1>2. \A t \in Tabs : tab'[t].code = tab[t].code /\ tab'[t].sid = tab[t].sid
  BY DEF TabsBack
<1>3. \A t \in Tabs : tab'[t].code \in creds \cup {None}
  BY <1>2 DEF IInv, MessagesCached
<1>4. ASSUME NEW t \in Tabs PROVE TabOK(t)'
  <2>1. TabOK(t) /\ (tab'[t].sid # None => Born(tab[t].sid)')
    BY <1>1, <1>2 DEF IInv, TabOK
  <2>2. CASE tab'[t] = tab[t]
    BY <2>1, <2>2 DEF TabOK
  <2>3. CASE tab'[t] # tab[t]
    <3>1. PICK h \in Streams : handler[h].tab = t
      BY <2>3 DEF TabsBack
    <3>2. tab[t].phase \in {"connecting", "watching", "unchecked"} /\ tab'[t].phase = "ready"
      BY <2>3, <3>1, Attachment DEF TabsBack
    <3> QED BY <1>2, <2>1, <3>2 DEF TabOK, OnQR
  <2> QED BY <2>2, <2>3
<1> QED BY <1>3, <1>4

(* Where the stream of a client is after a step: it still is that client's, *)
(* it stays open if it was, and a message that waits for it still waits.   *)
StreamServes(h) ==
  handler'[h].tab # None =>
    /\ handler'[h] = handler[h]
    /\ tab'[handler[h].tab] = tab[handler[h].tab]
    /\ stream'[h] # None /\ stream'[h].id = stream[h].id
    /\ stream'[h].phase # "closing"
    /\ stream[h].phase = "open" =>
         /\ stream'[h].phase = "open"
         /\ MessageWaits(h, stream[h].id) =>
              stream'[h].chan # None
                \/ (CH'[stream[h].id] # None /\ CH'[stream[h].id].buf # None)

(* Steps of the streams keep the invariant when they serve their clients.  *)
LEMMA StreamKeeps ==
  ASSUME IInv, UNCHANGED config, UNCHANGED storeVars, faults' \in 0..MaxFaults, NotifyInv',
         handler' \in [Streams -> [tab : Tabs \cup {None}, armed : BOOLEAN]], TabsBack,
         \A h \in Streams : StreamServes(h),
         \A i \in Ids : CH'[i] # None => CH'[i].buf \in creds \cup {None},
         \A h \in Streams : stream'[h] # None => /\ stream'[h].chan \in creds \cup {None}
                                                /\ stream'[h].sub \in creds \cup {None}
  PROVE  IInv'
<1> USE NotifyAssumption, FlowAssumption
<1>0. UNCHANGED <<ctx, late, creds, used, saved, paid, announced, overwritten, post, pref, backend, payments>>
  BY DEF config, storeVars
<1>1. TypeOK'
  BY <1>0 DEF IInv, TypeOK, NotifyInv, TabsBack
<1>2. (\A t \in Tabs : TabOK(t)') /\ MessagesCached'
  <2>1. \A s \in Ids : Born(s) => Born(s)'
    BY <1>0 DEF Born
  <2>2. (\A t \in Tabs : TabOK(t)') /\ (\A t \in Tabs : tab'[t].code \in creds \cup {None})
    BY <2>1, TabsBackKeep
  <2> QED BY <1>0, <2>2 DEF MessagesCached
<1>3. ASSUME NEW h \in Streams, handler'[h].tab # None
      PROVE  /\ handler'[h] = handler[h] /\ tab'[handler[h].tab] = tab[handler[h].tab]
             /\ HandlerOK(h) /\ UnarmedOK(h) /\ StreamServes(h)
  BY <1>3 DEF StreamServes, IInv
<1>4. ASSUME NEW h \in Streams PROVE HandlerOK(h)'
  <2> SUFFICES ASSUME handler'[h].tab # None PROVE HandlerOK(h)'
    BY DEF HandlerOK
  <2>1. \A g \in Streams : handler'[g].tab = handler[h].tab => handler[g].tab = handler[h].tab
    BY <1>3
  <2> QED BY <1>3, <2>1 DEF HandlerOK, StreamServes
<1>5. ASSUME NEW h \in Streams PROVE UnarmedOK(h)'
  <2> SUFFICES ASSUME handler'[h].tab # None PROVE UnarmedOK(h)'
    BY DEF UnarmedOK
  <2> QED BY <1>0, <1>3 DEF UnarmedOK, Completed
<1>6. NoneLost'
  <2> SUFFICES ASSUME NEW h \in Streams, handler'[h].tab # None,
                      tab'[handler'[h].tab].phase = "watching", Published(stream[h].id)'
               PROVE  stream'[h].chan # None
                        \/ (CH'[stream'[h].id] # None /\ CH'[stream'[h].id].buf # None)
    BY DEF NoneLost, MessageWaits
  <2>1. /\ handler[h].tab # None /\ tab[handler[h].tab].phase = "watching"
        /\ stream'[h].id = stream[h].id /\ stream[h].phase = "open"
    BY <1>3 DEF StreamServes, HandlerOK
  <2>2. Published(stream[h].id)
    BY <1>0, <2>1 DEF Published
  <2>3. MessageWaits(h, stream[h].id)
    BY <2>1, <2>2 DEF IInv, NoneLost
  <2> QED BY <1>3, <2>1, <2>3 DEF StreamServes
<1>7. StoreInv'
  BY StoreFrame
<1> QED BY <1>1, <1>2, <1>4, <1>5, <1>6, <1>7 DEF IInv, NotifyInv, StoreInv

(* OpenListener goes on: its own stream was not open, the others keep      *)
(* theirs, and a message the new subscription holds comes along.           *)
LEMMA OpeningStep == ASSUME IInv, UNCHANGED config, NEW h \in Streams, Opening(h) PROVE IInv'
<1> USE NotifyAssumption, FlowAssumption
<1>0. UNCHANGED <<tab, handler, faults>> /\ UNCHANGED storeVars
  BY DEF Opening, flowVars, storeVars
<1>1. NotifyInv /\ NotifyInv'
  <2>1. NotifyInv
    BY DEF IInv, TypeOK, NotifyInv
  <2> QED BY <2>1, AttachKeeps, OpenKeeps DEF Opening
<1>2. /\ stream \in [Streams -> Stream \cup {None}] /\ CH \in [Ids -> Group \cup {None}]
      /\ stream[h] \in Stream /\ stream[h] # None /\ stream[h].id \in Ids
      /\ stream[h].phase \in {"opening", "subscribed"}
      /\ stream[h].chan \in creds \cup {None} /\ stream[h].sub \in creds \cup {None}
  <2>1. stream \in [Streams -> Stream \cup {None}] /\ CH \in [Ids -> Group \cup {None}]
    BY <1>1 DEF NotifyInv, NotifyTypeOK
  <2>2. stream[h] # None /\ stream[h].phase \in {"opening", "subscribed"}
    BY DEF Opening, Attach, Subscribe, Install, InPhase
  <2>3. stream[h] \in Stream /\ stream[h].id \in Ids
    BY <2>1, <2>2 DEF Stream
  <2> QED BY <2>1, <2>2, <2>3 DEF IInv, MessagesCached
<1>3. PICK i \in Ids : i = stream[h].id
  BY <1>2
<1>4. PICK r \in Stream : /\ stream' = [stream EXCEPT ![h] = r] /\ r.id = i /\ r.phase # "closing"
                          /\ r.chan = stream[h].chan /\ r.sub \in {stream[h].sub, None}
  <2>1. ASSUME NEW ph \in {"open", "subscribed"}, stream' = [stream EXCEPT ![h].phase = ph]
        PROVE  \E r \in Stream : /\ stream' = [stream EXCEPT ![h] = r] /\ r.id = i
                                 /\ r.phase # "closing"
                                 /\ r.chan = stream[h].chan /\ r.sub \in {stream[h].sub, None}
    <3> DEFINE r == [stream[h] EXCEPT !.phase = ph]
    <3>1. r \in Stream /\ r.id = i /\ r.phase # "closing" /\ r.chan = stream[h].chan /\ r.sub = stream[h].sub
      BY <1>2, <1>3 DEF Stream
    <3>2. stream' = [stream EXCEPT ![h] = r]
      BY <2>1
    <3> QED BY <3>1, <3>2
  <2>2. ASSUME NEW ph \in {"open", "opening"}, stream' = [stream EXCEPT ![h].phase = ph, ![h].sub = None]
        PROVE  \E r \in Stream : /\ stream' = [stream EXCEPT ![h] = r] /\ r.id = i
                                 /\ r.phase # "closing"
                                 /\ r.chan = stream[h].chan /\ r.sub \in {stream[h].sub, None}
    <3> DEFINE r == [stream[h] EXCEPT !.phase = ph, !.sub = None]
    <3>1. r \in Stream /\ r.id = i /\ r.phase # "closing" /\ r.chan = stream[h].chan /\ r.sub = None
      BY <1>2, <1>3 DEF Stream, Slot
    <3>2. stream' = [stream EXCEPT ![h] = r]
      BY <1>2, <2>2
    <3> QED BY <3>1, <3>2
  <2> QED BY <2>1, <2>2 DEF Opening, Attach, Subscribe, Install
<1>5. stream'[h] = r /\ \A g \in Streams \ {h} : stream'[g] = stream[g]
  BY <1>2, <1>4
<1>6. /\ \A j \in Ids \ {i} : CH'[j] = CH[j]
      /\ CH[i] # None => CH'[i] # None /\ CH'[i].buf = CH[i].buf
      /\ CH[i] = None => CH'[i] = None \/ CH'[i].buf = stream[h].sub
  <2>1. CASE Attach(h)
    <3>1. CH[i] # None /\ CH[i] \in Group
      BY <1>2, <1>3, <2>1 DEF Attach
    <3>2. CH' = [CH EXCEPT ![i] = [CH[i] EXCEPT !.members = @ \cup {h}]]
      BY <1>3, <2>1 DEF Attach
    <3>3. /\ [CH[i] EXCEPT !.members = @ \cup {h}] \in Group
          /\ [CH[i] EXCEPT !.members = @ \cup {h}].buf = CH[i].buf
      BY <3>1 DEF Group
    <3> QED BY <1>2, <3>1, <3>2, <3>3
  <2>2. CASE Subscribe(h)
    BY <1>3, <2>2 DEF Subscribe
  <2>3. CASE Install(h) /\ CH[i] # None
    BY <1>3, <2>3 DEF Install
  <2>4. CASE Install(h) /\ CH[i] = None
    <3>1. CH' = [CH EXCEPT ![i] = [members |-> {h}, buf |-> stream[h].sub]]
      BY <1>3, <2>4 DEF Install
    <3> QED BY <1>2, <2>4, <3>1
  <2> QED BY <2>1, <2>2, <2>3, <2>4 DEF Opening
<1>7. TabsBack /\ handler' \in [Streams -> [tab : Tabs \cup {None}, armed : BOOLEAN]]
      /\ faults' \in 0..MaxFaults
  BY <1>0 DEF TabsBack, IInv, TypeOK
<1>8. ASSUME NEW g \in Streams PROVE StreamServes(g)
  <2> SUFFICES ASSUME handler[g].tab # None PROVE StreamServes(g)
    BY <1>0 DEF StreamServes
  <2>1. stream[g] # None /\ stream[g].phase # "closing" /\ stream[g].id \in Ids
    BY Attachment DEF IInv, HandlerOK
  <2>2. CASE g = h
    BY <1>0, <1>2, <1>3, <1>4, <1>5, <2>2 DEF StreamServes
  <2>3. CASE g # h
    BY <1>0, <1>5, <1>6, <2>1, <2>3 DEF StreamServes, MessageWaits
  <2> QED BY <2>2, <2>3
<1>9. \A j \in Ids : CH'[j] # None => CH'[j].buf \in creds \cup {None}
  BY <1>2, <1>6 DEF IInv, MessagesCached
<1>10. \A g \in Streams : stream'[g] # None => /\ stream'[g].chan \in creds \cup {None}
                                               /\ stream'[g].sub \in creds \cup {None}
  BY <1>2, <1>4, <1>5 DEF IInv, MessagesCached
<1> QED BY <1>0, <1>1, <1>7, <1>8, <1>9, <1>10, StreamKeeps

(* The bus refuses a stream: its tab goes back, the others stay.           *)
LEMMA OpeningFailsStep ==
  ASSUME IInv, UNCHANGED config, NEW h \in Streams, OpeningFails(h)
  PROVE  IInv'
<1> USE NotifyAssumption, FlowAssumption
<1>0. UNCHANGED <<CH, listeners>> /\ UNCHANGED storeVars /\ faults' \in 0..MaxFaults
  BY DEF OpeningFails, SubscribeFails, storeVars, Failure, IInv, TypeOK
<1>1. NotifyInv'
  <2>1. NotifyInv
    BY DEF IInv, TypeOK, NotifyInv
  <2> QED BY <2>1, OpenKeeps DEF OpeningFails
<1>2. /\ stream \in [Streams -> Stream \cup {None}]
      /\ handler \in [Streams -> [tab : Tabs \cup {None}, armed : BOOLEAN]]
      /\ tab \in [Tabs -> Tab]
  BY DEF IInv, TypeOK, NotifyTypeOK
<1>3. stream'[h] = None /\ \A g \in Streams \ {h} : stream'[g] = stream[g]
  BY <1>2 DEF OpeningFails, SubscribeFails
<1>4. /\ handler' \in [Streams -> [tab : Tabs \cup {None}, armed : BOOLEAN]]
      /\ handler'[h].tab = None /\ \A g \in Streams \ {h} : handler'[g] = handler[g]
  <2>1. NoHandler \in [tab : Tabs \cup {None}, armed : BOOLEAN] /\ NoHandler.tab = None
    BY DEF NoHandler
  <2> QED BY <1>2, <2>1 DEF OpeningFails
<1>5. /\ tab' \in [Tabs -> Tab]
      /\ \A t \in Tabs : IF handler[h].tab = t
                         THEN /\ tab'[t].phase = "ready"
                              /\ tab'[t].sid = tab[t].sid /\ tab'[t].code = tab[t].code
                         ELSE tab'[t] = tab[t]
  <2>1. tab' = [t \in Tabs |-> IF handler[h].tab = t THEN [tab[t] EXCEPT !.phase = "ready"] ELSE tab[t]]
    BY DEF OpeningFails, Attached
  <2>2. \A x \in Tab : LET y == [x EXCEPT !.phase = "ready"]
                       IN y \in Tab /\ y.phase = "ready" /\ y.sid = x.sid /\ y.code = x.code
    BY DEF Tab
  <2> QED BY <1>2, <2>1, <2>2
<1>6. TabsBack
  BY <1>5 DEF TabsBack
<1>7. ASSUME NEW g \in Streams PROVE StreamServes(g)
  <2> SUFFICES ASSUME handler'[g].tab # None PROVE StreamServes(g)
    BY DEF StreamServes
  <2>1. g # h /\ handler'[g] = handler[g] /\ stream'[g] = stream[g]
    BY <1>3, <1>4
  <2>2. handler[g].tab \in Tabs /\ stream[g] # None /\ stream[g].phase # "closing"
    BY <2>1, Attachment DEF IInv, HandlerOK
  <2>3. handler[h].tab # handler[g].tab
    BY <2>1, <2>2 DEF IInv, HandlerOK
  <2>4. tab'[handler[g].tab] = tab[handler[g].tab]
    BY <1>5, <2>2, <2>3
  <2> QED BY <1>0, <2>1, <2>2, <2>4 DEF StreamServes, MessageWaits
<1>8. \A j \in Ids : CH'[j] # None => CH'[j].buf \in creds \cup {None}
  BY <1>0 DEF IInv, MessagesCached
<1>9. \A g \in Streams : stream'[g] # None => /\ stream'[g].chan \in creds \cup {None}
                                              /\ stream'[g].sub \in creds \cup {None}
  BY <1>3 DEF IInv, MessagesCached
<1> QED BY <1>0, <1>1, <1>4, <1>6, <1>7, <1>8, <1>9, StreamKeeps

(* The handler of a client that has gone closes its listener; the streams  *)
(* of clients that are there keep their group.                             *)
LEMMA HandlerReturnsStep ==
  ASSUME IInv, UNCHANGED config, NEW h \in Streams, HandlerReturns(h)
  PROVE  IInv'
<1> USE NotifyAssumption, FlowAssumption
<1>0. UNCHANGED tab /\ UNCHANGED storeVars /\ faults' \in 0..MaxFaults /\ handler[h].tab = None
  BY DEF HandlerReturns, storeVars, IInv, TypeOK
<1>1. NotifyInv
  BY DEF IInv, TypeOK, NotifyInv
<1>2. /\ stream \in [Streams -> Stream \cup {None}] /\ CH \in [Ids -> Group \cup {None}]
      /\ handler \in [Streams -> [tab : Tabs \cup {None}, armed : BOOLEAN]]
      /\ tab \in [Tabs -> Tab]
  BY DEF IInv, TypeOK, NotifyTypeOK
<1>3. /\ handler' \in [Streams -> [tab : Tabs \cup {None}, armed : BOOLEAN]]
      /\ handler'[h].tab = None /\ \A g \in Streams \ {h} : handler'[g] = handler[g]
  <2>1. NoHandler \in [tab : Tabs \cup {None}, armed : BOOLEAN] /\ NoHandler.tab = None
    BY DEF NoHandler
  <2> QED BY <1>0, <1>2, <2>1 DEF HandlerReturns
<1>4. /\ NotifyInv'
      /\ \A g \in Streams \ {h} : /\ stream'[g] = stream[g]
                                  /\ InPhase(g, "open") /\ CH[stream[g].id] # None =>
                                       /\ CH'[stream[g].id] # None
                                       /\ CH'[stream[g].id].buf = CH[stream[g].id].buf
      /\ \A j \in Ids : CH'[j] # None => CH[j] # None /\ CH'[j].buf = CH[j].buf
      /\ stream'[h] # None => /\ stream'[h].chan \in {stream[h].chan, None}
                              /\ stream'[h].sub = stream[h].sub /\ stream[h] # None
  <2>1. CASE Unregister(h)
    <3>1. NotifyInv'
      BY <1>1, <2>1, UnregisterKeeps
    <3>2. /\ stream[h] # None /\ stream[h] \in Stream /\ stream[h].id \in Ids
          /\ stream' = [stream EXCEPT ![h].phase = "closing", ![h].chan = None]
      BY <1>2, <2>1 DEF Unregister, InPhase, Stream
    <3>3. LET r == [stream[h] EXCEPT !.phase = "closing", !.chan = None]
          IN stream' = [stream EXCEPT ![h] = r] /\ r.chan = None /\ r.sub = stream[h].sub
      BY <1>2, <3>2 DEF Stream
    <3>4. /\ stream'[h].chan = None /\ stream'[h].sub = stream[h].sub
          /\ \A g \in Streams \ {h} : stream'[g] = stream[g]
      BY <1>2, <3>3
    <3>5. PICK i \in Ids : i = stream[h].id
      BY <3>2
    <3>6. CH' = [CH EXCEPT ![i] = IF CH[i] = None THEN None
                                  ELSE [members |-> CH[i].members \ {h}, buf |-> CH[i].buf]]
      BY <1>2, <2>1, <3>5 DEF Unregister
    <3>7. \A j \in Ids : /\ CH'[j] = None <=> CH[j] = None
                         /\ CH[j] # None => CH'[j].buf = CH[j].buf
      <4>1. CH[i] # None => [members |-> CH[i].members \ {h}, buf |-> CH[i].buf] \in Group
        BY <1>2 DEF Group
      <4> QED BY <1>2, <3>6, <4>1
    <3>8. \A g \in Streams : InPhase(g, "open") => stream[g].id \in Ids
      BY <1>2 DEF InPhase, Stream
    <3> QED BY <3>1, <3>2, <3>4, <3>7, <3>8
  <2>2. CASE Reclaim(h)
    <3>1. /\ NotifyInv'
          /\ \A g \in Streams : g # h /\ InPhase(g, "open") => CH'[stream[g].id] = CH[stream[g].id]
      BY <1>1, <2>2, ReclaimKeeps
    <3>2. stream'[h] = None /\ \A g \in Streams \ {h} : stream'[g] = stream[g]
      BY <1>2, <2>2 DEF Reclaim
    <3>3. \A j \in Ids : CH'[j] = CH[j] \/ CH'[j] = None
      BY <1>2, <2>2 DEF Reclaim
    <3> QED BY <3>1, <3>2, <3>3
  <2> QED BY <2>1, <2>2 DEF HandlerReturns
<1>5. TabsBack
  BY <1>0, <1>2 DEF TabsBack
<1>6. ASSUME NEW g \in Streams PROVE StreamServes(g)
  <2> SUFFICES ASSUME handler'[g].tab # None PROVE StreamServes(g)
    BY DEF StreamServes
  <2>1. g # h /\ handler'[g] = handler[g] /\ stream'[g] = stream[g]
    BY <1>3, <1>4
  <2>2. stream[g] # None /\ stream[g].phase # "closing" /\ stream[g].id \in Ids
    BY <2>1, Attachment DEF IInv, HandlerOK
  <2>3. stream[g].phase = "open" => InPhase(g, "open")
    BY <2>2 DEF InPhase
  <2> QED BY <1>0, <1>4, <2>1, <2>2, <2>3 DEF StreamServes, MessageWaits
<1>7. \A j \in Ids : CH'[j] # None => CH'[j].buf \in creds \cup {None}
  BY <1>4 DEF IInv, MessagesCached
<1>8. \A g \in Streams : stream'[g] # None => /\ stream'[g].chan \in creds \cup {None}
                                              /\ stream'[g].sub \in creds \cup {None}
  BY <1>4 DEF IInv, MessagesCached
<1> QED BY <1>0, <1>3, <1>4, <1>5, <1>6, <1>7, <1>8, StreamKeeps

(* The group's message reaches every open stream of the session, so that   *)
(* none that counted on it is left without.                                *)
LEMMA GroupDeliversStep ==
  ASSUME IInv, UNCHANGED config, NEW i \in Ids, GroupDelivers(i)
  PROVE  IInv'
<1> USE NotifyAssumption, FlowAssumption
<1>0. UNCHANGED <<tab, handler, faults>> /\ UNCHANGED storeVars /\ FanOut(i)
  BY DEF GroupDelivers, flowVars, storeVars
<1>1. NotifyInv
  BY DEF IInv, TypeOK, NotifyInv
<1>2. NotifyInv' /\ StreamsStay
  BY <1>0, <1>1, DeliverKeeps
<1>3. /\ stream \in [Streams -> Stream \cup {None}] /\ CH \in [Ids -> Group \cup {None}]
      /\ CH[i] # None /\ CH[i].buf # None /\ CH[i].members = Of(i, {"open"})
  BY <1>0, <1>1 DEF NotifyInv, NotifyTypeOK, FanOut, GroupAccounted
<1>4. PICK m \in creds : m = CH[i].buf /\ m # None
  BY <1>3 DEF IInv, MessagesCached
<1>5. (\A j \in Ids \ {i} : CH'[j] = CH[j]) /\ CH'[i] # None /\ CH'[i].buf = None
  <2>1. CH[i] \in Group /\ CH' = [CH EXCEPT ![i] = [CH[i] EXCEPT !.buf = None]]
    BY <1>0, <1>3 DEF FanOut
  <2>2. [CH[i] EXCEPT !.buf = None] \in Group /\ [CH[i] EXCEPT !.buf = None].buf = None
    BY <2>1 DEF Group, Slot
  <2> QED BY <1>3, <2>1, <2>2
<1>6. \A g \in Streams : stream[g] # None =>
        /\ stream'[g].sub = stream[g].sub
        /\ stream'[g].chan \in {stream[g].chan, m}
        /\ stream[g].chan # None => stream'[g].chan # None
        /\ stream[g].phase = "open" /\ stream[g].id = i => stream'[g].chan # None
  <2>1. stream' = [g \in Streams |-> IF g \in Of(i, {"open"})
                                     THEN [stream[g] EXCEPT !.chan = Offer(@, m)] ELSE stream[g]]
    BY <1>0, <1>3, <1>4 DEF FanOut
  <2>2. \A x \in Stream : LET y == [x EXCEPT !.chan = Offer(@, m)]
                          IN y.sub = x.sub /\ y.chan \in {x.chan, m} /\ y.chan # None
    BY <1>4 DEF Stream, Offer
  <2>3. \A g \in Streams : stream[g] # None /\ stream[g].phase = "open" /\ stream[g].id = i
          => g \in Of(i, {"open"})
    BY DEF Of
  <2> QED BY <1>3, <2>1, <2>2, <2>3
<1>7. TabsBack /\ handler' \in [Streams -> [tab : Tabs \cup {None}, armed : BOOLEAN]]
      /\ faults' \in 0..MaxFaults
  BY <1>0 DEF TabsBack, IInv, TypeOK
<1>8. ASSUME NEW g \in Streams PROVE StreamServes(g)
  <2> SUFFICES ASSUME handler[g].tab # None PROVE StreamServes(g)
    BY <1>0 DEF StreamServes
  <2>1. stream[g] # None /\ stream[g].phase # "closing" /\ stream[g].id \in Ids
    BY Attachment DEF IInv, HandlerOK
  <2> QED BY <1>0, <1>2, <1>5, <1>6, <2>1 DEF StreamServes, MessageWaits, StreamsStay
<1>9. \A j \in Ids : CH'[j] # None => CH'[j].buf \in creds \cup {None}
  BY <1>5 DEF IInv, MessagesCached
<1>10. \A g \in Streams : stream'[g] # None => /\ stream'[g].chan \in creds \cup {None}
                                               /\ stream'[g].sub \in creds \cup {None}
  BY <1>2, <1>6 DEF IInv, MessagesCached, StreamsStay
<1> QED BY <1>0, <1>2, <1>7, <1>8, <1>9, <1>10, StreamKeeps

(* A tab opens a stream: its handler arms the deadline, unless the session *)
(* is complete, and then the page's check is going to find the code.       *)
LEMMA ConnectStep == ASSUME IInv, UNCHANGED config, NEW t \in Tabs, Connect(t) PROVE IInv'
<1> USE NotifyAssumption, FlowAssumption
<1>0. UNCHANGED <<ctx, late, creds, used, saved, paid, announced, overwritten, post, pref, faults, backend, payments>>
      /\ UNCHANGED storeVars
  BY DEF Connect, config, storeVars
<1>1. PICK h \in Streams : h = Any(IdleStreams) /\ stream[h] = None
  <2>1. Any(IdleStreams) \in IdleStreams
    BY AnyIsIn DEF Connect
  <2> QED BY <2>1 DEF IdleStreams
<1>2. /\ tab \in [Tabs -> Tab] /\ stream \in [Streams -> Stream \cup {None}]
      /\ handler \in [Streams -> [tab : Tabs \cup {None}, armed : BOOLEAN]]
      /\ tab[t] \in Tab /\ tab[t].phase = "ready" /\ ctx \in [Ids -> Contexts]
  BY DEF IInv, TypeOK, NotifyTypeOK, Connect
<1>3. TabOK(t) /\ tab[t].sid \in Ids
  BY <1>2 DEF IInv, TabOK, OnQR, Tab
<1>4. PICK s \in Ids : s = tab[t].sid
  BY <1>3
<1> DEFINE r == [tab[t] EXCEPT !.phase = "connecting"]
           y == [tab |-> t, armed |-> (ctx[s] = Pending)]
           z == [phase |-> "opening", id |-> s, chan |-> None, sub |-> None]
<1>5. r \in Tab /\ r.phase = "connecting" /\ r.sid = s /\ r.code = None
  BY <1>2, <1>3, <1>4 DEF Tab, TabOK, OnQR
<1>6. /\ y \in [tab : Tabs \cup {None}, armed : BOOLEAN] /\ y.tab = t
      /\ y.armed <=> ctx[s] = Pending
  OBVIOUS
<1>7. z # None /\ z.phase = "opening" /\ z.id = s /\ z.chan = None /\ z.sub = None
  <2>1. z \in Stream
    BY DEF Stream, Slot
  <2> QED BY <2>1
<1>8. /\ tab' = [tab EXCEPT ![t] = r] /\ handler' = [handler EXCEPT ![h] = y]
      /\ stream' = [stream EXCEPT ![h] = z] /\ UNCHANGED <<CH, listeners>>
      /\ Completed(s) \/ ctx[s] = Pending
      /\ OpenListener(h, s)
  BY <1>1, <1>4 DEF Connect, OpenListener, Deadline, Active
<1> HIDE DEF r, y, z
<1>9. /\ tab'[t] = r /\ (\A u \in Tabs \ {t} : tab'[u] = tab[u])
      /\ handler'[h] = y /\ (\A g \in Streams \ {h} : handler'[g] = handler[g])
      /\ stream'[h] = z /\ (\A g \in Streams \ {h} : stream'[g] = stream[g])
  BY <1>2, <1>8
<1>10. NotifyInv'
  <2>1. NotifyInv
    BY DEF IInv, TypeOK, NotifyInv
  <2> QED BY <1>8, <2>1, OpenKeeps
<1>11. TypeOK'
  BY <1>0, <1>2, <1>5, <1>6, <1>8, <1>10 DEF IInv, TypeOK, NotifyInv
<1>12. \A g \in Streams : handler[g].tab # t /\ (handler[g].tab # None => g # h /\ handler[g].tab \in Tabs)
  BY <1>1, <1>2, Attachment
<1>13. \A g \in Streams \ {h} : handler[g].tab # None => tab'[handler[g].tab] = tab[handler[g].tab]
  BY <1>9, <1>12
<1>14. MessagesCached'
  BY <1>0, <1>5, <1>7, <1>8, <1>9 DEF IInv, MessagesCached
<1>15. \A u \in Tabs : TabOK(u)'
  <2>1. Born(s)
    BY <1>3, <1>4 DEF TabOK
  <2> QED BY <1>0, <1>5, <1>9, <2>1 DEF IInv, TabOK, OnQR, Born
<1>16. ASSUME NEW g \in Streams PROVE HandlerOK(g)'
  <2>1. HandlerOK(g)
    BY DEF IInv
  <2>2. CASE g = h
    BY <1>5, <1>6, <1>7, <1>9, <1>12, <2>2 DEF HandlerOK
  <2>3. CASE g # h
    BY <1>6, <1>9, <1>12, <1>13, <2>1, <2>3 DEF HandlerOK
  <2> QED BY <2>2, <2>3
<1>17. ASSUME NEW g \in Streams PROVE UnarmedOK(g)'
  <2>1. UnarmedOK(g)
    BY DEF IInv
  <2>2. CASE g = h
    BY <1>0, <1>5, <1>6, <1>8, <1>9, <2>2 DEF UnarmedOK, Completed
  <2>3. CASE g # h
    BY <1>0, <1>9, <1>13, <2>1, <2>3 DEF UnarmedOK, Completed
  <2> QED BY <2>2, <2>3
<1>18. NoneLost'
  <2> SUFFICES ASSUME NEW g \in Streams, handler'[g].tab # None,
                      tab'[handler'[g].tab].phase = "watching", Published(stream[g].id)'
               PROVE  MessageWaits(g, stream[g].id)'
    BY DEF NoneLost
  <2>1. g # h
    BY <1>5, <1>6, <1>9
  <2>2. /\ handler[g].tab # None /\ tab[handler[g].tab].phase = "watching"
        /\ stream'[g] = stream[g] /\ Published(stream[g].id)
    BY <1>0, <1>9, <1>13, <2>1 DEF Published
  <2>3. MessageWaits(g, stream[g].id)
    BY <2>2 DEF IInv, NoneLost
  <2> QED BY <1>8, <2>2, <2>3 DEF MessageWaits
<1>19. StoreInv'
  BY <1>0, StoreFrame
<1> QED BY <1>10, <1>11, <1>14, <1>15, <1>16, <1>17, <1>18, <1>19 DEF IInv, NotifyInv, StoreInv

(* The process starts again.  In memory no session is left, and none that  *)
(* was there comes back.                                                   *)
LEMMA RestartStep == ASSUME IInv, UNCHANGED config, Restart PROVE IInv'
<1> USE NotifyAssumption, FlowAssumption
<1>0. /\ UNCHANGED <<creds, saved, paid, announced, overwritten, backend, payments>>
      /\ faults' \in 0..MaxFaults /\ pref' = None
      /\ post' = [p \in Posts |-> None] /\ handler' = [h \in Streams |-> NoHandler]
  BY DEF Restart, config, Failure, IInv, TypeOK
<1>1. NotifyInv'
  BY ResetInv DEF Restart
<1>2. /\ ctx' \in [Ids -> Contexts] /\ late' \in [Ids -> BOOLEAN] /\ used' \subseteq Jtis
      /\ \A s \in Ids : Born(s) => Born(s)'
      /\ \A s \in Ids : ctx'[s] \in {ctx[s], None}
      /\ (\A j \in used : j \in used') \/ (\A s \in Ids : ctx'[s] = None)
      /\ \A s \in Ids : ctx[s] = None => ctx'[s] = None
  <2>1. ctx \in [Ids -> Contexts] /\ late \in [Ids -> BOOLEAN] /\ used \subseteq Jtis
    BY DEF IInv, TypeOK
  <2>2. CASE UNCHANGED <<ctx, late, used>>
    BY <2>1, <2>2 DEF Born
  <2>3. CASE /\ ctx' = [s \in Ids |-> None] /\ used' = {}
             /\ late' = [s \in Ids |-> ctx[s] # None \/ late[s]]
    BY <2>1, <2>3 DEF Born, Contexts
  <2> QED BY <2>2, <2>3 DEF Restart
<1>3. TabsBack
  <2>1. tab \in [Tabs -> Tab]
    BY DEF IInv, TypeOK
  <2>2. \A x \in Tab : LET y == [x EXCEPT !.phase = "ready"]
                       IN y \in Tab /\ y.phase = "ready" /\ y.sid = x.sid /\ y.code = x.code
    BY DEF Tab
  <2>3. tab' = [t \in Tabs |-> IF \E h \in Streams : handler[h].tab = t
                              THEN [tab[t] EXCEPT !.phase = "ready"] ELSE tab[t]]
    BY DEF Restart, Attached
  <2> QED BY <2>1, <2>2, <2>3 DEF TabsBack
<1>4. TypeOK'
  <2>1. NoHandler \in [tab : Tabs \cup {None}, armed : BOOLEAN]
    BY DEF NoHandler
  <2> QED BY <1>0, <1>1, <1>2, <1>3, <2>1 DEF IInv, TypeOK, NotifyInv, TabsBack
<1>5. (\A t \in Tabs : TabOK(t)') /\ (\A t \in Tabs : tab'[t].code \in creds \cup {None})
  BY <1>2, <1>3, TabsBackKeep
<1>6. MessagesCached'
  BY <1>0, <1>5 DEF MessagesCached, Restart
<1>7. \A h \in Streams : handler'[h].tab = None
  BY <1>0 DEF NoHandler
<1>8. (\A h \in Streams : HandlerOK(h)') /\ (\A h \in Streams : UnarmedOK(h)') /\ NoneLost'
  BY <1>7 DEF HandlerOK, UnarmedOK, NoneLost
<1>9. (\A p \in Posts : PostOK(p)') /\ PrefOK' /\ PaymentAcceptedOnce'
  BY <1>0 DEF PostOK, PrefOK, PaymentAcceptedOnce, IInv
<1>10. CodesOwned'
  <2>1. \A s \in Ids : Completed(s)' => saved[ctx'[s]] = s
    BY <1>2 DEF IInv, CodesOwned, Completed, Codes
  <2>2. \A c \in Codes : saved[c] # None => c \in creds /\ saved[c] \in Ids /\ Born(saved[c])
    BY DEF IInv, CodesOwned, TypeOK
  <2> QED BY <1>0, <1>2, <2>1, <2>2 DEF IInv, CodesOwned, Born
<1>11. ASSUME NEW j \in Jtis PROVE JtiOK(j)'
  <2>1. JtiOK(j) /\ \A p \in Posts : ~Accepted(p, j)'
    BY <1>0 DEF IInv, Accepted
  <2>2. \A c \in Codes : paid[c] = j => saved[c] \in Ids
    BY DEF IInv, CodesOwned, TypeOK
  <2> QED BY <1>0, <1>2, <2>1, <2>2 DEF JtiOK
<1> QED BY <1>0, <1>1, <1>4, <1>5, <1>6, <1>8, <1>9, <1>10, <1>11 DEF IInv, NotifyInv

-----------------------------------------------------------------------------
(* Every step keeps the inductive invariant.                               *)
LEMMA StepIInv == IInv /\ [Next]_vars => IInv'
<1> SUFFICES ASSUME IInv, [Next]_vars PROVE IInv'
  OBVIOUS
<1>1. CASE UNCHANGED vars
  <2>1. /\ UNCHANGED <<notifyVars, tab, handler>> /\ UNCHANGED storeVars /\ UNCHANGED config
        /\ UNCHANGED <<CH, listeners, stream, ctx, late, creds, used, saved, paid, announced, overwritten,
                       post, tab, handler, pref, faults, backend, payments>>
    BY <1>1 DEF vars, flowVars, storeVars, notifyVars, config
  <2>2. StoreInv'
    BY <2>1, StoreFrame
  <2>3. TypeOK'
    BY <2>1 DEF IInv, TypeOK, NotifyTypeOK
  <2>4. TabInv' /\ NotifyInv' /\ (\A h \in Streams : UnarmedOK(h))' /\ NoneLost'
    BY <2>1, TabFrame DEF Onwards, Born, Completed, Published
  <2> QED BY <2>2, <2>3, <2>4 DEF IInv, TabInv, NotifyInv, StoreInv
<1>2. CASE Next
  <2>0. UNCHANGED config
    BY <1>2 DEF Next
  <2>1. ASSUME NEW p \in Posts,
               \/ ClaimRefused(p) \/ Claim(p) \/ VerifyFails(p) \/ CacheCredentials(p)
               \/ SaveMarker(p) \/ WriteFails(p) \/ Announce(p) \/ AnnounceFails(p)
        PROVE  IInv'
    BY <2>0, <2>1, PostEndSteps, ClaimStep, CacheStep, SaveStep, AnnounceStep
  <2>2. ASSUME NEW t \in Tabs,
               \/ Rejoin(t) \/ (\E s \in Ids : UIInteraction(t, s))
               \/ Page(t) \/ ResumeFails(t) \/ Reload(t) \/ BackToMenu(t)
               \/ \E h \in Streams : ReconcileFails(t, h) \/ Disconnect(t, h)
        PROVE  IInv'
    <3>1. CASE Rejoin(t) \/ Refuse(t) \/ Resume(t) \/ ResumeFails(t) \/ LoadResult(t) \/ BackToMenu(t)
      BY <2>0, <3>1, PageSteps
    <3>2. CASE \E s \in Ids : UIInteraction(t, s)
      BY <2>0, <3>2, UIInteractionStep
    <3>3. CASE Reload(t)
      BY <2>0, <3>3, LeaveSteps
    <3>4. CASE Connect(t)
      BY <2>0, <3>4, ConnectStep
    <3>5. ASSUME NEW h \in Streams, ReceiveMessage(t, h) \/ ReceiveExpired(t, h) \/ Disconnect(t, h)
          PROVE  IInv'
      BY <2>0, <3>5, LeaveSteps
    <3>6. ASSUME NEW h \in Streams, Reconcile(t, h) PROVE IInv'
      <4>1. CASE Completed(tab[t].sid)
        BY <2>0, <3>6, <4>1, LeaveSteps
      <4>2. CASE ~Completed(tab[t].sid)
        BY <2>0, <3>6, <4>2, CheckedStep
      <4> QED BY <4>1, <4>2
    <3>7. ASSUME NEW h \in Streams, ReconcileFails(t, h) PROVE IInv'
      <4>1. ReconcileFails(t, h) \/ (Reconcile(t, h) /\ ~Completed(tab[t].sid))
        BY <3>7
      <4> QED BY <2>0, <4>1, CheckedStep
    <3> QED BY <2>2, <3>1, <3>2, <3>3, <3>4, <3>5, <3>6, <3>7 DEF Page
  <2>3. ASSUME NEW h \in Streams, Streaming(h) \/ OpeningFails(h) PROVE IInv'
    BY <2>0, <2>3, OpeningStep, HandlerReturnsStep, OpeningFailsStep DEF Streaming
  <2>4. ASSUME NEW s \in Ids,
               \/ (\E j \in Jtis \cup {None} : PostArrives(s, j)) \/ GroupDelivers(s) \/ ReadPreference(s)
               \/ DeadlinePasses(s) \/ Evict(s)
        PROVE  IInv'
    BY <2>0, <2>4, PostArrivesStep, GroupDeliversStep, ReadPreferenceStep, TimeStep
  <2>5. CASE UpdatePreference
    BY <2>0, <2>5, UpdatePreferenceStep
  <2>6. CASE Restart
    BY <2>0, <2>6, RestartStep
  <2> QED BY <1>2, <2>1, <2>2, <2>3, <2>4, <2>5, <2>6 DEF Next
<1> QED BY <1>1, <1>2

(* The inductive invariant holds.                                          *)
THEOREM FlowInvariant == Spec => []IInv
BY InitIInv, StepIInv, PTL DEF Spec

(* The state has its type, the notification service's included, through    *)
(* restarts, failed writes and refused subscriptions.                      *)
THEOREM FlowTypeCorrect == Spec => []TypeOK
<1>1. IInv => TypeOK
  BY DEF IInv
<1> QED BY <1>1, FlowInvariant, PTL

(* notify.Service: however its critical sections interleave, a group is    *)
(* there exactly as long as a listener counts on it, and delivers to the   *)
(* open channels and to no closed one.                                     *)
THEOREM GroupsAccounted == Spec => []GroupAccounted
<1>1. IInv => GroupAccounted
  BY DEF IInv
<1> QED BY <1>1, FlowInvariant, PTL

(* VerificationDirectPost: a code that reaches a tab, or can, stands for   *)
(* credentials that are cached.                                            *)
THEOREM CodesAlwaysResolve == Spec => []CodesResolve
<1>1. ASSUME IInv PROVE CodesResolve
  <2> USE NotifyAssumption, FlowAssumption
  <2>1. \A s \in Ids : ctx[s] \in Codes => ctx[s] \in creds
    BY <1>1, StoredCode DEF Completed
  <2>2. \A x \in creds \cup {None} : x \in Codes => x \in creds
    BY DEF Codes
  <2> QED BY <1>1, <2>1, <2>2 DEF IInv, MessagesCached, CodesResolve, HandedOut
<1> QED BY <1>1, FlowInvariant, PTL

(* endpointUINotify: the tab that was told "pending" has the message of a  *)
(* completion waiting for it, for any number of streams of its session.    *)
THEOREM NoCompletionLost == Spec => []NoLostCompletion
<1>1. ASSUME IInv PROVE NoLostCompletion
  <2> SUFFICES ASSUME NEW t \in Tabs, NEW h \in Streams, tab[t].phase = "watching",
                      OnStream(t, h), ctx[tab[t].sid] \in announced
               PROVE  MessageWaits(h, tab[t].sid)
    BY DEF NoLostCompletion
  <2>1. handler[h].tab = t /\ t # None
    BY FlowAssumption DEF OnStream, Attached
  <2>2. stream[h].id = tab[t].sid
    BY <1>1, <2>1, Attachment
  <2> QED BY <1>1, <2>1, <2>2 DEF IInv, NoneLost, Published
<1> QED BY <1>1, FlowInvariant, PTL

(* claimJTI: one key-binding JWT of a payment is accepted once, for any    *)
(* number of posts of it and of other sessions that choose the same jti,   *)
(* failed writes and restarts.                                             *)
THEOREM PaymentOnce == Spec => []PaymentAcceptedOnce
<1>1. IInv => PaymentAcceptedOnce
  BY DEF IInv
<1> QED BY <1>1, FlowInvariant, PTL

(* endpointUINotify: a watching tab has an armed deadline, or a message is *)
(* on its way to it.                                                       *)
THEOREM WatchersEnd == Spec => []WatcherHasAnEnd
<1>1. ASSUME IInv PROVE WatcherHasAnEnd
  <2> SUFFICES ASSUME NEW t \in Tabs, NEW h \in Streams, tab[t].phase = "watching",
                      OnStream(t, h), ctx[tab[t].sid] # None, tab[t].sid \notin overwritten
               PROVE  handler[h].armed
    BY DEF WatcherHasAnEnd
  <2>1. handler[h].tab = t /\ t # None
    BY FlowAssumption DEF OnStream, Attached
  <2> QED BY <1>1, <2>1 DEF IInv, UnarmedOK
<1> QED BY <1>1, FlowInvariant, PTL
=============================================================================
