------------------------ MODULE StatusPublishProofs ------------------------
(***************************************************************************)
(* Proofs about StatusPublish, for any number of sections, entries,        *)
(* refreshes, writes and faults.  That a cached list never goes back rests *)
(* on singleflight: at most one refresh of a section is under way, so what *)
(* it has read is at least as new as the list it will replace.             *)
(***************************************************************************)
EXTENDS StatusPublish, TLAPS

Positions == 0..(Size - 1)

(* A list shows nothing that was not written.                              *)
Founded(list, st, s) == \A i \in Positions : list[i] <= st[<<s, i>>]

(* What has been read of a section is no older than the cached list.       *)
Ahead(list, n, cached, s) ==
  cached[s] # None => \A i \in Positions : i < n => cached[s].list[i] <= list[i]

FlightOK(f, st, j, c) ==
  /\ IF f.step = "read" THEN f.next < Size ELSE f.next = Size
  /\ Founded(f.list, st, f.section)
  /\ Ahead(f.list, f.next, j, f.section)
  /\ Ahead(f.list, f.next, c, f.section)

(* refreshGroup lets one refresh of a section run at a time.               *)
OneRefresh ==
  \A w, v \in Workers :
    flight[w] # None /\ flight[v] # None /\ flight[w].section = flight[v].section => w = v

Refreshes == \A w \in Workers : flight[w] # None => FlightOK(flight[w], stamp, jwt, cwt)

CachesFounded ==
  \A s \in Sections : /\ jwt[s] # None => Founded(jwt[s].list, stamp, s)
                      /\ cwt[s] # None => Founded(cwt[s].list, stamp, s)

IInv == TypeOK /\ OneRefresh /\ Refreshes /\ CachesFounded

-----------------------------------------------------------------------------
(* Ways the stamps and a cache may change in a step.                       *)
Grows == \A e \in Entries : stamp[e] <= stamp'[e]
Lasts(cached, new) ==
  \A s \in Sections : new[s] # None => cached[s] # None /\ new[s].list = cached[s].list

(* The entries are the positions of the sections.                          *)
LEMMA EntriesAre ==
  /\ \A s \in Sections, i \in Positions : <<s, i>> \in Entries
  /\ \A e \in Entries : e[1] \in Sections /\ e[2] \in Positions
  /\ \A i \in Positions : i \in Nat
  BY PublishAssumption DEF Positions

(* Lists are numbers at the positions.                                     *)
LEMMA ListsAreNat ==
  ASSUME NEW list \in List PROVE \A i \in Positions : list[i] \in Nat
  BY PublishAssumption DEF List, Positions

(* A cached token has a list.                                              *)
LEMMA CachedLists ==
  ASSUME TypeOK
  PROVE  \A s \in Sections : /\ jwt[s] # None => jwt[s].list \in List
                             /\ cwt[s] # None => cwt[s].list \in List
  BY DEF TypeOK, Token

(* Stamps are numbers.                                                     *)
LEMMA StampsAreNat ==
  ASSUME TypeOK PROVE \A e \in Entries : stamp[e] \in Nat /\ stamp[e] <= MaxWrites
  BY PublishAssumption DEF TypeOK

(* What a refresh has read stays good while entries are written and cached *)
(* tokens run out.                                                         *)
LEMMA StillOK ==
  ASSUME TypeOK, TypeOK', Grows, Lasts(jwt, jwt'), Lasts(cwt, cwt'),
         NEW f \in Flight, FlightOK(f, stamp, jwt, cwt)
  PROVE  FlightOK(f, stamp', jwt', cwt')
<1>1. f.section \in Sections /\ f.list \in List
  BY DEF Flight
<1>2. Founded(f.list, stamp', f.section)
  <2>1. \A e \in Entries : stamp[e] \in Nat /\ stamp'[e] \in Nat
    BY StampsAreNat, PublishAssumption DEF TypeOK
  <2> QED  BY <1>1, <2>1, EntriesAre, ListsAreNat DEF Founded, FlightOK, Grows
<1> QED  BY <1>1, <1>2 DEF FlightOK, Ahead, Lasts

(* A step that neither ends in a cache nor brings back a list.             *)
LEMMA QuietStep ==
  ASSUME IInv, TypeOK', OneRefresh', Grows, Lasts(jwt, jwt'), Lasts(cwt, cwt'),
         \A w \in Workers : flight'[w] # None => FlightOK(flight'[w], stamp, jwt, cwt)
  PROVE  IInv'
<1>0. TypeOK
  BY DEF IInv
<1>1. Refreshes'
  <2> SUFFICES ASSUME NEW w \in Workers, flight'[w] # None
               PROVE  FlightOK(flight'[w], stamp', jwt', cwt')
    BY DEF Refreshes
  <2>1. PICK f \in Flight : f = flight'[w]
    BY DEF TypeOK
  <2> QED  BY <1>0, <2>1, StillOK
<1>2. ASSUME NEW s \in Sections, NEW cached \in {jwt, cwt}, cached[s] # None
      PROVE  Founded(cached[s].list, stamp', s)
  <2>1. cached[s].list \in List /\ Founded(cached[s].list, stamp, s)
    BY <1>0, <1>2, CachedLists DEF IInv, CachesFounded
  <2>2. \A e \in Entries : stamp[e] \in Nat /\ stamp'[e] \in Nat
    BY <1>0, StampsAreNat, PublishAssumption DEF TypeOK
  <2> QED  BY <2>1, <2>2, EntriesAre, ListsAreNat DEF Founded, Grows
<1>3. CachesFounded'
  <2> SUFFICES ASSUME NEW s \in Sections
               PROVE  /\ jwt'[s] # None => Founded(jwt'[s].list, stamp', s)
                      /\ cwt'[s] # None => Founded(cwt'[s].list, stamp', s)
    BY DEF CachesFounded
  <2> QED  BY <1>2 DEF Lasts
<1> QED  BY <1>1, <1>3 DEF IInv

(* No list that replaces another shows an entry as it was before.          *)
NoneGoesBack ==
  \A s \in Sections, i \in 0..(Size - 1) :
    /\ jwt[s] # None /\ jwt'[s] # None => jwt'[s].list[i] >= jwt[s].list[i]
    /\ cwt[s] # None /\ cwt'[s] # None => cwt'[s].list[i] >= cwt[s].list[i]

(* Lists that last do not go back.                                         *)
LEMMA LastingLists ==
  ASSUME TypeOK, Lasts(jwt, jwt'), Lasts(cwt, cwt') PROVE NoneGoesBack
  BY CachedLists, ListsAreNat DEF NoneGoesBack, Lasts, Positions

-----------------------------------------------------------------------------
(* A refresh begins, of a section that none is running for.                *)
LEMMA GoStarts ==
  ASSUME IInv, NEW s \in Sections, NEW b \in BOOLEAN, Running(s) = {}, Go(s, b)
  PROVE  /\ flight' \in [Workers -> Flight \cup {None}]
         /\ OneRefresh'
         /\ \A w \in Workers : flight'[w] # None => FlightOK(flight'[w], stamp, jwt, cwt)
<1>0. flight \in [Workers -> Flight \cup {None}] /\ TypeOK
  BY DEF IInv, TypeOK
<1>1. PICK w \in Workers : flight[w] = None /\ flight' = [flight EXCEPT ![w] = Begin(s, b)]
  BY DEF Go, Idle
<1>2. PICK f \in Flight : f = Begin(s, b)
  <2>1. [i \in 0..(Size - 1) |-> 0] \in List /\ 0 \in 0..Size
    BY PublishAssumption DEF List
  <2> QED  BY <2>1 DEF Begin, Flight
<1>3. /\ f.section = s /\ f.next = 0 /\ f.step = "read"
      /\ \A i \in Positions : f.list[i] = 0
  BY <1>2 DEF Begin, Positions
<1>4. FlightOK(f, stamp, jwt, cwt)
  <2>1. Founded(f.list, stamp, f.section)
    BY <1>0, <1>3, EntriesAre, StampsAreNat DEF Founded
  <2> QED  BY <1>3, <2>1, EntriesAre, PublishAssumption DEF FlightOK, Ahead
<1>5. flight' = [flight EXCEPT ![w] = f]
  BY <1>1, <1>2
<1>6. OneRefresh'
  BY <1>0, <1>1, <1>3, <1>5 DEF OneRefresh, IInv, Running
<1> QED  BY <1>0, <1>4, <1>5, <1>6 DEF IInv, Refreshes

(* An asynchronous refresh starts or is joined.                            *)
LEMMA AsyncStarts ==
  ASSUME IInv, NEW s \in Sections, refreshSectionAsync(s) \/ UNCHANGED flight
  PROVE  /\ flight' \in [Workers -> Flight \cup {None}]
         /\ OneRefresh'
         /\ \A w \in Workers : flight'[w] # None => FlightOK(flight'[w], stamp, jwt, cwt)
<1>1. CASE UNCHANGED flight
  BY <1>1 DEF IInv, TypeOK, OneRefresh, Refreshes
<1>2. CASE Running(s) = {} /\ Go(s, FALSE)
  BY <1>2, GoStarts
<1> QED  BY <1>1, <1>2 DEF refreshSectionAsync

(* The calls that write a status.                                          *)
Call ==
  \/ \E c \in Callers : AddStatusReturns(c) \/ \E e \in Entries : AddStatus(c, e)
  \/ \E e \in Entries, s \in Statuses : UpdateStatus(e, s) \/ AdminUpdateStatus(e, s)

(* A status write, with the refresh it starts or joins.                    *)
LEMMA CallStep ==
  ASSUME IInv, Call PROVE IInv' /\ NoneGoesBack
<1>0. TypeOK
  BY DEF IInv
<1>1. /\ \/ UNCHANGED stamp
         \/ \E e \in Entries : stamp[e] < MaxWrites /\ stamp' = [stamp EXCEPT ![e] = @ + 1]
      /\ UNCHANGED <<loop, waits, ticker, jwt, cwt>>
      /\ \/ faults' = faults
         \/ faults < MaxFaults /\ faults' = faults + 1
  BY DEF Call, AddStatusReturns, AddStatus, UpdateStatus, AdminUpdateStatus, Written, Failure
<1>2. stamp' \in [Entries -> 0..MaxWrites] /\ Grows
  BY <1>0, <1>1, PublishAssumption DEF TypeOK, Grows
<1>3. faults' \in 0..MaxFaults
  BY <1>0, <1>1, PublishAssumption DEF TypeOK
<1>4. issued' \in [Entries -> Statuses \cup {None}] /\ held' \in [Callers -> Entries \cup {None}]
  BY <1>0, PublishAssumption
  DEF TypeOK, Call, AddStatusReturns, AddStatus, UpdateStatus, AdminUpdateStatus, Allocate,
      Release, SetStatus
<1>5. UNCHANGED flight \/ \E s \in Sections : refreshSectionAsync(s)
  BY <1>0, EntriesAre
  DEF TypeOK, Call, AddStatusReturns, AddStatus, UpdateStatus, AdminUpdateStatus, Release
<1>6. PICK s \in Sections : refreshSectionAsync(s) \/ UNCHANGED flight
  BY <1>5, PublishAssumption
<1>7. /\ flight' \in [Workers -> Flight \cup {None}]
      /\ OneRefresh'
      /\ \A w \in Workers : flight'[w] # None => FlightOK(flight'[w], stamp, jwt, cwt)
  BY <1>6, AsyncStarts
<1>8. TypeOK'
  BY <1>0, <1>1, <1>2, <1>3, <1>4, <1>7 DEF TypeOK
<1>9. Lasts(jwt, jwt') /\ Lasts(cwt, cwt')
  BY <1>1 DEF Lasts
<1> QED  BY <1>0, <1>2, <1>7, <1>8, <1>9, QuietStep, LastingLists

(* A refresh goes on, or is given up.                                      *)
LEMMA FlightStep ==
  ASSUME IInv, NEW w \in Workers, flight[w] # None, NEW f \in Flight \cup {None},
         flight' = [flight EXCEPT ![w] = f],
         f # None => f.section = flight[w].section /\ FlightOK(f, stamp, jwt, cwt)
  PROVE  /\ flight' \in [Workers -> Flight \cup {None}]
         /\ OneRefresh'
         /\ \A v \in Workers : flight'[v] # None => FlightOK(flight'[v], stamp, jwt, cwt)
<1>1. flight \in [Workers -> Flight \cup {None}]
  BY DEF IInv, TypeOK
<1> QED  BY <1>1 DEF IInv, OneRefresh, Refreshes

(* The ticker, the loop that waits for a refresh, and a round skipped.     *)
LEMMA LoopStep ==
  ASSUME IInv, TickerFires \/ SkipRound \/ refreshSectionCoalesced
  PROVE  IInv' /\ NoneGoesBack
<1>0. TypeOK
  BY DEF IInv
<1>1. UNCHANGED <<allocVars, stamp, jwt, cwt>>
  BY DEF TickerFires, SkipRound, refreshSectionCoalesced
<1>2. /\ loop' \in Sections \cup {None} /\ waits' \in BOOLEAN
      /\ ticker' \in 0..Interval /\ faults' \in 0..MaxFaults
  <2>1. loop' \in {loop, 0, None} /\ ticker' \in {ticker, Interval}
    BY DEF TickerFires, SkipRound, refreshSectionCoalesced
  <2>2. waits' = waits \/ waits' = TRUE
    BY DEF TickerFires, SkipRound, refreshSectionCoalesced
  <2>3. faults' = faults \/ (faults < MaxFaults /\ faults' = faults + 1)
    BY DEF TickerFires, SkipRound, refreshSectionCoalesced, Failure
  <2>4. waits' \in BOOLEAN
    BY <1>0, <2>2 DEF TypeOK
  <2> QED  BY <1>0, <2>1, <2>3, <2>4, PublishAssumption DEF TypeOK
<1>3. /\ flight' \in [Workers -> Flight \cup {None}]
      /\ OneRefresh'
      /\ \A w \in Workers : flight'[w] # None => FlightOK(flight'[w], stamp, jwt, cwt)
  <2>1. CASE UNCHANGED flight
    BY <2>1 DEF IInv, TypeOK, OneRefresh, Refreshes
  <2>2. CASE loop # None /\ Running(loop) = {} /\ Go(loop, TRUE)
    <3>1. loop \in Sections
      BY <1>0, <2>2 DEF TypeOK
    <3> QED  BY <2>2, <3>1, GoStarts
  <2>3. CASE \E w \in Running(loop) : flight' = [flight EXCEPT ![w].loop = TRUE]
    <3>1. PICK w \in Workers : flight[w] # None /\ flight' = [flight EXCEPT ![w].loop = TRUE]
      BY <2>3 DEF Running
    <3>2. PICK g \in Flight : g = flight[w]
      BY <1>0, <3>1 DEF TypeOK
    <3>3. PICK f \in Flight : f = [g EXCEPT !.loop = TRUE]
      BY <3>2 DEF Flight
    <3>4. f.section = g.section /\ f.next = g.next /\ f.list = g.list /\ f.step = g.step
      BY <3>3 DEF Flight
    <3>5. flight' = [flight EXCEPT ![w] = f]
      BY <3>1, <3>2, <3>3
    <3>6. FlightOK(f, stamp, jwt, cwt)
      BY <3>1, <3>2, <3>4 DEF IInv, Refreshes, FlightOK
    <3> QED  BY <3>1, <3>2, <3>4, <3>5, <3>6, FlightStep
  <2> QED  BY <2>1, <2>2, <2>3 DEF TickerFires, SkipRound, refreshSectionCoalesced
<1>4. TypeOK'
  BY <1>0, <1>1, <1>2, <1>3 DEF TypeOK, allocVars
<1>5. Grows /\ Lasts(jwt, jwt') /\ Lasts(cwt, cwt')
  BY <1>0, <1>1, StampsAreNat DEF Lasts, Grows
<1> QED  BY <1>0, <1>3, <1>4, <1>5, QuietStep, LastingLists

(* The next entry of the section is read, as it is at this moment.         *)
LEMMA ReadStep ==
  ASSUME IInv, NEW w \in Workers, ReadEntry(w) PROVE IInv' /\ NoneGoesBack
<1>0. TypeOK
  BY DEF IInv
<1>1. /\ flight[w] # None /\ flight[w].next < Size
      /\ UNCHANGED <<allocVars, stamp, loop, waits, ticker, jwt, cwt, faults>>
  BY DEF ReadEntry, At
<1>2. PICK g \in Flight : g = flight[w]
  BY <1>0, <1>1 DEF TypeOK
<1>3. /\ g.section \in Sections /\ g.next \in Nat /\ g.list \in List /\ g.next < Size
      /\ g.loop \in BOOLEAN /\ FlightOK(g, stamp, jwt, cwt)
  BY <1>1, <1>2, PublishAssumption DEF Flight, IInv, Refreshes
<1>4. PICK k \in 0..MaxWrites : k = stamp[<<g.section, g.next>>]
  <2>1. g.next \in Positions
    BY <1>3, PublishAssumption DEF Positions
  <2> QED  BY <1>0, <1>3, <2>1, EntriesAre DEF TypeOK
<1>5. PICK l \in List : l = [g.list EXCEPT ![g.next] = k]
  BY <1>3, <1>4 DEF List
<1>s. PICK n \in 0..Size, st \in {"jwt", "read"} :
        n = g.next + 1 /\ st = IF g.next + 1 = Size THEN "jwt" ELSE "read"
  BY <1>3, PublishAssumption
<1> DEFINE f == [g EXCEPT !.list = l, !.next = n, !.step = st]
<1>6. flight' = [flight EXCEPT ![w] = f]
  <2>1. flight' = [flight EXCEPT ![w].list[g.next] = k, ![w].next = n, ![w].step = st]
    BY <1>2, <1>4, <1>s DEF ReadEntry
  <2>2. flight \in [Workers -> Flight \cup {None}]
    BY <1>0 DEF TypeOK
  <2>3. flight' = [flight EXCEPT ![w] = [g EXCEPT !.list[g.next] = k, !.next = n, !.step = st]]
    BY <1>2, <2>1, <2>2
  <2>4. [g EXCEPT !.list[g.next] = k, !.next = n, !.step = st] = f
    BY <1>5
  <2> QED  BY <2>3, <2>4
<1>7. f \in Flight
  BY <1>2, <1>5, <1>s DEF Flight
<1>8. /\ f.section = g.section /\ f.next = g.next + 1 /\ f.list = l
      /\ f.step = IF g.next + 1 = Size THEN "jwt" ELSE "read"
  BY <1>2, <1>s DEF Flight
<1> HIDE DEF f
<1>9. \A i \in Positions : l[i] = IF i = g.next THEN k ELSE g.list[i]
  BY <1>3, <1>5 DEF List, Positions
<1>10. FlightOK(f, stamp, jwt, cwt)
  <2>1. IF f.step = "read" THEN f.next < Size ELSE f.next = Size
    BY <1>3, <1>8, PublishAssumption
  <2>2. Founded(l, stamp, g.section)
    BY <1>3, <1>4, <1>9 DEF Founded, FlightOK
  <2>3. ASSUME NEW cached \in {jwt, cwt} PROVE Ahead(l, g.next + 1, cached, g.section)
    <3> SUFFICES ASSUME cached[g.section] # None, NEW i \in Positions, i < g.next + 1
                 PROVE  cached[g.section].list[i] <= l[i]
      BY DEF Ahead
    <3>1. CASE i = g.next
      BY <1>3, <1>4, <1>9, <3>1 DEF IInv, CachesFounded, Founded
    <3>2. CASE i # g.next
      <4>1. i < g.next
        BY <1>3, <3>2, EntriesAre
      <4> QED  BY <1>3, <1>9, <3>2, <4>1 DEF FlightOK, Ahead
    <3> QED  BY <3>1, <3>2
  <2> QED  BY <1>8, <2>1, <2>2, <2>3 DEF FlightOK
<1>11. /\ flight' \in [Workers -> Flight \cup {None}]
       /\ OneRefresh'
       /\ \A v \in Workers : flight'[v] # None => FlightOK(flight'[v], stamp, jwt, cwt)
  BY <1>1, <1>2, <1>6, <1>7, <1>8, <1>10, FlightStep
<1>12. TypeOK'
  BY <1>0, <1>1, <1>11 DEF TypeOK, allocVars
<1>13. Grows /\ Lasts(jwt, jwt') /\ Lasts(cwt, cwt')
  BY <1>0, <1>1, StampsAreNat DEF Lasts, Grows
<1> QED  BY <1>0, <1>11, <1>12, <1>13, QuietStep, LastingLists

(* A refresh that ends lets the loop go on to a section or to its rest.    *)
LEMMA EndsFacts ==
  ASSUME TypeOK, NEW w \in Workers, Ends(w)
  PROVE  loop' \in Sections \cup {None} /\ waits' \in BOOLEAN
<1>1. loop' \in {loop, NextSection(loop)}
  BY DEF Ends
<1>2. waits' = waits \/ waits' = FALSE
  BY DEF Ends
<1>3. loop' \in Sections \cup {None}
  BY <1>1 DEF TypeOK, NextSection
<1>4. waits' \in BOOLEAN
  BY <1>2 DEF TypeOK
<1> QED  BY <1>3, <1>4

(* A refresh fails, or goes on without a JWT.                              *)
LEMMA FailStep ==
  ASSUME IInv, NEW w \in Workers, ReadFails(w) \/ SkipJWT(w) PROVE IInv' /\ NoneGoesBack
<1>0. TypeOK
  BY DEF IInv
<1>1. /\ flight[w] # None /\ faults < MaxFaults /\ faults' = faults + 1
      /\ UNCHANGED <<allocVars, stamp, ticker, jwt, cwt>>
  BY DEF ReadFails, SkipJWT, At, Failure
<1>2. PICK g \in Flight : g = flight[w]
  BY <1>0, <1>1 DEF TypeOK
<1>3. PICK f \in Flight \cup {None} :
        /\ flight' = [flight EXCEPT ![w] = f]
        /\ f # None => f.section = g.section /\ FlightOK(f, stamp, jwt, cwt)
  <2>1. CASE ReadFails(w)
    BY <2>1 DEF ReadFails, Ends
  <2>2. CASE SkipJWT(w)
    <3>1. PICK f \in Flight : f = [g EXCEPT !.step = "cwt"]
      BY <1>2 DEF Flight
    <3>2. /\ f.section = g.section /\ f.next = g.next /\ f.list = g.list /\ f.step = "cwt"
      BY <1>2, <3>1 DEF Flight
    <3>3. flight' = [flight EXCEPT ![w] = f]
      BY <1>2, <2>2, <3>1 DEF SkipJWT
    <3>4. g.step = "jwt" /\ FlightOK(g, stamp, jwt, cwt)
      BY <1>1, <1>2, <2>2 DEF SkipJWT, At, IInv, Refreshes
    <3>5. FlightOK(f, stamp, jwt, cwt)
      BY <3>2, <3>4 DEF FlightOK
    <3> QED  BY <3>2, <3>3, <3>5
  <2> QED  BY <2>1, <2>2
<1>4. /\ flight' \in [Workers -> Flight \cup {None}]
      /\ OneRefresh'
      /\ \A v \in Workers : flight'[v] # None => FlightOK(flight'[v], stamp, jwt, cwt)
  BY <1>1, <1>2, <1>3, FlightStep
<1>5. loop' \in Sections \cup {None} /\ waits' \in BOOLEAN
  <2>1. CASE Ends(w)
    BY <1>0, <2>1, EndsFacts
  <2>2. CASE UNCHANGED <<loop, waits>>
    BY <1>0, <2>2 DEF TypeOK
  <2> QED  BY <2>1, <2>2 DEF ReadFails, SkipJWT
<1>6. faults' \in 0..MaxFaults
  BY <1>0, <1>1, PublishAssumption DEF TypeOK
<1>7. TypeOK'
  BY <1>0, <1>1, <1>4, <1>5, <1>6 DEF TypeOK, allocVars
<1>8. Grows /\ Lasts(jwt, jwt') /\ Lasts(cwt, cwt')
  BY <1>0, <1>1, StampsAreNat DEF Lasts, Grows
<1> QED  BY <1>0, <1>4, <1>7, <1>8, QuietStep, LastingLists

(* A complete list is no older than the cached one it replaces.            *)
LEMMA CompleteList ==
  ASSUME IInv, NEW w \in Workers, At(w, "jwt") \/ At(w, "cwt"), NEW g, g = flight[w]
  PROVE  /\ g \in Flight /\ g.section \in Sections /\ g.list \in List
         /\ NewToken(w) \in Token /\ NewToken(w).list = g.list
         /\ Founded(g.list, stamp, g.section)
         /\ g.next = Size
         /\ Ahead(g.list, Size, jwt, g.section) /\ Ahead(g.list, Size, cwt, g.section)
         /\ \A v \in Workers : flight[v] # None /\ flight[v].section = g.section => v = w
<1>1. g \in Flight /\ g # None /\ g.step \in {"jwt", "cwt"}
  BY DEF At, IInv, TypeOK
<1>2. g.section \in Sections /\ g.list \in List
  BY <1>1 DEF Flight
<1>3. FlightOK(g, stamp, jwt, cwt)
  BY <1>1 DEF IInv, Refreshes
<1>4. NewToken(w) \in Token /\ NewToken(w).list = g.list
  BY <1>2, PublishAssumption DEF NewToken, Token
<1>5. \A v \in Workers : flight[v] # None /\ flight[v].section = g.section => v = w
  BY <1>1 DEF IInv, OneRefresh
<1> QED  BY <1>1, <1>2, <1>3, <1>4, <1>5 DEF FlightOK

(* The caches after a list was set: the others' refreshes are of other     *)
(* sections.                                                               *)
LEMMA SetStep ==
  ASSUME IInv, NEW w \in Workers, SetJWT(w) \/ SetCWT(w) PROVE IInv' /\ NoneGoesBack
<1>0. TypeOK /\ flight \in [Workers -> Flight \cup {None}]
  BY DEF IInv, TypeOK
<1>1. PICK g : g = flight[w]
  OBVIOUS
<1>2. /\ g \in Flight /\ g.section \in Sections /\ g.list \in List
      /\ NewToken(w) \in Token /\ NewToken(w).list = g.list
      /\ Founded(g.list, stamp, g.section) /\ g.next = Size
      /\ Ahead(g.list, Size, jwt, g.section) /\ Ahead(g.list, Size, cwt, g.section)
      /\ \A v \in Workers : flight[v] # None /\ flight[v].section = g.section => v = w
  BY <1>1, CompleteList DEF SetJWT, SetCWT
<1>3. PICK t \in Token : t = NewToken(w)
  BY <1>2
<1>4. /\ \/ jwt' = [jwt EXCEPT ![g.section] = t] /\ cwt' = cwt
         \/ cwt' = [cwt EXCEPT ![g.section] = t] /\ jwt' = jwt
      /\ UNCHANGED <<allocVars, stamp, ticker, faults>>
  BY <1>1, <1>3 DEF SetJWT, SetCWT
<1>5. jwt' \in [Sections -> Token \cup {None}] /\ cwt' \in [Sections -> Token \cup {None}]
  BY <1>0, <1>2, <1>4 DEF TypeOK
<1>6. /\ \A s \in Sections : s # g.section => jwt'[s] = jwt[s] /\ cwt'[s] = cwt[s]
      /\ jwt'[g.section] \in {jwt[g.section], t}
      /\ cwt'[g.section] \in {cwt[g.section], t}
  BY <1>0, <1>2, <1>4 DEF TypeOK
<1>7. t.list = g.list /\ \A i \in Positions : g.list[i] \in Nat /\ i < Size
  BY <1>2, <1>3, ListsAreNat, PublishAssumption DEF Positions
<1>8. Ahead(g.list, Size, jwt', g.section) /\ Ahead(g.list, Size, cwt', g.section)
  BY <1>2, <1>6, <1>7 DEF Ahead
<1>9. PICK f \in Flight \cup {None} :
        /\ flight' = [flight EXCEPT ![w] = f]
        /\ f # None => f.section = g.section /\ FlightOK(f, stamp, jwt', cwt')
  <2>1. CASE SetCWT(w)
    BY <2>1 DEF SetCWT, Ends
  <2>2. CASE SetJWT(w)
    <3>1. PICK f \in Flight : f = [g EXCEPT !.step = "cwt"]
      BY <1>2 DEF Flight
    <3>2. /\ f.section = g.section /\ f.next = g.next /\ f.list = g.list /\ f.step = "cwt"
      BY <1>2, <3>1 DEF Flight
    <3>3. flight' = [flight EXCEPT ![w] = f]
      BY <1>1, <2>2, <3>1 DEF SetJWT
    <3>4. FlightOK(f, stamp, jwt', cwt')
      BY <1>2, <1>8, <3>2 DEF FlightOK
    <3> QED  BY <3>2, <3>3, <3>4
  <2> QED  BY <2>1, <2>2
<1>10. flight' \in [Workers -> Flight \cup {None}] /\ OneRefresh'
  BY <1>0, <1>1, <1>2, <1>9 DEF IInv, OneRefresh
<1>11. Refreshes'
  <2> SUFFICES ASSUME NEW v \in Workers, flight'[v] # None
               PROVE  FlightOK(flight'[v], stamp, jwt', cwt')
    BY <1>4 DEF Refreshes
  <2>1. CASE v = w
    BY <1>0, <1>9, <2>1
  <2>2. CASE v # w
    <3>1. flight'[v] = flight[v] /\ flight[v] \in Flight
      BY <1>0, <1>9, <2>2
    <3>2. flight[v].section # g.section /\ flight[v].section \in Sections
      BY <1>2, <2>2, <3>1 DEF Flight
    <3>3. FlightOK(flight[v], stamp, jwt, cwt)
      BY <3>1 DEF IInv, Refreshes
    <3> QED  BY <1>6, <3>1, <3>2, <3>3 DEF FlightOK, Ahead
  <2> QED  BY <2>1, <2>2
<1>12. CachesFounded'
  BY <1>2, <1>4, <1>6, <1>7 DEF IInv, CachesFounded
<1>13. loop' \in Sections \cup {None} /\ waits' \in BOOLEAN
  <2>1. CASE Ends(w)
    BY <1>0, <2>1, EndsFacts
  <2>2. CASE UNCHANGED <<loop, waits>>
    BY <1>0, <2>2 DEF TypeOK
  <2> QED  BY <2>1, <2>2 DEF SetJWT, SetCWT
<1>14. TypeOK'
  BY <1>0, <1>4, <1>5, <1>10, <1>13 DEF TypeOK, allocVars
<1>15. NoneGoesBack
  <2>1. ASSUME NEW s \in Sections, NEW i \in Positions, NEW old \in {jwt, cwt},
               NEW new, new \in {old[s], t}, new # old[s] => s = g.section,
               old[s] # None
        PROVE  new.list[i] >= old[s].list[i]
    <3>1. old[s].list[i] \in Nat
      BY <1>0, <2>1, CachedLists, ListsAreNat
    <3>2. CASE new = old[s]
      BY <3>1, <3>2
    <3>3. CASE new = t /\ s = g.section
      BY <1>2, <1>7, <2>1, <3>1, <3>3 DEF Ahead
    <3> QED  BY <2>1, <3>2, <3>3
  <2>2. \A s \in Sections : /\ jwt'[s] \in {jwt[s], t} /\ (jwt'[s] # jwt[s] => s = g.section)
                            /\ cwt'[s] \in {cwt[s], t} /\ (cwt'[s] # cwt[s] => s = g.section)
    BY <1>6
  <2> QED  BY <2>1, <2>2 DEF NoneGoesBack, Positions
<1> QED  BY <1>10, <1>11, <1>12, <1>14, <1>15 DEF IInv

(* Reading a cached token and the passing of time leave its list alone.    *)
LEMMA CacheStep ==
  ASSUME IInv, Advance \/ \E s \in Sections : GetCachedJWT(s) \/ GetCachedCWT(s)
  PROVE  IInv' /\ NoneGoesBack
<1>0. TypeOK /\ jwt \in [Sections -> Token \cup {None}] /\ cwt \in [Sections -> Token \cup {None}]
  BY DEF IInv, TypeOK
<1>1. UNCHANGED <<allocVars, stamp, flight, loop, waits, faults>>
  BY DEF Advance, GetCachedJWT, GetCachedCWT
<1>2. ticker' \in 0..Interval
  BY <1>0, PublishAssumption DEF TypeOK, Advance, GetCachedJWT, GetCachedCWT
<1>3. \A t \in Token \cup {None} :
        /\ Older(t) \in Token \cup {None}
        /\ Older(t) # None => t # None /\ Older(t).list = t.list
  BY PublishAssumption DEF Older, Token
<1>4. \A t \in Token :
        /\ [t EXCEPT !.left = Validity] \in Token
        /\ [t EXCEPT !.left = Validity].list = t.list
  BY PublishAssumption DEF Token
<1>5. ASSUME NEW s \in Sections, NEW cached \in [Sections -> Token \cup {None}], cached[s] # None
      PROVE  /\ [cached EXCEPT ![s].left = Validity] \in [Sections -> Token \cup {None}]
             /\ Lasts(cached, [cached EXCEPT ![s].left = Validity])
  <2>1. PICK t \in Token : t = [cached[s] EXCEPT !.left = Validity] /\ t.list = cached[s].list
    BY <1>4, <1>5
  <2>2. [cached EXCEPT ![s].left = Validity] = [cached EXCEPT ![s] = t]
    BY <2>1
  <2> QED  BY <1>5, <2>1, <2>2 DEF Lasts
<1>6. /\ jwt' \in [Sections -> Token \cup {None}] /\ Lasts(jwt, jwt')
      /\ cwt' \in [Sections -> Token \cup {None}] /\ Lasts(cwt, cwt')
  <2>1. CASE Advance
    BY <1>0, <1>3, <2>1 DEF Advance, Lasts
  <2>2. CASE \E s \in Sections : GetCachedJWT(s)
    BY <1>0, <1>5, <2>2 DEF GetCachedJWT, Touched, Lasts
  <2>3. CASE \E s \in Sections : GetCachedCWT(s)
    BY <1>0, <1>5, <2>3 DEF GetCachedCWT, Touched, Lasts
  <2> QED  BY <2>1, <2>2, <2>3
<1>7. TypeOK'
  BY <1>0, <1>1, <1>2, <1>6 DEF TypeOK, allocVars
<1>8. Grows
  BY <1>0, <1>1, StampsAreNat DEF Grows
<1>9. OneRefresh' /\ \A w \in Workers : flight'[w] # None => FlightOK(flight'[w], stamp, jwt, cwt)
  BY <1>1 DEF IInv, OneRefresh, Refreshes
<1> QED  BY <1>0, <1>6, <1>7, <1>8, <1>9, QuietStep, LastingLists

-----------------------------------------------------------------------------
(* Nothing is cached and nothing runs at the start.                        *)
LEMMA InitInv == Init => IInv
<1> SUFFICES ASSUME Init PROVE IInv
  OBVIOUS
<1>1. TypeOK
  <2>1. waits \in BOOLEAN
    BY DEF Init
  <2>2. loop \in Sections \cup {None} /\ ticker \in 0..Interval /\ faults \in 0..MaxFaults
    BY PublishAssumption DEF Init
  <2>3. stamp \in [Entries -> 0..MaxWrites]
    BY PublishAssumption DEF Init
  <2> QED  BY <2>1, <2>2, <2>3 DEF Init, AllocInit, TypeOK
<1> QED  BY <1>1 DEF Init, IInv, OneRefresh, Refreshes, CachesFounded

(* Every step preserves the invariant and takes no list back.              *)
LEMMA StepInv == IInv /\ [Next]_vars => IInv' /\ [NoneGoesBack]_vars
<1> SUFFICES ASSUME IInv, [Next]_vars PROVE IInv' /\ [NoneGoesBack]_vars
  OBVIOUS
<1>1. CASE Call
  BY <1>1, CallStep
<1>2. CASE TickerFires \/ SkipRound \/ refreshSectionCoalesced
  BY <1>2, LoopStep
<1>3. CASE \E w \in Workers : ReadEntry(w) \/ SetJWT(w) \/ SetCWT(w) \/ ReadFails(w) \/ SkipJWT(w)
  BY <1>3, ReadStep, SetStep, FailStep
<1>4. CASE Advance \/ \E s \in Sections : GetCachedJWT(s) \/ GetCachedCWT(s)
  BY <1>4, CacheStep
<1>5. CASE UNCHANGED vars
  BY <1>5 DEF vars, allocVars, pubVars, IInv, TypeOK, OneRefresh, Refreshes, CachesFounded
<1> QED  BY <1>1, <1>2, <1>3, <1>4, <1>5 DEF Next, Refreshing, Call

(* The caches, the refreshes and the loop stay well formed: a refresh that *)
(* is joined, fails or ends leaves the loop at a section or at rest.       *)
THEOREM PublishTypeCorrect == Spec => []TypeOK
<1>1. IInv => TypeOK
  BY DEF IInv
<1>2. IInv /\ [Next]_vars => IInv'
  BY StepInv
<1> QED  BY <1>1, <1>2, InitInv, PTL DEF Spec

(* However writes, joined refreshes, failures and expiry interleave, a     *)
(* status list token is never replaced by one that shows an entry as it    *)
(* was before (refreshSection under refreshGroup).                         *)
THEOREM PublishedStays == Spec => ListsNeverGoBack
<1>1. IInv /\ [Next]_vars =>
        /\ IInv'
        /\ [\A s \in Sections, i \in 0..(Size - 1) :
              /\ jwt[s] # None /\ jwt'[s] # None => jwt'[s].list[i] >= jwt[s].list[i]
              /\ cwt[s] # None /\ cwt'[s] # None => cwt'[s].list[i] >= cwt[s].list[i]]_vars
  BY StepInv DEF NoneGoesBack
<1> QED  BY <1>1, InitInv, PTL DEF Spec, ListsNeverGoBack
=============================================================================
