--------------------------- MODULE StatusPublish ---------------------------
(***************************************************************************)
(* How a status reaches verifiers: the signed status list tokens that one  *)
(* registry process keeps in its caches and rebuilds in the background     *)
(* (tokenstatuslistissuer/service.go).  Status writes are the steps of     *)
(* StatusAllocator; a caller is a TokenStatusListAddStatus call.           *)
(*                                                                         *)
(* A list is abstracted to which write of each entry it shows: `stamp[e]'  *)
(* numbers the writes.  A refresh reads a section entry by entry (a cursor *)
(* over up to a million documents), then sets the JWT and then the CWT.    *)
(***************************************************************************)
EXTENDS StatusAllocator, Sequences

CONSTANTS Sections,  \* the sections, 0 .. LastSection
          Size,      \* entries of a section
          Workers,   \* goroutines that run refreshSection, one per section
          Interval,  \* refreshInterval: the period of the ticker
          Validity,  \* TTL of the two caches, Interval - 5 min
          MaxWrites, \* bound: writes of one entry
          MaxFaults  \* bound: failed reads, dead calls

ASSUME PublishAssumption ==
  /\ Sections \subseteq Nat /\ 0 \in Sections
  /\ Size \in Nat \ {0}
  /\ Entries = Sections \X (0..(Size - 1))
  /\ {Interval, Validity} \subseteq Nat \ {0}
  /\ {MaxWrites, MaxFaults} \subseteq Nat
  /\ 0 \in Statuses
  /\ None \notin Nat /\ None \notin Statuses /\ None \notin Entries

VARIABLES stamp,   \* how often each entry was written
          flight,  \* the refresh each goroutine runs, or None
          loop,    \* the section refreshLoop is at, or None between ticks
          waits,   \* whether it waits for a refresh of that section
          ticker,  \* time to the next tick
          jwt, cwt,  \* the cached tokens, by section
          faults
pubVars == <<stamp, flight, loop, waits, ticker, jwt, cwt, faults>>
vars == <<allocVars, pubVars>>

List == [0..(Size - 1) -> 0..MaxWrites]
Flight == [section : Sections, next : 0..Size, list : List,
           step : {"read", "jwt", "cwt"}, loop : BOOLEAN]
Token == [list : List, left : 1..Validity]

TypeOK ==
  /\ issued \in [Entries -> Statuses \cup {None}]
  /\ held \in [Callers -> Entries \cup {None}]
  /\ stamp \in [Entries -> 0..MaxWrites]
  /\ flight \in [Workers -> Flight \cup {None}]
  /\ loop \in Sections \cup {None}
  /\ waits \in BOOLEAN
  /\ ticker \in 0..Interval
  /\ jwt \in [Sections -> Token \cup {None}]
  /\ cwt \in [Sections -> Token \cup {None}]
  /\ faults \in 0..MaxFaults

(* New starts refreshLoop, which begins with a refresh.                    *)
Init ==
  /\ AllocInit
  /\ stamp = [e \in Entries |-> 0]
  /\ flight = [w \in Workers |-> None]
  /\ loop = 0 /\ waits = FALSE
  /\ ticker = Interval
  /\ jwt = [s \in Sections |-> None]
  /\ cwt = [s \in Sections |-> None]
  /\ faults = 0

Failure == faults < MaxFaults /\ faults' = faults + 1

-----------------------------------------------------------------------------
(* refreshGroup: a refresh of a section that is running is joined.         *)
Running(s) == {w \in Workers : flight[w] # None /\ flight[w].section = s}
Idle == {w \in Workers : flight[w] = None}

Begin(s, byLoop) ==
  [section |-> s, next |-> 0, list |-> [i \in 0..(Size - 1) |-> 0],
   step |-> "read", loop |-> byLoop]

(* Any idle goroutine is as good as another.                               *)
Go(s, byLoop) ==
  /\ Idle # {}
  /\ flight' = [flight EXCEPT ![CHOOSE w \in Idle : TRUE] = Begin(s, byLoop)]

(* Mutant of refreshSectionAsync: every caller starts a refresh of its own.*)
refreshSectionAsyncAlone(s) == Go(s, FALSE)

(* refreshSectionAsync: DoChan starts a goroutine, or adds a waiter that   *)
(* nobody reads.                                                           *)
refreshSectionAsync(s) ==
  \/ Running(s) # {} /\ UNCHANGED flight
  \/ Running(s) = {} /\ Go(s, FALSE)

Written(e) == stamp[e] < MaxWrites /\ stamp' = [stamp EXCEPT ![e] = @ + 1]

(* AddStatus of the collection, and the end of the call: refresh and       *)
(* answer.  A call that dies in between leaves the list to the ticker.     *)
AddStatus(c, e) ==
  /\ Allocate(c, e)
  /\ Written(e)
  /\ UNCHANGED <<flight, loop, waits, ticker, jwt, cwt, faults>>

AddStatusReturns(c) ==
  /\ Release(c)
  /\ \/ refreshSectionAsync(held[c][1]) /\ UNCHANGED faults
     \/ Failure /\ UNCHANGED flight
  /\ UNCHANGED <<stamp, loop, waits, ticker, jwt, cwt>>

(* TokenStatusListUpdateStatus: the write and, unless the process dies,    *)
(* the refresh.                                                            *)
UpdateStatus(e, s) ==
  /\ SetStatus(e, s)
  /\ Written(e)
  /\ \/ refreshSectionAsync(e[1]) /\ UNCHANGED faults
     \/ Failure /\ UNCHANGED flight
  /\ UNCHANGED <<loop, waits, ticker, jwt, cwt>>

(* The admin page's UpdateStatus asks the issuer to drop the cached list   *)
(* if it has an InvalidateSection method; it has none.                     *)
AdminUpdateStatus(e, s) ==
  /\ SetStatus(e, s)
  /\ Written(e)
  /\ UNCHANGED <<flight, loop, waits, ticker, jwt, cwt, faults>>

-----------------------------------------------------------------------------
(* refreshLoop.                                                            *)

TickerFires ==
  /\ ticker = 0
  /\ loop = None
  /\ loop' = 0
  /\ ticker' = Interval
  /\ UNCHANGED <<allocVars, stamp, flight, waits, jwt, cwt, faults>>

(* refreshAllSections cannot read the sections: the round is skipped.      *)
SkipRound ==
  /\ loop = 0 /\ ~waits
  /\ Failure
  /\ loop' = None
  /\ UNCHANGED <<allocVars, stamp, flight, waits, ticker, jwt, cwt>>

(* refreshSectionCoalesced starts the refresh of the section or joins the  *)
(* one that is running, and waits for it.                                  *)
refreshSectionCoalesced ==
  /\ loop # None /\ ~waits
  /\ waits' = TRUE
  /\ \/ \E w \in Running(loop) : flight' = [flight EXCEPT ![w].loop = TRUE]
     \/ Running(loop) = {} /\ Go(loop, TRUE)
  /\ UNCHANGED <<allocVars, stamp, loop, ticker, jwt, cwt, faults>>

NextSection(s) == IF s + 1 \in Sections THEN s + 1 ELSE None

(* Mutant of Ends: the loop is not told when the refresh it joined ends.   *)
EndsUnnoticed(w) ==
  /\ flight' = [flight EXCEPT ![w] = None]
  /\ UNCHANGED <<loop, waits>>

(* A refresh ends; the loop, if it waited for this one, goes on.           *)
Ends(w) ==
  /\ flight' = [flight EXCEPT ![w] = None]
  /\ IF flight[w].loop
     THEN loop' = NextSection(loop) /\ waits' = FALSE
     ELSE UNCHANGED <<loop, waits>>

-----------------------------------------------------------------------------
(* refreshSection.                                                         *)

At(w, step) == flight[w] # None /\ flight[w].step = step

(* GetAllStatusesForSection, the next entry.                               *)
ReadEntry(w) ==
  /\ At(w, "read")
  /\ flight[w].next < Size
  /\ LET i == flight[w].next
     IN flight' = [flight EXCEPT ![w].list[i] = stamp[<<flight[w].section, i>>],
                                 ![w].next = i + 1,
                                 ![w].step = IF i + 1 = Size THEN "jwt" ELSE "read"]
  /\ UNCHANGED <<allocVars, stamp, loop, waits, ticker, jwt, cwt, faults>>

(* The read fails or runs into sectionRefreshTimeout, or the CWT cannot be *)
(* signed: nothing more is set.  A JWT that cannot be signed is skipped.   *)
ReadFails(w) ==
  /\ At(w, "read") \/ At(w, "cwt")
  /\ Failure
  /\ Ends(w)
  /\ UNCHANGED <<allocVars, stamp, ticker, jwt, cwt>>

SkipJWT(w) ==
  /\ At(w, "jwt")
  /\ Failure
  /\ flight' = [flight EXCEPT ![w].step = "cwt"]
  /\ UNCHANGED <<allocVars, stamp, loop, waits, ticker, jwt, cwt>>

NewToken(w) == [list |-> flight[w].list, left |-> Validity]

SetJWT(w) ==
  /\ At(w, "jwt")
  /\ jwt' = [jwt EXCEPT ![flight[w].section] = NewToken(w)]
  /\ flight' = [flight EXCEPT ![w].step = "cwt"]
  /\ UNCHANGED <<allocVars, stamp, loop, waits, ticker, cwt, faults>>

SetCWT(w) ==
  /\ At(w, "cwt")
  /\ cwt' = [cwt EXCEPT ![flight[w].section] = NewToken(w)]
  /\ Ends(w)
  /\ UNCHANGED <<allocVars, stamp, ticker, jwt, faults>>

-----------------------------------------------------------------------------
(* Reading a cached token renews its TTL (ttlcache), if it has run down.   *)
Touched(cached, s) == cached[s] # None /\ cached[s].left < Validity

GetCachedJWT(s) ==
  /\ Touched(jwt, s)
  /\ jwt' = [jwt EXCEPT ![s].left = Validity]
  /\ UNCHANGED <<allocVars, stamp, flight, loop, waits, ticker, cwt, faults>>

GetCachedCWT(s) ==
  /\ Touched(cwt, s)
  /\ cwt' = [cwt EXCEPT ![s].left = Validity]
  /\ UNCHANGED <<allocVars, stamp, flight, loop, waits, ticker, jwt, faults>>

(* Mutant of Older: the item is dropped one tick late.                     *)
OlderByOne(t) == IF t = None THEN None ELSE [t EXCEPT !.left = @ - 1]

Older(t) == IF t = None \/ t.left = 1 THEN None ELSE [t EXCEPT !.left = @ - 1]

(* Time passes, up to the next tick.  A tick that the loop is too busy for *)
(* stays pending (the ticker's channel has room for one).                  *)
Advance ==
  /\ ticker > 0
  /\ ticker' = ticker - 1
  /\ jwt' = [s \in Sections |-> Older(jwt[s])]
  /\ cwt' = [s \in Sections |-> Older(cwt[s])]
  /\ UNCHANGED <<allocVars, stamp, flight, loop, waits, faults>>

Refreshing ==
  \/ TickerFires \/ refreshSectionCoalesced
  \/ \E w \in Workers : ReadEntry(w) \/ SetJWT(w) \/ SetCWT(w)

Next ==
  \/ \E c \in Callers : AddStatusReturns(c) \/ \E e \in Entries : AddStatus(c, e)
  \/ \E e \in Entries, s \in Statuses : UpdateStatus(e, s) \/ AdminUpdateStatus(e, s)
  \/ \E s \in Sections : GetCachedJWT(s) \/ GetCachedCWT(s)
  \/ Refreshing \/ SkipRound
  \/ \E w \in Workers : ReadFails(w) \/ SkipJWT(w)
  \/ Advance

Spec == Init /\ [][Next]_vars

(* The loop and every refresh that was started go on, and time passes.     *)
FairSpec ==
  /\ Spec
  /\ WF_vars(TickerFires \/ refreshSectionCoalesced)
  /\ \A w \in Workers : WF_vars(ReadEntry(w) \/ SetJWT(w) \/ SetCWT(w))
  /\ WF_vars(Advance)

-----------------------------------------------------------------------------
Shows(t, e, k) == t # None /\ t.list[e[2]] >= k

(* refreshSectionAsync: "it is safe to let the cache catch up in the       *)
(* background": every status that was written is shown by the JWT and by   *)
(* the CWT of its section some day, also when its own refresh was joined   *)
(* to one that had already read the entry, failed, or was never started.   *)
StatusPublished ==
  \A e \in Entries, k \in 1..MaxWrites :
    /\ stamp[e] = k ~> Shows(jwt[e[1]], e, k)
    /\ stamp[e] = k ~> Shows(cwt[e[1]], e, k)

(* A list that replaces a cached one shows no entry as it was before: a    *)
(* published revocation is not taken back by a slower refresh.             *)
ListsNeverGoBack ==
  [][\A s \in Sections, i \in 0..(Size - 1) :
       /\ jwt[s] # None /\ jwt'[s] # None => jwt'[s].list[i] >= jwt[s].list[i]
       /\ cwt[s] # None /\ cwt'[s] # None => cwt'[s].list[i] >= cwt[s].list[i]]_vars

(* "tokenValidity is how long tokens are valid (slightly longer than       *)
(* refresh)": when the loop has made its round and nothing failed, a list  *)
(* is there until the next tick.                                           *)
ServedBetweenTicks ==
  loop = None /\ ticker > 0 /\ faults = 0 => \A s \in Sections : jwt[s] # None
=============================================================================
