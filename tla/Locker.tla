------------------------------- MODULE Locker -------------------------------
(***************************************************************************)
(* The advisory TTL lock of pkg/cache/lock.go, for one lock key.           *)
(*                                                                         *)
(* `lock' is the record the backend keeps for the key: MemoryLocker's map  *)
(* entry, or MongoLocker's document.  A deadline is modelled by the time   *)
(* left until it, so Tick moves every deadline closer and no clock grows.  *)
(*                                                                         *)
(* `hold[c]' is what caller c remembers: the ownership token TryLock gave  *)
(* it and the time left of the TTL it asked for.  A caller that crashes    *)
(* forgets its token without releasing the lock.                           *)
(***************************************************************************)
EXTENDS Integers, FiniteSets

CONSTANTS Callers,   \* goroutines or replicas that contend for the key
          Tokens,    \* ownership tokens (lockToken: random, never repeated)
          TTL,       \* the ttl every caller passes, in ticks
          None       \* no lock record; no token held

ASSUME LockerAssumption ==
  /\ TTL \in Nat \ {0}
  /\ None \notin [token : Tokens, left : 0..TTL]

VARIABLES backend,   \* the locker the deployment configured; never changes
          lock, hold
vars == <<backend, lock, hold>>

Record == [token : Tokens, left : 0..TTL]

TypeOK ==
  /\ backend \in {"memory", "mongo"}
  /\ lock \in Record \cup {None}
  /\ hold \in [Callers -> Record \cup {None}]

Init ==
  /\ backend \in {"memory", "mongo"}
  /\ lock = None
  /\ hold = [c \in Callers |-> None]

(* lockToken: 16 random bytes.  A token nobody remembers any more is as    *)
(* good as a new one, which keeps the set of tokens finite.                *)
FreshTokens ==
  {t \in Tokens : /\ lock # None => lock.token # t
                  /\ \A c \in Callers : hold[c] # None => hold[c].token # t}

(* MemoryLocker takes over a record whose deadline has passed; MongoLocker *)
(* inserts, so any record still in the collection makes it lose.           *)
Free == \/ lock = None
        \/ backend = "memory" /\ lock # None /\ lock.left = 0

TryLock(c) ==
  /\ hold[c] = None
  /\ Free
  /\ \E t \in FreshTokens :
       /\ lock' = [token |-> t, left |-> TTL]
       /\ hold' = [hold EXCEPT ![c] = [token |-> t, left |-> TTL]]
  /\ UNCHANGED backend

(* Mutant of Unlock: the delete filters on the key alone.                  *)
UnlockAnyToken(c) ==
  /\ hold[c] # None
  /\ lock' = None
  /\ hold' = [hold EXCEPT ![c] = None]
  /\ UNCHANGED backend

(* Unlock removes the record only when the caller's token is the one in it.*)
Unlock(c) ==
  /\ hold[c] # None
  /\ lock' = IF lock # None /\ lock.token = hold[c].token THEN None ELSE lock
  /\ hold' = [hold EXCEPT ![c] = None]
  /\ UNCHANGED backend

(* A replica dies, or its DeleteOne fails: the token is lost, the document *)
(* stays.  In memory the map dies with the process and Unlock cannot fail. *)
Crash(c) ==
  /\ backend = "mongo"
  /\ hold[c] # None
  /\ hold' = [hold EXCEPT ![c] = None]
  /\ UNCHANGED <<backend, lock>>

(* Mutant of Sweep: the TTL index is on a field the documents do not have, *)
(* so the monitor finds nothing to delete.                                 *)
SweepFindsNothing ==
  /\ backend = "mongo"
  /\ lock # None
  /\ lock.left = 0
  /\ UNCHANGED vars

(* MongoDB's TTL monitor, external: it deletes a document some time after  *)
(* expires_at has passed.                                                  *)
Sweep ==
  /\ backend = "mongo"
  /\ lock # None
  /\ lock.left = 0
  /\ lock' = None
  /\ UNCHANGED <<backend, hold>>

Older(r) ==
  IF r = None \/ r.left = 0 THEN r ELSE [token |-> r.token, left |-> r.left - 1]

Tick ==
  /\ lock' = Older(lock)
  /\ hold' = [c \in Callers |-> Older(hold[c])]
  /\ <<lock, hold>>' # <<lock, hold>>
  /\ UNCHANGED backend

Next ==
  \/ \E c \in Callers : TryLock(c) \/ Unlock(c) \/ Crash(c)
  \/ Sweep
  \/ Tick

Spec == Init /\ [][Next]_vars

-----------------------------------------------------------------------------

(* lock.go:24-33.  A caller whose TTL has not run out and that has not     *)
(* released is the one the record names, whatever late Unlocks, crashes    *)
(* and sweeps of other callers happened: so two callers are never inside   *)
(* their TTL together, and a late release never frees another's lock.      *)
LiveHolderKeepsLock ==
  \A c \in Callers :
    (hold[c] # None /\ hold[c].left > 0)
       => lock # None /\ lock.token = hold[c].token

(* lock.go:19-20, 106-111.  "a crashed holder cannot block the operation   *)
(* forever": a record whose token every caller has lost becomes takeable.  *)
Orphaned == lock # None /\ \A c \in Callers : hold[c] # None => hold[c].token # lock.token
OrphanedLockIsFreed == Orphaned ~> Free

=============================================================================
