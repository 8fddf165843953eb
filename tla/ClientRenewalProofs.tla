------------------------ MODULE ClientRenewalProofs ------------------------
(***************************************************************************)
(* Proofs about Locker and about ClientRenewal, which uses it, for any     *)
(* number of replicas and flows and any choice of the time constants.  The *)
(* lock's part in ClientRenewal is a refinement:                           *)
(* every step of the composition is a step of Locker or leaves the lock    *)
(* alone, so what is proved about Locker holds here.                       *)
(***************************************************************************)
EXTENDS ClientRenewal, TLAPS

-----------------------------------------------------------------------------
(* Locker by itself: LiveHolderKeepsLock for every set of callers and      *)
(* tokens and every TTL.  It is not inductive: Unlock needs that no two    *)
(* callers hold the same token, and a takeover needs that the record       *)
(* expires no sooner than its holder's TTL does.                           *)

(* Two callers never remember the same ownership token.                    *)
DistinctTokens ==
  \A c, d \in Callers :
    (c # d /\ hold[c] # None /\ hold[d] # None) => hold[c].token # hold[d].token

(* A live hold and the record it names run out together.                   *)
DeadlinesAgree ==
  \A c \in Callers :
    (hold[c] # None /\ hold[c].left > 0)
       => lock # None /\ lock.token = hold[c].token /\ lock.left = hold[c].left

IInv == TypeOK /\ DistinctTokens /\ DeadlinesAgree

(* The model's NONE is not a record, so the two can be told apart: the     *)
(* absence of a lock is never mistaken for one.                            *)
LEMMA InitInv == Init => IInv
BY LockerAssumption DEF Init, IInv, TypeOK, DistinctTokens, DeadlinesAgree

(* Ageing a record keeps its type and its token.                           *)
LEMMA OlderFacts ==
  ASSUME NEW r \in Record \cup {None}
  PROVE  /\ Older(r) \in Record \cup {None}
         /\ Older(r) = None <=> r = None
         /\ r # None => Older(r).token = r.token
         /\ r # None => Older(r).left = IF r.left = 0 THEN 0 ELSE r.left - 1
<1>1. CASE r = None
  BY <1>1 DEF Older
<1>2. CASE r # None
  BY <1>2, LockerAssumption DEF Older, Record
<1> QED BY <1>1, <1>2

(* Every step of the lock preserves the strengthened invariant.            *)
LEMMA StepInv == IInv /\ [Next]_vars => IInv'
<1> SUFFICES ASSUME IInv, [Next]_vars PROVE IInv'
  OBVIOUS
<1> USE LockerAssumption DEF IInv, TypeOK
<1>1. ASSUME NEW c \in Callers, TryLock(c) PROVE IInv'
  BY <1>1 DEF TryLock, Free, FreshTokens, Record, DistinctTokens, DeadlinesAgree
<1>2. ASSUME NEW c \in Callers, Unlock(c) PROVE IInv'
  BY <1>2 DEF Unlock, Record, DistinctTokens, DeadlinesAgree
<1>3. ASSUME NEW c \in Callers, Crash(c) PROVE IInv'
  BY <1>3 DEF Crash, Record, DistinctTokens, DeadlinesAgree
<1>4. CASE Sweep
  BY <1>4 DEF Sweep, Record, DistinctTokens, DeadlinesAgree
<1>5. CASE Tick
  BY <1>5, OlderFacts DEF Tick, Record, DistinctTokens, DeadlinesAgree
<1>6. CASE UNCHANGED vars
  BY <1>6 DEF vars, DistinctTokens, DeadlinesAgree
<1> QED BY <1>1, <1>2, <1>3, <1>4, <1>5, <1>6 DEF Next

(* A caller inside its TTL owns the lock record, for any number of callers *)
(* and any TTL (lock.go:24-33).                                            *)
THEOREM LiveHolderSafe == Spec => []LiveHolderKeepsLock
<1>1. IInv => LiveHolderKeepsLock
  BY DEF IInv, DeadlinesAgree, LiveHolderKeepsLock
<1> QED BY <1>1, InitInv, StepInv, PTL DEF Spec

(* The lock record and what callers remember of it are well typed: no      *)
(* deadline leaves 0..TTL.                                                 *)
THEOREM LockerTypeCorrect == Spec => []TypeOK
<1>1. IInv => TypeOK
  BY DEF IInv
<1> QED BY <1>1, InitInv, StepInv, PTL DEF Spec

-----------------------------------------------------------------------------
(* The clients that are renewed under the lock.                            *)

(* What a replica uses is stored, while its secret lives.                  *)
CurrentStored ==
  \A r \in Callers : cur[r] # None /\ life[cur[r].id] > 0 => cur[r].id \in rows

(* A replica inside ensureCredentials has a client; what it is about to    *)
(* publish is stored.                                                      *)
InRenewal ==
  \A r \in Callers :
    /\ pc[r] \in {"lost", "acquired", "save", "prune", "release"} => cur[r] # None
    /\ pc[r] = "prune" => /\ new[r] \in Clients
                          /\ life[new[r]] > 0 => new[r] \in rows

(* Later clients live longer, so pruning never brings back an older row.   *)
LifeOrdered ==
  /\ rows \subseteq 1..issued
  /\ \A j, k \in 1..issued : j <= k => life[j] <= life[k]

(* While a coordinated replica registers there is nothing to adopt but     *)
(* what was stored without coordination.                                   *)
Checked ==
  \A r \in Callers :
    pc[r] = "save" /\ Coordinated(r) =>
      \A k \in rows : Gets(k) => k = cur[r].id \/ k \in rogue

RInv ==
  /\ IInv
  /\ RenewTypeOK
  /\ CurrentStored
  /\ SessionClientStored
  /\ InRenewal
  /\ LifeOrdered
  /\ Checked

(* The assumption, split for the provers.                                  *)
LEMMA Constants ==
  /\ MaxClients \in Nat \ {0} /\ Life \in Nat /\ Margin \in Nat /\ Skew \in Nat
  /\ MaxFaults \in Nat /\ RetryMax \in Nat /\ RetryBase \in 0..RetryMax
  /\ Session \in Nat \ {0} /\ Lead \in Nat \ {0} /\ TTL \in Nat \ {0}
  /\ None \notin Credentials /\ None \notin Flow
BY RenewalAssumption, LockerAssumption DEF Lead, Credentials, Flow, Clients

(* Every step of the composition is a step of the lock, or leaves it alone.*)
LEMMA LockStep == ASSUME [RenewNext]_allVars PROVE [Next]_vars
<1>1. ASSUME NEW r \in Callers, Request(r) \/ InitiateAuth(r) PROVE [Next]_vars
  BY <1>1 DEF Request, Initialize, InitSave, AcquireLock, LoseLock, AdoptAsHolder,
     AdoptAsLoser, Save, Prune, Release, InitiateAuth, Next
<1>2. ASSUME NEW r \in Callers, InitFails(r) \/ RenewFails(r) \/ RenewBlindly(r) \/ Die(r)
      PROVE  [Next]_vars
  BY <1>2 DEF InitFails, RenewFails, RenewBlindly, Die, Next
<1>3. ASSUME NEW r \in Callers, NEW f \in Flows, ProcessCallback(r, f) PROVE [Next]_vars
  BY <1>3 DEF ProcessCallback
<1>4. CASE SweepLock
  BY <1>4 DEF SweepLock, Next
<1>5. CASE Advance
  BY <1>5 DEF Advance, Tick, Next, vars
<1>6. CASE UNCHANGED allVars
  BY <1>6 DEF allVars
<1> QED BY <1>1, <1>2, <1>3, <1>4, <1>5, <1>6 DEF RenewNext

(* The initial states.                                                     *)
LEMMA InitRInv == RenewInit => RInv
<1> SUFFICES ASSUME RenewInit PROVE RInv
  OBVIOUS
<1> USE Constants
<1>1. IInv
  BY InitInv DEF RenewInit
<1>2. RenewTypeOK
  BY <1>1 DEF IInv, RenewInit, RenewTypeOK, Clients, Steps
<1>3. CurrentStored /\ SessionClientStored /\ InRenewal /\ LifeOrdered /\ Checked
  BY DEF RenewInit, CurrentStored, SessionClientStored, InRenewal, LifeOrdered, Checked, Clients
<1> QED BY <1>1, <1>2, <1>3 DEF RInv

(* Two replicas are never inside a live lease together.                    *)
LEMMA OneCoordinated ==
  ASSUME IInv, NEW r \in Callers, NEW s \in Callers, Coordinated(r), Coordinated(s)
  PROVE  r = s
BY DEF IInv, DistinctTokens, DeadlinesAgree, Coordinated

(* renewNotBefore of a live secret lies ahead, or the secret is not due: a *)
(* registration that was just read or made is never due at once.           *)
LEMMA BuiltNotDue ==
  ASSUME RenewTypeOK, NEW k \in Clients
  PROVE  /\ buildCredentials(k) \in Credentials
         /\ buildCredentials(k) # None
         /\ buildCredentials(k).id = k
         /\ life[k] > 0 => ~needsRenewal(buildCredentials(k))
<1> USE Constants
<1>1. life[k] \in 0..Life
  BY DEF RenewTypeOK
<1>2. holdOff(life[k]) \in 0..Life
  BY <1>1 DEF holdOff
<1>3. life[k] > 0 /\ holdOff(life[k]) = 0 => life[k] > Lead
  BY <1>1 DEF holdOff
<1>4. buildCredentials(k) \in Credentials
  BY <1>2 DEF buildCredentials, Credentials
<1>5. life[k] > 0 => ~needsRenewal(buildCredentials(k))
  BY <1>1, <1>3 DEF buildCredentials, needsRenewal
<1> QED BY <1>4, <1>5 DEF buildCredentials

(* The same for a client registered at this moment.                        *)
LEMMA FreshCredentials ==
  ASSUME NEW k \in Clients
  PROVE  /\ [id |-> k, off |-> holdOff(Life)] \in Credentials
         /\ [id |-> k, off |-> holdOff(Life)] # None
<1> USE Constants
<1>1. holdOff(Life) \in 0..Life
  BY DEF holdOff
<1>2. [id |-> k, off |-> holdOff(Life)] \in Credentials
  BY <1>1 DEF Credentials
<1> QED BY <1>2

(* A registration that is stored.                                          *)
LEMMA RegisterFacts ==
  ASSUME RInv, NEW r \in Callers, RegisterAndSave(r)
  PROVE  /\ issued' \in Clients /\ issued' \in 0..MaxClients
         /\ issued' \in rows' /\ rows' = rows \cup {issued'}
         /\ rows' \subseteq Clients /\ rogue' \subseteq Clients
         /\ life' \in [Clients -> 0..Life]
         /\ life'[issued'] = Life
         /\ \A k \in Clients : k # issued' => life'[k] = life[k]
         /\ LifeOrdered'
<1> USE Constants
<1>1. issued' \in Clients /\ issued' = issued + 1 /\ issued \in Nat
  BY DEF RInv, RenewTypeOK, RegisterAndSave, Clients
<1>2. life' \in [Clients -> 0..Life] /\ life'[issued'] = Life
  BY <1>1 DEF RInv, RenewTypeOK, RegisterAndSave
<1>3. \A k \in Clients : k # issued' => life'[k] = life[k]
  BY <1>1 DEF RInv, RenewTypeOK, RegisterAndSave
<1>4. rows' = rows \cup {issued'} /\ rogue' \subseteq rogue \cup {issued'}
  BY DEF RegisterAndSave
<1>5. rows' \subseteq 1..issued' /\ 1..issued \subseteq Clients
  BY <1>1, <1>4 DEF RInv, LifeOrdered, RenewTypeOK, Clients
<1>6. ASSUME NEW j \in 1..issued', NEW k \in 1..issued', j <= k
      PROVE  life'[j] <= life'[k]
  <2>1. j \in Clients /\ k \in Clients
    BY <1>1 DEF Clients
  <2>2. CASE k = issued'
    BY <1>2, <2>1, <2>2
  <2>3. CASE k # issued'
    BY <1>1, <1>3, <2>1, <2>3, <1>6 DEF RInv, LifeOrdered
  <2> QED BY <2>2, <2>3
<1>7. LifeOrdered'
  BY <1>5, <1>6 DEF LifeOrdered
<1> QED BY <1>1, <1>2, <1>3, <1>4, <1>7 DEF RInv, RenewTypeOK, Clients

(* The type of what a replica's own steps write.                           *)
LEMMA RequestType ==
  ASSUME RInv, NEW r \in Callers, Request(r), TypeOK'
  PROVE  RenewTypeOK'
<1> USE Constants DEF RInv, RenewTypeOK
<1>1. CASE Initialize(r)
  BY <1>1, BuiltNotDue DEF Initialize, store, GoTo, Steps, Failure
<1>2. CASE InitSave(r)
  BY <1>2, RegisterFacts, FreshCredentials DEF InitSave, GoTo, Steps
<1>3. CASE AcquireLock(r)
  BY <1>3 DEF AcquireLock, GoTo, Steps
<1>4. CASE LoseLock(r)
  BY <1>4 DEF LoseLock, GoTo, Steps
<1>5. CASE AdoptAsHolder(r)
  BY <1>5, BuiltNotDue DEF AdoptAsHolder, Adopt, store, GoTo, Steps
<1>6. CASE AdoptAsLoser(r)
  <2>1. cur[r] # None /\ cur[r] \in Credentials
    BY <1>6 DEF AdoptAsLoser, InRenewal
  <2>2. [client |-> cur[r].id, left |-> Session] \in Flow
    BY <2>1 DEF Flow, Credentials
  <2>3. cur' \in [Callers -> Credentials \cup {None}]
    BY <1>6, BuiltNotDue DEF AdoptAsLoser, Adopt, store
  <2>4. flow' \in [Flows -> Flow \cup {None}]
    BY <1>6, <2>2 DEF AdoptAsLoser, StartFlow
  <2>5. faults' \in 0..MaxFaults
    BY <1>6 DEF AdoptAsLoser, Failure
  <2>6. pc' \in [Callers -> Steps]
    BY <1>6 DEF AdoptAsLoser, GoTo, Steps
  <2> QED BY <1>6, <2>3, <2>4, <2>5, <2>6 DEF AdoptAsLoser
<1>7. CASE Save(r)
  BY <1>7, RegisterFacts DEF Save, GoTo, Steps
<1>8. CASE Prune(r)
  BY <1>8, BuiltNotDue DEF Prune, Published, store, InRenewal, GoTo, Steps, Failure
<1>9. CASE Release(r)
  BY <1>9 DEF Release, GoTo, Steps, Failure
<1> QED BY <1>1, <1>2, <1>3, <1>4, <1>5, <1>6, <1>7, <1>8, <1>9 DEF Request

(* Counting down stays in range and in order.                              *)
LEMMA LessFacts ==
  ASSUME NEW n \in Nat
  PROVE  /\ Less(n) \in Nat /\ Less(n) <= n
         /\ Less(n) > 0 => n > 0
         /\ \A m \in Nat : n <= m => Less(n) <= Less(m)
BY DEF Less

(* The type of what the other steps write.                                 *)
LEMMA OtherType ==
  ASSUME RInv, TypeOK', [RenewNext]_allVars, ~\E r \in Callers : Request(r)
  PROVE  RenewTypeOK'
<1> USE Constants DEF RInv, RenewTypeOK
<1>1. ASSUME NEW r \in Callers, InitiateAuth(r) PROVE RenewTypeOK'
  <2>1. [client |-> cur[r].id, left |-> Session] \in Flow
    BY <1>1 DEF Flow, Credentials, InitiateAuth
  <2> QED BY <1>1, <2>1 DEF InitiateAuth, StartFlow
<1>2. ASSUME NEW r \in Callers, InitFails(r) PROVE RenewTypeOK'
  BY <1>2 DEF InitFails, GoTo, Steps, Failure
<1>3. ASSUME NEW r \in Callers, RenewFails(r) PROVE RenewTypeOK'
  BY <1>3 DEF RenewFails, GoTo, Steps, Failure, Smaller, Larger
<1>4. ASSUME NEW r \in Callers, RenewBlindly(r) PROVE RenewTypeOK'
  BY <1>4 DEF RenewBlindly, GoTo, Steps, Failure
<1>5. ASSUME NEW r \in Callers, Die(r) PROVE RenewTypeOK'
  BY <1>5 DEF Die, GoTo, Steps, Failure
<1>6. ASSUME NEW r \in Callers, NEW f \in Flows, ProcessCallback(r, f) PROVE RenewTypeOK'
  BY <1>6 DEF ProcessCallback
<1>7. CASE SweepLock
  BY <1>7 DEF SweepLock, renewVars
<1>8. CASE Advance
  <2>1. life' \in [Clients -> 0..Life]
    <3>1. \A k \in Clients : Less(life[k]) \in 0..Life
      BY LessFacts
    <3> QED BY <1>8, <3>1 DEF Advance
  <2>2. cur' \in [Callers -> Credentials \cup {None}]
    <3>1. ASSUME NEW r \in Callers, cur[r] # None
          PROVE  [cur[r] EXCEPT !.off = Less(@)] \in Credentials
      <4>1. cur[r] \in Credentials /\ Less(cur[r].off) \in 0..Life
        BY <3>1, LessFacts DEF Credentials
      <4> QED BY <4>1 DEF Credentials
    <3> QED BY <1>8, <3>1 DEF Advance
  <2>3. retry' \in [Callers -> 0..RetryMax]
    <3>1. \A r \in Callers : Less(retry[r]) \in 0..RetryMax
      BY LessFacts
    <3> QED BY <1>8, <3>1 DEF Advance
  <2>4. flow' \in [Flows -> Flow \cup {None}]
    <3>1. ASSUME NEW f \in Flows, flow[f] # None, flow[f].left # 1
          PROVE  [flow[f] EXCEPT !.left = @ - 1] \in Flow
      BY <3>1 DEF Flow
    <3> QED BY <1>8, <3>1 DEF Advance
  <2> QED BY <1>8, <2>1, <2>2, <2>3, <2>4 DEF Advance
<1>9. CASE UNCHANGED allVars
  BY <1>9 DEF allVars, renewVars
<1> QED BY <1>1, <1>2, <1>3, <1>4, <1>5, <1>6, <1>7, <1>8, <1>9 DEF RenewNext

Stored == CurrentStored /\ SessionClientStored /\ InRenewal /\ LifeOrdered

(* A registration that is stored disturbs no other client's row.           *)
LEMMA RegisterKeepsStored ==
  ASSUME RInv, NEW r \in Callers, RegisterAndSave(r), NEW k \in Clients,
         life[k] > 0 => k \in rows
  PROVE  life'[k] > 0 => k \in rows'
BY RegisterFacts

(* Who uses or is about to publish a client keeps finding it stored.       *)
LEMMA RequestStored ==
  ASSUME RInv, NEW r \in Callers, Request(r), RenewTypeOK'
  PROVE  Stored'
<1> USE Constants DEF RInv, RenewTypeOK, Stored
<1>1. CASE Initialize(r)
  <2>1. \A k \in Clients : life'[k] = life[k] /\ (k \in rows' <=> k \in rows)
    BY <1>1 DEF Initialize
  <2>2. CurrentStored'
    BY <1>1, <2>1, BuiltNotDue DEF Initialize, store, CurrentStored, Gets
  <2> QED BY <1>1, <2>2 DEF Initialize, store, GoTo, SessionClientStored, InRenewal, LifeOrdered
<1>2. CASE InitSave(r)
  <2>1. RegisterAndSave(r)
    BY <1>2 DEF InitSave
  <2>2. CurrentStored'
    BY <1>2, <2>1, RegisterFacts, FreshCredentials, RegisterKeepsStored
    DEF InitSave, CurrentStored, Credentials
  <2>3. SessionClientStored'
    BY <1>2, <2>1, RegisterKeepsStored DEF InitSave, SessionClientStored, Flow
  <2>4. InRenewal'
    BY <1>2, <2>1, RegisterKeepsStored DEF InitSave, InRenewal, GoTo
  <2> QED BY <2>1, <2>2, <2>3, <2>4, RegisterFacts
<1>3. CASE AcquireLock(r)
  BY <1>3 DEF AcquireLock, WantsRenewal, Due, GoTo, CurrentStored, SessionClientStored,
     InRenewal, LifeOrdered
<1>4. CASE LoseLock(r)
  BY <1>4 DEF LoseLock, WantsRenewal, Due, GoTo, CurrentStored, SessionClientStored,
     InRenewal, LifeOrdered
<1>5. CASE AdoptAsHolder(r)
  <2>1. CurrentStored'
    BY <1>5, BuiltNotDue DEF AdoptAsHolder, Adopt, store, CurrentStored
  <2>2. InRenewal'
    BY <1>5, BuiltNotDue DEF AdoptAsHolder, Adopt, store, GoTo, InRenewal
  <2> QED BY <1>5, <2>1, <2>2 DEF AdoptAsHolder, SessionClientStored, LifeOrdered
<1>6. CASE AdoptAsLoser(r)
  <2>1. CurrentStored'
    BY <1>6, BuiltNotDue DEF AdoptAsLoser, Adopt, store, CurrentStored
  <2>2. SessionClientStored'
    BY <1>6 DEF AdoptAsLoser, StartFlow, CurrentStored, SessionClientStored, InRenewal
  <2>3. InRenewal'
    BY <1>6, BuiltNotDue DEF AdoptAsLoser, Adopt, store, GoTo, InRenewal
  <2> QED BY <1>6, <2>1, <2>2, <2>3 DEF AdoptAsLoser, LifeOrdered
<1>7. CASE Save(r)
  <2>1. RegisterAndSave(r)
    BY <1>7 DEF Save
  <2>2. CurrentStored'
    BY <1>7, <2>1, RegisterKeepsStored DEF Save, CurrentStored, Credentials
  <2>3. SessionClientStored'
    BY <1>7, <2>1, RegisterKeepsStored DEF Save, SessionClientStored, Flow
  <2>4. InRenewal'
    BY <1>7, <2>1, RegisterFacts, RegisterKeepsStored DEF Save, InRenewal, GoTo
  <2> QED BY <2>1, <2>2, <2>3, <2>4, RegisterFacts
<1>8. CASE Prune(r)
  <2>1. \A k \in Clients : life[k] > 0 /\ k \in rows => k \in rows'
    BY <1>8 DEF Prune
  <2>2. rows' \subseteq rows /\ UNCHANGED <<life, issued, flow>>
    BY <1>8 DEF Prune
  <2>3. new[r] \in Clients /\ (life[new[r]] > 0 => new[r] \in rows)
    BY <1>8 DEF Prune, InRenewal
  <2>4. cur' = [cur EXCEPT ![r] = buildCredentials(new[r])]
    BY <1>8 DEF Prune, Published, store
  <2>5. CurrentStored'
    BY <2>1, <2>2, <2>3, <2>4, BuiltNotDue DEF CurrentStored, Credentials
  <2>6. SessionClientStored'
    BY <2>1, <2>2 DEF SessionClientStored, Flow
  <2>7. InRenewal'
    BY <1>8, <2>1, <2>2, <2>3, <2>4, BuiltNotDue DEF InRenewal, Prune, Published, GoTo
  <2> QED BY <2>2, <2>5, <2>6, <2>7 DEF LifeOrdered
<1>9. CASE Release(r)
  BY <1>9 DEF Release, GoTo, CurrentStored, SessionClientStored, InRenewal, LifeOrdered
<1> QED BY <1>1, <1>2, <1>3, <1>4, <1>5, <1>6, <1>7, <1>8, <1>9 DEF Request

(* The other steps.                                                        *)
LEMMA OtherStored ==
  ASSUME RInv, [RenewNext]_allVars, ~\E r \in Callers : Request(r), RenewTypeOK'
  PROVE  Stored'
<1> USE Constants DEF RInv, RenewTypeOK, Stored
<1>1. ASSUME NEW r \in Callers, InitiateAuth(r) PROVE Stored'
  BY <1>1 DEF InitiateAuth, StartFlow, CurrentStored, SessionClientStored, InRenewal, LifeOrdered
<1>2. ASSUME NEW r \in Callers, InitFails(r) PROVE Stored'
  BY <1>2 DEF InitFails, GoTo, CurrentStored, SessionClientStored, InRenewal, LifeOrdered
<1>3. ASSUME NEW r \in Callers, RenewFails(r) PROVE Stored'
  BY <1>3 DEF RenewFails, GoTo, CurrentStored, SessionClientStored, InRenewal, LifeOrdered
<1>4. ASSUME NEW r \in Callers, RenewBlindly(r) PROVE Stored'
  BY <1>4 DEF RenewBlindly, WantsRenewal, Due, GoTo, CurrentStored, SessionClientStored,
     InRenewal, LifeOrdered
<1>5. ASSUME NEW r \in Callers, Die(r) PROVE Stored'
  BY <1>5 DEF Die, GoTo, CurrentStored, SessionClientStored, InRenewal, LifeOrdered
<1>6. ASSUME NEW r \in Callers, NEW f \in Flows, ProcessCallback(r, f) PROVE Stored'
  BY <1>6 DEF ProcessCallback, CurrentStored, SessionClientStored, InRenewal, LifeOrdered
<1>7. CASE SweepLock
  BY <1>7 DEF SweepLock, renewVars, CurrentStored, SessionClientStored, InRenewal, LifeOrdered
<1>8. CASE Advance
  <2>1. \A k \in Clients : life'[k] > 0 => life[k] > 0
    BY <1>8, LessFacts DEF Advance
  <2>2. UNCHANGED <<rows, issued, pc, new>>
    BY <1>8 DEF Advance
  <2>3. ASSUME NEW r \in Callers
        PROVE  /\ cur'[r] = None <=> cur[r] = None
               /\ cur[r] # None => cur'[r].id = cur[r].id
    <3>1. CASE cur[r] = None
      BY <1>8, <3>1 DEF Advance
    <3>2. CASE cur[r] # None
      <4>1. cur[r] \in Credentials /\ cur'[r] = [cur[r] EXCEPT !.off = Less(@)]
        BY <1>8, <3>2 DEF Advance
      <4>2. Less(cur[r].off) \in 0..Life
        BY <4>1, LessFacts DEF Credentials
      <4>3. cur'[r] \in Credentials /\ cur'[r].id = cur[r].id
        BY <4>1, <4>2 DEF Credentials
      <4> QED BY <3>2, <4>3
    <3> QED BY <3>1, <3>2
  <2>4. CurrentStored'
    BY <2>1, <2>2, <2>3 DEF CurrentStored, Credentials
  <2>5. \A f \in Flows : flow'[f] # None => flow[f] # None /\ flow'[f].client = flow[f].client
    BY <1>8 DEF Advance, Flow
  <2>6. SessionClientStored'
    BY <2>1, <2>2, <2>5 DEF SessionClientStored, Flow
  <2>7. InRenewal'
    BY <2>1, <2>2, <2>3 DEF InRenewal
  <2>8. \A j, k \in 1..issued : j <= k => life'[j] <= life'[k]
    <3>1. 1..issued \subseteq Clients
      BY DEF Clients
    <3> QED BY <1>8, <3>1, LessFacts DEF Advance, LifeOrdered
  <2> QED BY <2>2, <2>4, <2>6, <2>7, <2>8 DEF LifeOrdered
<1>9. CASE UNCHANGED allVars
  BY <1>9 DEF allVars, renewVars, CurrentStored, SessionClientStored, InRenewal, LifeOrdered
<1> QED BY <1>1, <1>2, <1>3, <1>4, <1>5, <1>6, <1>7, <1>8, <1>9 DEF RenewNext

(* A replica that stays before its registration, with the lock it had, the *)
(* client it had and the store it looked at, stays coordinated with it.    *)
LEMMA CheckedKept ==
  ASSUME RInv,
         \A r \in Callers : pc'[r] = "save" /\ Coordinated(r)' =>
            pc[r] = "save" /\ Coordinated(r) /\ cur'[r].id = cur[r].id,
         \A k \in rows' : Gets(k)' => (k \in rows /\ Gets(k)) \/ k \in rogue',
         rogue \subseteq rogue'
  PROVE  Checked'
BY DEF RInv, Checked

(* Registration is where the lease matters: either the client it stores    *)
(* was stored without coordination, or nobody else is coordinated.         *)
LEMMA RegisterChecked ==
  ASSUME RInv, NEW r \in Callers, RegisterAndSave(r), pc'[r] # "save",
         \A s \in Callers : pc'[s] = "save" => pc[s] = "save",
         \A s \in Callers : s # r => cur'[s] = cur[s],
         UNCHANGED hold, blind \ {r} \subseteq blind'
  PROVE  Checked'
<1> USE DEF RInv, RenewTypeOK
<1>1. ASSUME NEW s \in Callers, pc'[s] = "save", Coordinated(s)'
      PROVE  s # r /\ pc[s] = "save" /\ Coordinated(s) /\ cur'[s] = cur[s]
  BY <1>1 DEF Coordinated
<1>2. ASSUME NEW k \in rows', Gets(k)' PROVE k = issued'
  <2>1. issued' \in rows' /\ rows' \subseteq 1..issued' /\ k <= issued'
    BY RegisterFacts DEF LifeOrdered, Clients
  <2>2. issued' <= k
    BY <1>2, <2>1 DEF Gets
  <2> QED BY <2>1, <2>2, RegisterFacts, Constants DEF Clients
<1>3. CASE Coordinated(r)
  BY <1>1, <1>3, OneCoordinated DEF Checked
<1>4. CASE ~Coordinated(r)
  <2>1. issued' \in rogue'
    BY <1>4 DEF RegisterAndSave
  <2> QED BY <1>2, <2>1 DEF Checked
<1> QED BY <1>3, <1>4

(* Every step keeps what a coordinated replica has established.            *)
LEMMA StepChecked ==
  ASSUME RInv, [RenewNext]_allVars, RenewTypeOK'
  PROVE  Checked'
<1> USE DEF RInv, RenewTypeOK
<1>1. ASSUME NEW r \in Callers, Initialize(r) PROVE Checked'
  BY <1>1, CheckedKept DEF Initialize, store, GoTo, Coordinated, Gets, vars
<1>2. ASSUME NEW r \in Callers, InitSave(r) PROVE Checked'
  BY <1>2, RegisterChecked DEF InitSave, GoTo, vars
<1>3. ASSUME NEW r \in Callers, AcquireLock(r) PROVE Checked'
  BY <1>3, CheckedKept DEF AcquireLock, TryLock, GoTo, Coordinated, Gets
<1>4. ASSUME NEW r \in Callers, LoseLock(r) PROVE Checked'
  BY <1>4, CheckedKept DEF LoseLock, GoTo, Coordinated, Gets, vars
<1>5. ASSUME NEW r \in Callers, AdoptAsHolder(r) PROVE Checked'
  <2>1. CASE Adopt(r) /\ GoTo(r, "release")
    BY <1>5, <2>1, CheckedKept DEF AdoptAsHolder, Adopt, store, GoTo, Coordinated, Gets, vars
  <2>2. CASE NothingToAdopt(r) /\ GoTo(r, "save") /\ UNCHANGED cur
    <3>1. \A k \in rows : Gets(k) => k = cur[r].id
      <4>1. \A k \in rows : k \in Clients
        OBVIOUS
      <4>2. \A k \in rows : Gets(k) => ~needsRenewal(buildCredentials(k))
        BY <4>1, BuiltNotDue DEF Gets
      <4> QED BY <2>2, <4>2 DEF NothingToAdopt, CanAdopt
    <3>2. UNCHANGED <<rows, life, rogue, hold, blind, cur>>
      BY <1>5, <2>2 DEF AdoptAsHolder, vars
    <3> QED BY <2>2, <3>1, <3>2 DEF Checked, GoTo, Coordinated, Gets
  <2> QED BY <1>5, <2>1, <2>2 DEF AdoptAsHolder
<1>6. ASSUME NEW r \in Callers, AdoptAsLoser(r) PROVE Checked'
  BY <1>6, CheckedKept DEF AdoptAsLoser, Adopt, store, GoTo, Coordinated, Gets, vars
<1>7. ASSUME NEW r \in Callers, Save(r) PROVE Checked'
  BY <1>7, RegisterChecked DEF Save, GoTo, vars
<1>8. ASSUME NEW r \in Callers, Prune(r) PROVE Checked'
  <2>1. rows' \subseteq rows /\ UNCHANGED <<life, rogue, hold, blind>>
    BY <1>8 DEF Prune, vars
  <2>2. \A j \in rows : life[j] > 0 => j \in rows'
    BY <1>8 DEF Prune
  <2>3. ASSUME NEW k \in rows', Gets(k)' PROVE Gets(k)
    <3>1. k \in rows /\ life[k] > 0
      BY <2>1, <2>3 DEF Gets
    <3>2. ASSUME NEW j \in rows PROVE j <= k
      <4>1. j \in 1..issued /\ k \in 1..issued /\ issued \in Nat
        BY <2>1 DEF LifeOrdered
      <4>2. CASE j \in rows'
        BY <2>3, <4>2 DEF Gets
      <4>3. CASE j \notin rows'
        <5>1. j \in Clients /\ k \in Clients
          BY <2>1
        <5>2. life[j] = 0
          BY <2>2, <4>3, <5>1, Constants
        <5> QED BY <3>1, <4>1, <5>1, <5>2, Constants DEF LifeOrdered
      <4> QED BY <4>2, <4>3
    <3> QED BY <3>1, <3>2 DEF Gets
  <2>4. ASSUME NEW s \in Callers, pc'[s] = "save"
        PROVE  pc[s] = "save" /\ cur'[s] = cur[s]
    BY <1>8, <2>4 DEF Prune, Published, store, GoTo
  <2>5. \A s \in Callers : Coordinated(s)' => Coordinated(s)
    BY <2>1 DEF Coordinated
  <2> QED BY <2>1, <2>3, <2>4, <2>5, CheckedKept
<1>9. ASSUME NEW r \in Callers, Release(r) PROVE Checked'
  <2>1. /\ pc' = [pc EXCEPT ![r] = "idle"]
        /\ blind' = blind \ {r}
        /\ UNCHANGED <<rows, life, rogue>>
        /\ \A s \in Callers : s # r => cur'[s] = cur[s]
    BY <1>9 DEF Release, GoTo
  <2>2. \A s \in Callers : s # r => hold'[s] = hold[s]
    BY <1>9 DEF Release, Unlock, Crash, vars, IInv, TypeOK
  <2>3. ASSUME NEW s \in Callers, pc'[s] = "save", Coordinated(s)'
        PROVE  pc[s] = "save" /\ Coordinated(s) /\ cur'[s] = cur[s]
    BY <2>1, <2>2, <2>3 DEF Coordinated
  <2> QED BY <2>1, <2>3, CheckedKept DEF Gets
<1>10. ASSUME NEW r \in Callers, InitiateAuth(r) PROVE Checked'
  BY <1>10, CheckedKept DEF InitiateAuth, Coordinated, Gets, vars
<1>11. ASSUME NEW r \in Callers, InitFails(r) PROVE Checked'
  BY <1>11, CheckedKept DEF InitFails, GoTo, Coordinated, Gets, vars
<1>12. ASSUME NEW r \in Callers, RenewFails(r) PROVE Checked'
  BY <1>12, CheckedKept DEF RenewFails, GoTo, Coordinated, Gets, vars
<1>13. ASSUME NEW r \in Callers, RenewBlindly(r) PROVE Checked'
  BY <1>13, CheckedKept DEF RenewBlindly, GoTo, Coordinated, Gets, vars
<1>14. ASSUME NEW r \in Callers, Die(r) PROVE Checked'
  <2>1. /\ pc' = [pc EXCEPT ![r] = "idle"]
        /\ blind' = blind \ {r}
        /\ UNCHANGED <<rows, life, rogue>>
        /\ \A s \in Callers : s # r => cur'[s] = cur[s]
    BY <1>14 DEF Die, GoTo
  <2>2. \A s \in Callers : s # r => hold'[s] = hold[s]
    BY <1>14 DEF Die, Unlock, Crash, vars, IInv, TypeOK
  <2>3. ASSUME NEW s \in Callers, pc'[s] = "save", Coordinated(s)'
        PROVE  pc[s] = "save" /\ Coordinated(s) /\ cur'[s] = cur[s]
    BY <2>1, <2>2, <2>3 DEF Coordinated
  <2> QED BY <2>1, <2>3, CheckedKept DEF Gets
<1>15. ASSUME NEW r \in Callers, NEW f \in Flows, ProcessCallback(r, f) PROVE Checked'
  BY <1>15, CheckedKept DEF ProcessCallback, Coordinated, Gets, vars
<1>16. CASE SweepLock
  BY <1>16, CheckedKept DEF SweepLock, Sweep, renewVars, Coordinated, Gets
<1>17. CASE Advance
  <2>1. \A k \in Clients : life'[k] > 0 => life[k] > 0
    BY <1>17, LessFacts, Constants DEF Advance
  <2>2. UNCHANGED <<rows, pc, blind, rogue>>
    BY <1>17 DEF Advance
  <2>3. \A k \in rows' : Gets(k)' => k \in rows /\ Gets(k)
    BY <2>1, <2>2 DEF Gets
  <2>4. ASSUME NEW s \in Callers, Coordinated(s)' PROVE Coordinated(s)
    <3>1. hold'[s] = Older(hold[s]) /\ hold[s] \in Record \cup {None}
      BY <1>17 DEF Advance, IInv, TypeOK
    <3> QED BY <2>2, <2>4, <3>1, OlderFacts DEF Coordinated, Record
  <2>5. ASSUME NEW s \in Callers, pc[s] = "save" PROVE cur'[s].id = cur[s].id
    <3>1. cur[s] \in Credentials /\ cur[s] # None
      BY <2>5 DEF InRenewal
    <3> QED BY <1>17, <3>1 DEF Advance, Credentials
  <2> QED BY <2>2, <2>3, <2>4, <2>5, CheckedKept
<1>18. CASE UNCHANGED allVars
  BY <1>18, CheckedKept DEF allVars, renewVars, vars, Coordinated, Gets
<1> QED BY <1>1, <1>2, <1>3, <1>4, <1>5, <1>6, <1>7, <1>8, <1>9, <1>10, <1>11, <1>12,
          <1>13, <1>14, <1>15, <1>16, <1>17, <1>18 DEF RenewNext, Request

(* The invariant is inductive.                                             *)
LEMMA StepRInv == RInv /\ [RenewNext]_allVars => RInv'
<1> SUFFICES ASSUME RInv, [RenewNext]_allVars PROVE RInv'
  OBVIOUS
<1>1. IInv' /\ TypeOK'
  BY LockStep, StepInv DEF RInv, IInv
<1>2. RenewTypeOK'
  BY <1>1, RequestType, OtherType
<1>3. Stored'
  BY <1>2, RequestStored, OtherStored
<1>4. Checked'
  BY <1>2, StepChecked
<1> QED BY <1>1, <1>2, <1>3, <1>4 DEF RInv, Stored

(* Every reachable state is well typed: leases, secrets and sessions stay  *)
(* in range, and no client beyond the registered ones is used.             *)
THEOREM RenewalTypeCorrect == RenewSpec => []RenewTypeOK
<1>1. RInv => RenewTypeOK
  BY DEF RInv
<1> QED BY <1>1, InitRInv, StepRInv, PTL DEF RenewSpec

(* A callback finds the registration its session was started on, on any    *)
(* replica, for any number of replicas, flows, faults and lifetimes: save  *)
(* before publish (service.go:543-571) and the expiry filter of the prune. *)
THEOREM SessionsStayResolvable == RenewSpec => []SessionClientStored
<1>1. RInv => SessionClientStored
  BY DEF RInv
<1> QED BY <1>1, InitRInv, StepRInv, PTL DEF RenewSpec

(* Renewal uses the lock as its specification allows.                      *)
THEOREM RenewalUsesLock == RenewSpec => Spec
<1>1. RenewInit => Init
  BY DEF RenewInit
<1> QED BY <1>1, LockStep, PTL DEF RenewSpec, Spec

(* The lease of the renewal lock is exclusive among replicas that renew,   *)
(* crash and release late.                                                 *)
THEOREM RenewalLeaseSafe == RenewSpec => []LiveHolderKeepsLock
BY RenewalUsesLock, LiveHolderSafe, PTL

(* One coordinated registration per secret that ages out, whatever the     *)
(* number of replicas (ensureCredentials' second look at the store).       *)
THEOREM OneRenewal == RenewSpec => OneRenewalPerSecret
<1>1. RInv /\ [RenewNext]_allVars =>
        [\A r \in Callers :
           Save(r) /\ Coordinated(r) =>
             \A k \in rows : Gets(k) => k = cur[r].id \/ k \in rogue]_allVars
  BY DEF RInv, Checked, Save
<1> QED BY <1>1, InitRInv, StepRInv, PTL DEF RenewSpec, OneRenewalPerSecret
=============================================================================
