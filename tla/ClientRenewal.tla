--------------------------- MODULE ClientRenewal ---------------------------
(***************************************************************************)
(* The OIDC relying party of the API gateway registers itself at the OP    *)
(* and replaces its client before the secret expires (auth_providers/      *)
(* oidcrp).  Replicas share the store of registrations, the sessions and   *)
(* the lock of Locker, whose callers are the replicas; each has its own    *)
(* current client.                                                         *)
(*                                                                         *)
(* Service.mu is held through initialize and through the slow path of      *)
(* ensureCredentials, so a replica is at one place of them at a time; each *)
(* call to the OP, the database or the lock is a step.  As in Locker,      *)
(* deadlines are modelled by the time left until them.                     *)
(***************************************************************************)
EXTENDS Locker

CONSTANTS MaxClients,  \* bound: the OP refuses to register more clients
          Flows,       \* authorization flows
          Life,        \* lifetime of a client secret
          Session,     \* SessionDuration
          Margin,      \* clientSecretRenewBefore
          Skew,        \* flowStartSkew
          RetryBase, RetryMax,  \* bounds of the renewal backoff
          MaxFaults    \* bound: errors of the OP, the database or the lock,
                       \* and crashes

ASSUME RenewalAssumption ==
  /\ {Life, Margin, Skew, MaxFaults, RetryMax} \subseteq Nat
  /\ {MaxClients, Session} \subseteq Nat \ {0}
  /\ RetryBase \in 0..RetryMax
  /\ None \notin [id : 1..MaxClients, off : 0..Life]
  /\ None \notin [client : 1..MaxClients, left : 1..Session]

VARIABLES life,     \* time left of each registered client's secret
          issued,   \* clients the OP has registered so far
          rows,     \* stored registrations; a later one has a larger number
          cur,      \* credentialSet.current of each replica
          pc,       \* where the replica's locked section is
          new,      \* the client it has stored and not published
          backoff, retry,  \* credentialBackoff, time to credentialRetryAfter
          flow,     \* sessions
          blind,    \* history: replicas that register without the lock, or
                    \* without having read the store
          rogue,    \* history: clients stored blindly or after the lease
          faults
renewVars == <<life, issued, rows, cur, pc, new, backoff, retry, flow,
               blind, rogue, faults>>
allVars == <<vars, renewVars>>

Clients == 1..MaxClients
Lead == Session + Margin
Credentials == [id : Clients, off : 0..Life]
Flow == [client : Clients, left : 1..Session]
Steps == {"idle", "initSave", "lost", "acquired", "save", "prune", "release"}

RenewTypeOK ==
  /\ TypeOK
  /\ issued \in 0..MaxClients
  /\ life \in [Clients -> 0..Life]
  /\ rows \subseteq Clients
  /\ cur \in [Callers -> Credentials \cup {None}]
  /\ pc \in [Callers -> Steps]
  /\ new \in [Callers -> 0..MaxClients]
  /\ backoff \in [Callers -> 0..RetryMax]
  /\ retry \in [Callers -> 0..RetryMax]
  /\ flow \in [Flows -> Flow \cup {None}]
  /\ blind \subseteq Callers
  /\ rogue \subseteq Clients
  /\ faults \in 0..MaxFaults

(* Replicas start, with one client registered by an earlier one.           *)
RenewInit ==
  /\ Init /\ backend = "mongo"
  /\ issued = 1 /\ rows = {1} /\ blind = {} /\ rogue = {} /\ faults = 0
  /\ life = [k \in Clients |-> IF k = 1 THEN Life ELSE 0]
  /\ cur = [r \in Callers |-> None]
  /\ pc = [r \in Callers |-> "idle"]
  /\ new = [r \in Callers |-> 0]
  /\ backoff = [r \in Callers |-> 0]
  /\ retry = [r \in Callers |-> 0]
  /\ flow = [f \in Flows |-> None]

(* DynamicRegistrationColl.Get: the newest row, nothing if it has expired. *)
Gets(k) == k \in rows /\ (\A j \in rows : j <= k) /\ life[k] > 0
GetsNone == \A k \in rows : ~Gets(k)

(* buildCredentials: renewNotBefore lies in the future whenever less than  *)
(* twice the lead is left, also for a registration read from the store.    *)
holdOff(left) == IF left < 2 * Lead THEN (left + 1) \div 2 ELSE 0
buildCredentials(k) == [id |-> k, off |-> holdOff(life[k])]

(* Mutant of needsRenewal: a secret that is past its expiry is not looked  *)
(* at any more.                                                            *)
needsRenewalWhileAlive(c) == c.off = 0 /\ life[c.id] \in 1..Lead

needsRenewal(c) == c.off = 0 /\ life[c.id] <= Lead

Due(r) == cur[r] # None /\ needsRenewal(cur[r])
Usable(r) == life[cur[r].id] > 0
flowCanOutlastSecret(r) == life[cur[r].id] > Session + Skew

(* The replica holds a lease that has not run out and has read the store.  *)
Coordinated(r) == r \notin blind /\ hold[r] # None /\ hold[r].left > 0

GoTo(r, step) == pc' = [pc EXCEPT ![r] = step]
Failure == faults < MaxFaults /\ faults' = faults + 1

(* credentialSet.store.  The registrations it keeps for a while in this    *)
(* process after replacing them are left out: they only save a look-up in  *)
(* the store, which SessionClientStored shows to succeed.                  *)
store(r, k) == cur' = [cur EXCEPT ![r] = buildCredentials(k)]

-----------------------------------------------------------------------------
(* initialize.                                                             *)

(* A stored registration is used; without one, or when it cannot be read,  *)
(* the replica registers without taking the lock.                          *)
Initialize(r) ==
  /\ pc[r] = "idle" /\ cur[r] = None
  /\ \/ /\ \E k \in rows : Gets(k) /\ store(r, k)
        /\ UNCHANGED <<pc, blind, faults>>
     \/ /\ (GetsNone /\ UNCHANGED faults) \/ Failure
        /\ GoTo(r, "initSave")
        /\ blind' = blind \cup {r}
        /\ UNCHANGED cur
  /\ UNCHANGED <<vars, life, issued, rows, new, backoff, retry, flow, rogue>>

(* dynamicClientRegistration and Save.  A client that the OP registered    *)
(* and that was not stored is lost, so the two are one step that happens   *)
(* when the row is written.                                                *)
RegisterAndSave(r) ==
  /\ issued < MaxClients
  /\ issued' = issued + 1
  /\ life' = [life EXCEPT ![issued'] = Life]
  /\ rows' = rows \cup {issued'}
  /\ rogue' = IF Coordinated(r) THEN rogue ELSE rogue \cup {issued'}

InitSave(r) ==
  /\ pc[r] = "initSave"
  /\ RegisterAndSave(r)
  /\ cur' = [cur EXCEPT ![r] = [id |-> issued', off |-> holdOff(Life)]]
  /\ blind' = blind \ {r}
  /\ GoTo(r, "idle")
  /\ UNCHANGED <<vars, new, backoff, retry, flow, faults>>

(* The OP or the store fails: the service stays unready and tries again.   *)
InitFails(r) ==
  /\ pc[r] = "initSave"
  /\ Failure \/ (issued = MaxClients /\ UNCHANGED faults)
  /\ blind' = blind \ {r}
  /\ GoTo(r, "idle")
  /\ UNCHANGED <<vars, life, issued, rows, cur, new, backoff, retry, flow, rogue>>

-----------------------------------------------------------------------------
(* ensureCredentials.                                                      *)

(* Due, and not backing off from a failure.                                *)
WantsRenewal(r) == pc[r] = "idle" /\ Due(r) /\ retry[r] = 0

(* Any token nobody uses is as good as another.                            *)
AcquireLock(r) ==
  /\ WantsRenewal(r)
  /\ TryLock(r)
  /\ lock'.token = CHOOSE t \in FreshTokens : TRUE
  /\ GoTo(r, "acquired")
  /\ UNCHANGED <<life, issued, rows, cur, new, backoff, retry, flow, blind, rogue, faults>>

LoseLock(r) ==
  /\ WantsRenewal(r)
  /\ ~Free
  /\ GoTo(r, "lost")
  /\ UNCHANGED <<vars, life, issued, rows, cur, new, backoff, retry, flow,
                 blind, rogue, faults>>

(* The lock cannot be reached, or its holder cannot read the store: renew  *)
(* rather than refuse the flow.                                            *)
RenewBlindly(r) ==
  /\ WantsRenewal(r) \/ pc[r] = "acquired"
  /\ Failure
  /\ GoTo(r, "save")
  /\ blind' = blind \cup {r}
  /\ UNCHANGED <<vars, life, issued, rows, cur, new, backoff, retry, flow, rogue>>

(* adoptRenewedRegistration: the newest stored registration, when it is    *)
(* another client than the current one and not itself due.                 *)
CanAdopt(r, k) ==
  Gets(k) /\ k # cur[r].id /\ ~needsRenewal(buildCredentials(k))
NothingToAdopt(r) == \A k \in rows : ~CanAdopt(r, k)
Adopt(r) == \E k \in rows : CanAdopt(r, k) /\ store(r, k)

(* Mutant of AdoptAsHolder: the holder does not look at the store again.   *)
AdoptAsHolderNever(r) ==
  /\ pc[r] = "acquired"
  /\ GoTo(r, "save")
  /\ UNCHANGED <<vars, life, issued, rows, cur, new, backoff, retry, flow,
                 blind, rogue, faults>>

(* With the lock: adopt what a previous holder produced, else register.    *)
AdoptAsHolder(r) ==
  /\ pc[r] = "acquired"
  /\ \/ Adopt(r) /\ GoTo(r, "release")
     \/ NothingToAdopt(r) /\ GoTo(r, "save") /\ UNCHANGED cur
  /\ UNCHANGED <<vars, life, issued, rows, new, backoff, retry, flow, blind, rogue, faults>>

(* InitiateAuth records the current client in the session it creates; a    *)
(* request with bad parameters ends before that.                           *)
StartFlow(r) ==
  \/ \E f \in Flows :
       /\ flow[f] = None
       /\ flow' = [flow EXCEPT ![f] = [client |-> cur[r].id, left |-> Session]]
  \/ UNCHANGED flow

(* Without it: adopt the holder's result, or carry on with the current     *)
(* client if its secret outlasts a session, or refuse the request.         *)
AdoptAsLoser(r) ==
  /\ pc[r] = "lost"
  /\ GoTo(r, "idle")
  /\ \/ Adopt(r) /\ UNCHANGED <<flow, faults>>
     \/ /\ (NothingToAdopt(r) /\ UNCHANGED faults) \/ Failure
        /\ IF flowCanOutlastSecret(r) THEN StartFlow(r) ELSE UNCHANGED flow
        /\ UNCHANGED cur
  /\ UNCHANGED <<vars, life, issued, rows, new, backoff, retry, blind, rogue>>

-----------------------------------------------------------------------------
(* renewCredentials: Save, PruneExpiredRegistrations, publish.             *)

(* Mutant of Save: the new client is published before it is stored.        *)
SavePublishing(r) ==
  /\ pc[r] = "save"
  /\ issued < MaxClients
  /\ issued' = issued + 1
  /\ life' = [life EXCEPT ![issued'] = Life]
  /\ cur' = [cur EXCEPT ![r] = [id |-> issued', off |-> holdOff(Life)]]
  /\ GoTo(r, "release")
  /\ UNCHANGED <<vars, rows, new, backoff, retry, flow, blind, rogue, faults>>

Save(r) ==
  /\ pc[r] = "save"
  /\ RegisterAndSave(r)
  /\ new' = [new EXCEPT ![r] = issued']
  /\ GoTo(r, "prune")
  /\ UNCHANGED <<vars, cur, backoff, retry, flow, blind, faults>>

Published(r) ==
  /\ store(r, new[r])
  /\ new' = [new EXCEPT ![r] = 0]
  /\ backoff' = [backoff EXCEPT ![r] = 0]
  /\ retry' = [retry EXCEPT ![r] = 0]
  /\ GoTo(r, "release")

(* Rows whose secret has expired go, and the new client is published; a    *)
(* failure to remove them is ignored.                                      *)
Prune(r) ==
  /\ pc[r] = "prune"
  /\ \/ /\ rows' = {k \in rows : k = new[r] \/ life[k] > 0}
        /\ UNCHANGED faults
     \/ Failure /\ UNCHANGED rows
  /\ Published(r)
  /\ UNCHANGED <<vars, life, issued, flow, blind, rogue>>

Larger(a, b) == IF a > b THEN a ELSE b
Smaller(a, b) == IF a < b THEN a ELSE b

(* Mutant of RenewFails: the back-off doubles past oidcRPRetryMax.         *)
RenewFailsUncapped(r) ==
  /\ pc[r] = "save"
  /\ Failure \/ (issued = MaxClients /\ UNCHANGED faults)
  /\ LET b == Larger(2 * backoff[r], RetryBase)
     IN /\ backoff' = [backoff EXCEPT ![r] = b]
        /\ retry' = [retry EXCEPT ![r] = b]
  /\ GoTo(r, "release")
  /\ UNCHANGED <<vars, life, issued, rows, cur, new, flow, blind, rogue>>

(* The OP or the store fails: back off.                                    *)
RenewFails(r) ==
  /\ pc[r] = "save"
  /\ Failure \/ (issued = MaxClients /\ UNCHANGED faults)
  /\ LET b == Smaller(Larger(2 * backoff[r], RetryBase), RetryMax)
     IN /\ backoff' = [backoff EXCEPT ![r] = b]
        /\ retry' = [retry EXCEPT ![r] = b]
  /\ GoTo(r, "release")
  /\ UNCHANGED <<vars, life, issued, rows, cur, new, flow, blind, rogue>>

(* The deferred Unlock, if the lock was taken; when it fails the document  *)
(* stays.                                                                  *)
Release(r) ==
  /\ pc[r] = "release"
  /\ \/ hold[r] = None /\ UNCHANGED <<vars, faults>>
     \/ Unlock(r) /\ UNCHANGED faults
     \/ Crash(r) /\ Failure
  /\ blind' = blind \ {r}
  /\ GoTo(r, "idle")
  /\ UNCHANGED <<life, issued, rows, cur, new, backoff, retry, flow, rogue>>

-----------------------------------------------------------------------------
(* InitiateAuth where ensureCredentials has nothing to do, or backs off    *)
(* and the secret can still serve; else it refuses, which changes nothing. *)
InitiateAuth(r) ==
  /\ pc[r] = "idle" /\ cur[r] # None
  /\ ~Due(r) \/ (retry[r] > 0 /\ Usable(r))
  /\ StartFlow(r)
  /\ UNCHANGED <<vars, life, issued, rows, cur, pc, new, backoff, retry,
                 blind, rogue, faults>>

(* credentialsForSession: this process, or the store; never another client.*)
Resolves(r, k) == k = cur[r].id \/ k \in rows

(* ProcessCallback waits for Service.mu but does not renew.  The exchange  *)
(* fails with a dead secret, which deletes the session; so does the end of *)
(* the handler.                                                            *)
ProcessCallback(r, f) ==
  /\ pc[r] = "idle" /\ cur[r] # None
  /\ flow[f] # None
  /\ Resolves(r, flow[f].client)
  /\ flow' = [flow EXCEPT ![f] = None]
  /\ UNCHANGED <<vars, life, issued, rows, cur, pc, new, backoff, retry, blind, rogue, faults>>

-----------------------------------------------------------------------------
(* A replica dies with everything it has not stored and starts again.      *)
Die(r) ==
  /\ Failure
  /\ Crash(r) \/ (hold[r] = None /\ cur[r] # None /\ UNCHANGED vars)
  /\ cur' = [cur EXCEPT ![r] = None]
  /\ new' = [new EXCEPT ![r] = 0]
  /\ backoff' = [backoff EXCEPT ![r] = 0]
  /\ retry' = [retry EXCEPT ![r] = 0]
  /\ blind' = blind \ {r}
  /\ GoTo(r, "idle")
  /\ UNCHANGED <<life, issued, rows, flow, rogue>>

Less(n) == IF n = 0 THEN 0 ELSE n - 1

(* Time passes; a session whose time is up is gone.                        *)
Advance ==
  /\ lock' = Older(lock)
  /\ hold' = [r \in Callers |-> Older(hold[r])]
  /\ life' = [k \in Clients |-> Less(life[k])]
  /\ cur' = [r \in Callers |->
              IF cur[r] = None THEN None ELSE [cur[r] EXCEPT !.off = Less(@)]]
  /\ retry' = [r \in Callers |-> Less(retry[r])]
  /\ flow' = [f \in Flows |->
               IF flow[f] = None \/ flow[f].left = 1 THEN None
               ELSE [flow[f] EXCEPT !.left = @ - 1]]
  /\ <<lock, hold, life, cur, retry, flow>>' # <<lock, hold, life, cur, retry, flow>>
  /\ UNCHANGED <<backend, issued, rows, pc, new, backoff, blind, rogue, faults>>

SweepLock == Sweep /\ UNCHANGED renewVars

Request(r) ==
  \/ Initialize(r) \/ InitSave(r)
  \/ AcquireLock(r) \/ LoseLock(r)
  \/ AdoptAsHolder(r) \/ AdoptAsLoser(r)
  \/ Save(r) \/ Prune(r) \/ Release(r)

RenewNext ==
  \/ \E r \in Callers :
       \/ Request(r) \/ InitiateAuth(r)
       \/ InitFails(r) \/ RenewFails(r) \/ RenewBlindly(r) \/ Die(r)
       \/ \E f \in Flows : ProcessCallback(r, f)
  \/ SweepLock
  \/ Advance

RenewSpec == RenewInit /\ [][RenewNext]_allVars

(* Logins keep being started on every replica and what is started goes on, *)
(* time passes, and the database's TTL monitor runs.                       *)
FairRenewSpec ==
  /\ RenewSpec
  /\ \A r \in Callers : WF_allVars(Request(r))
  /\ WF_allVars(SweepLock)
  /\ WF_allVars(Advance)

-----------------------------------------------------------------------------
(* A callback may reach any replica, one that started later included: as   *)
(* long as a session and its client's secret are alive, the registration   *)
(* it was started on is in the shared store, whatever was renewed, pruned, *)
(* adopted or lost in a crash meanwhile.                                   *)
SessionClientStored ==
  \A f \in Flows :
    flow[f] # None /\ life[flow[f].client] > 0 => flow[f].client \in rows

(* Replicas that see one secret age out register one client for it: what a *)
(* coordinated renewal replaces is its own client or a dead one, never one *)
(* that another coordinated renewal stored while this one waited.          *)
OneRenewalPerSecret ==
  [][\A r \in Callers :
       Save(r) /\ Coordinated(r) =>
         \A k \in rows : Gets(k) => k = cur[r].id \/ k \in rogue]_allVars

(* An expired secret does not stay: logins recover after lost locks, OP    *)
(* and store failures and crashes, unless the OP is out of clients.        *)
ExpiredSecretReplaced ==
  \A r \in Callers :
    (cur[r] # None /\ life[cur[r].id] = 0 /\ issued < MaxClients)
      ~> (cur[r] = None \/ life[cur[r].id] > 0 \/ issued = MaxClients)

(* renewLead: "It must exceed the longest a flow can run - the session     *)
(* lifetime - so a flow begun just inside the window can still redeem its  *)
(* code": a replica that is not backing off from a failed renewal starts   *)
(* no flow on a secret that expires within the session.                    *)
FlowsOutlivedBySecret ==
  [][\A r \in Callers, f \in Flows :
       InitiateAuth(r) /\ retry[r] = 0 /\ flow[f] = None /\ flow'[f] # None
         => life[cur[r].id] >= Session]_allVars
=============================================================================
