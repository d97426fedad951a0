-------------------------- MODULE NotificationOutbox --------------------------
(***************************************************************************)
(* The outbox of push notifications                                        *)
(* (apps/app-notifications/src/notifications/notification-outbox.service.ts*)
(* and the dispatch of fcm.service.ts).                                    *)
(*                                                                         *)
(* Importers and the challenge worker write events.  Every ten seconds an  *)
(* instance that is not processing recovers the claims that are older than *)
(* ten minutes, claims a batch (SKIP LOCKED) and delivers it: one group    *)
(* after the other, and within a group one locale after the other, to the  *)
(* devices that were active when the group was begun.  Every status update *)
(* goes by id, whatever the row's status has become.                       *)
(***************************************************************************)
EXTENDS Naturals, FiniteSets

CONSTANTS
    Events,        \* NotificationOutbox rows, by deduplication key
    Kind,          \* their types: "ranking", "result" or "challenge"
    Competition,   \* of a result event: player category and competition
    Devices,       \* device tokens
    Locale,        \* the language of a device
    Interested,    \* the devices whose topics and types an event matches
    Instances,     \* app-notifications processes
    BatchSize,     \* events of one claim (200 in the code)
    Limit,         \* attempts after which an event is given up (8)
    MaxClaims,     \* bound: claims of one event
    MaxFaults,     \* bound: faults, failing statements, FCM errors
    Outlive,       \* may a batch take longer than ten minutes?
    FcmFails       \* may FCM refuse or lose messages to installed devices?

ASSUME KindAssumption == Kind \in [Events -> {"ranking", "result", "challenge"}]
ASSUME AudienceAssumption == Interested \in [Events -> SUBSET Devices]
ASSUME BoundsAssumption ==
    /\ BatchSize \in Nat \ {0} /\ Limit \in Nat \ {0}
    /\ MaxClaims \in Nat /\ MaxFaults \in Nat
ASSUME InstancesAssumption == IsFiniteSet(Instances)
ASSUME DevicesAssumption == IsFiniteSet(Devices)
ASSUME SwitchAssumption == {Outlive, FcmFails} \subseteq BOOLEAN

VARIABLES
    status,     \* of each event, "ABSENT" before it is written
    attempts,   \* its attempts column: the claims it has had
    waiting,    \* PENDING events whose availableAt lies ahead
    stale,      \* PROCESSING events claimed more than ten minutes ago
    active,     \* devices with an active subscription
    installed,  \* devices whose token FCM still knows
    pc,         \* per instance: "idle", "claim", "deliver", "send", "settle", "failed"
    batch,      \* the claimed events it has not settled
    claimed,    \* the attempts it read when it claimed them
    group,      \* the events it delivers now
    audience,   \* the devices it has still to dispatch them to
    faults,     \* history: faults so far
    shown,      \* history: how often an event was shown on a device
    entitled    \* history: devices active ever since the event was written

rows     == <<status, attempts, waiting, stale>>
registry == <<active, installed>>
process  == <<pc, batch, claimed, group, audience>>
vars     == <<rows, registry, process, faults, shown, entitled>>

EventStatus == {"ABSENT", "PENDING", "PROCESSING", "PROCESSED", "FAILED"}
Places == {"idle", "claim", "deliver", "send", "settle", "failed"}

TypeOK ==
    /\ status \in [Events -> EventStatus]
    /\ attempts \in [Events -> 0..MaxClaims]
    /\ waiting \in SUBSET Events
    /\ stale \in SUBSET Events
    /\ active \in SUBSET Devices
    /\ installed \in SUBSET Devices
    /\ pc \in [Instances -> Places]
    /\ batch \in [Instances -> SUBSET Events]
    /\ claimed \in [Instances -> [Events -> 0..MaxClaims]]
    /\ group \in [Instances -> SUBSET Events]
    /\ audience \in [Instances -> SUBSET Devices]
    /\ faults \in 0..MaxFaults
    /\ shown \in [Events -> [Devices -> 0..MaxClaims]]
    /\ entitled \in [Events -> SUBSET Devices]

Init ==
    /\ status = [e \in Events |-> "ABSENT"]
    /\ attempts = [e \in Events |-> 0]
    /\ waiting = {}
    /\ stale = {}
    /\ active \in SUBSET Devices
    /\ installed = Devices
    /\ pc = [i \in Instances |-> "idle"]
    /\ batch = [i \in Instances |-> {}]
    /\ claimed = [i \in Instances |-> [e \in Events |-> 0]]
    /\ group = [i \in Instances |-> {}]
    /\ audience = [i \in Instances |-> {}]
    /\ faults = 0
    /\ shown = [e \in Events |-> [d \in Devices |-> 0]]
    /\ entitled = [e \in Events |-> {}]

-------------------------------------------------------------------------------
(* The world around the outbox.                                            *)

(* A producer inserts the event, available at once or in two minutes;     *)
(* a second insert of the same deduplication key does nothing.             *)
Write(e) ==
    /\ status[e] = "ABSENT"
    /\ status' = [status EXCEPT ![e] = "PENDING"]
    /\ waiting' = IF Kind[e] = "result" THEN waiting \cup {e} ELSE waiting
    /\ entitled' = [entitled EXCEPT ![e] = Interested[e] \cap active \cap installed]
    /\ UNCHANGED <<attempts, stale, registry, process, faults, shown>>

(* availableAt has come. *)
Due(e) ==
    /\ e \in waiting
    /\ waiting' = waiting \ {e}
    /\ UNCHANGED <<status, attempts, stale, registry, process, faults, shown, entitled>>

(* Ten minutes have passed since the claim. *)
Age(e) ==
    /\ status[e] = "PROCESSING"
    /\ e \notin stale
    /\ Outlive \/ \A i \in Instances : e \notin batch[i]
    /\ stale' = stale \cup {e}
    /\ UNCHANGED <<status, attempts, waiting, registry, process, faults, shown, entitled>>

NoLongerEntitled(d) == entitled' = [e \in Events |-> entitled[e] \ {d}]

(* registerDevice and unregisterDevice of the API. *)
Register(d) ==
    /\ d \in installed \ active
    /\ active' = active \cup {d}
    /\ UNCHANGED <<rows, installed, process, faults, shown, entitled>>

Unregister(d) ==
    /\ d \in active
    /\ active' = active \ {d}
    /\ NoLongerEntitled(d)
    /\ UNCHANGED <<rows, installed, process, faults, shown>>

(* The application is removed: FCM answers not-registered from now on. *)
Uninstall(d) ==
    /\ d \in installed
    /\ installed' = installed \ {d}
    /\ NoLongerEntitled(d)
    /\ UNCHANGED <<rows, active, process, faults, shown>>

-------------------------------------------------------------------------------
(* One instance.                                                           *)

Place(i, where) == pc' = [pc EXCEPT ![i] = where]

(* A step that may be a fault counts against the bound. *)
Fault(occurs) ==
    /\ faults' = faults + (IF occurs THEN 1 ELSE 0)
    /\ faults' <= MaxFaults

Abandon(i) ==
    /\ Place(i, "idle")
    /\ batch' = [batch EXCEPT ![i] = {}]
    /\ claimed' = [claimed EXCEPT ![i] = [e \in Events |-> 0]]
    /\ group' = [group EXCEPT ![i] = {}]
    /\ audience' = [audience EXCEPT ![i] = {}]

(* The claims recoverStaleEvents takes back.  Mutants: whatever their age; *)
(* none.                                                                   *)
RecoverableAnyAge == {e \in Events : status[e] = "PROCESSING"}
RecoverableNever == {}
Recoverable == {e \in stale : status[e] = "PROCESSING"}

(* onModuleInit and each tick of an instance that is not processing begin  *)
(* with recoverStaleEvents; if the update throws, the tick is over.        *)
Recover(i, fails) ==
    /\ pc[i] = "idle"
    /\ status' = [e \in Events |-> IF e \in Recoverable THEN "PENDING" ELSE status[e]]
    /\ stale' = stale \ Recoverable
    /\ Place(i, IF fails THEN "idle" ELSE "claim")
    /\ Fault(fails)
    /\ UNCHANGED <<attempts, waiting, registry, batch, claimed, group, audience>>
    /\ UNCHANGED <<shown, entitled>>

Claimable ==
    {e \in Events : status[e] = "PENDING" /\ e \notin waiting /\ attempts[e] < MaxClaims}

Batches ==
    IF Cardinality(Claimable) <= BatchSize THEN {Claimable}
    ELSE {S \in SUBSET Claimable : Cardinality(S) = BatchSize}

(* claimPendingEvents: one statement marks and returns the batch.  If it   *)
(* fails, having claimed or not, the tick is over.                         *)
Claim(i, S, fails) ==
    /\ pc[i] = "claim"
    /\ S \in Batches \/ (fails /\ S = {})
    /\ status' = [e \in Events |-> IF e \in S THEN "PROCESSING" ELSE status[e]]
    /\ attempts' = [e \in Events |-> IF e \in S THEN attempts[e] + 1 ELSE attempts[e]]
    /\ LET got == IF fails THEN {} ELSE S
       IN  /\ batch' = [batch EXCEPT ![i] = got]
           /\ claimed' = [claimed EXCEPT ![i] =
                  [e \in Events |-> IF e \in got THEN attempts[e] + 1 ELSE 0]]
           /\ Place(i, IF got = {} THEN "idle" ELSE "deliver")
    /\ Fault(fails)
    /\ UNCHANGED <<waiting, stale, registry, group, audience, shown, entitled>>

(* Ranking and challenge events go one by one, results by competition,     *)
(* and the types in this order.                                            *)
Groups(S) ==
    {{e} : e \in {x \in S : Kind[x] # "result"}} \cup
    {{e \in S : Kind[e] = "result" /\ Competition[e] = Competition[x]} :
        x \in {y \in S : Kind[y] = "result"}}

Rank(e) == CASE Kind[e] = "ranking" -> 1 [] Kind[e] = "result" -> 2 [] OTHER -> 3

(* processGroup begins: the group's audience is read, or the read throws. *)
Begin(i, G, fails) ==
    /\ pc[i] = "deliver"
    /\ G \in Groups(batch[i])
    /\ \A e \in G, f \in batch[i] : Rank(e) <= Rank(f)
    /\ group' = [group EXCEPT ![i] = G]
    /\ LET targets == active \cap UNION {Interested[e] : e \in G}
       IN  /\ audience' = [audience EXCEPT ![i] = IF fails THEN {} ELSE targets]
           /\ Place(i, IF fails THEN "failed" ELSE IF targets = {} THEN "settle" ELSE "send")
    /\ Fault(fails)
    /\ UNCHANGED <<rows, registry, batch, claimed, shown, entitled>>

Targets(i, l) == {d \in audience[i] : Locale[d] = l}

Show(i, reached) ==
    shown' = [e \in Events |-> [d \in Devices |->
        shown[e][d] + IF e \in group[i] /\ d \in reached THEN 1 ELSE 0]]

SendFails(i) ==
    /\ audience' = [audience EXCEPT ![i] = {}]
    /\ Place(i, "failed")

(* The devices left to send to.  Mutant: the first locale ends the loop. *)
NoOtherLocale(i, l) == {}
OtherLocales(i, l) == audience[i] \ Targets(i, l)

(* Who is still subscribed once FCM has answered. *)
StillActive(i, l, cleaned) ==
    IF cleaned THEN active \ (Targets(i, l) \ installed) ELSE active

(* sendNotification to the devices of one locale, answered by FCM: the     *)
(* tokens it does not know are deactivated, unless that update fails, and  *)
(* the send fails only if it reached no device at all.                     *)
Dispatch(i, l, reached, cleaned) ==
    LET rest == OtherLocales(i, l)
    IN  /\ pc[i] = "send"
        /\ Targets(i, l) # {}
        /\ reached \subseteq Targets(i, l) \cap installed
        /\ FcmFails \/ reached = Targets(i, l) \cap installed
        /\ Show(i, reached)
        /\ active' = StillActive(i, l, cleaned)
        /\ IF reached # {}
           THEN /\ audience' = [audience EXCEPT ![i] = rest]
                /\ Place(i, IF rest = {} THEN "settle" ELSE "send")
           ELSE SendFails(i)
        /\ Fault(~cleaned \/ reached # Targets(i, l) \cap installed)
        /\ UNCHANGED <<rows, installed, batch, claimed, group, entitled>>

(* The call fails after FCM has shown the message on some devices. *)
DispatchLost(i, l, reached) ==
    /\ pc[i] = "send"
    /\ Targets(i, l) # {}
    /\ reached \subseteq Targets(i, l) \cap installed
    /\ Show(i, reached)
    /\ SendFails(i)
    /\ Fault(TRUE)
    /\ UNCHANGED <<rows, registry, batch, claimed, group, entitled>>

(* What is left of the batch after the group.  Mutant: all of it. *)
RestAll(i) == batch[i]
Rest(i) == batch[i] \ group[i]

NextGroup(i) ==
    /\ batch' = [batch EXCEPT ![i] = Rest(i)]
    /\ claimed' = [claimed EXCEPT ![i] =
           [e \in Events |-> IF e \in Rest(i) THEN claimed[i][e] ELSE 0]]
    /\ group' = [group EXCEPT ![i] = {}]
    /\ audience' = [audience EXCEPT ![i] = {}]
    /\ Place(i, IF Rest(i) = {} THEN "idle" ELSE "deliver")

(* The group was delivered: its rows become PROCESSED. *)
Settle(i) ==
    /\ pc[i] = "settle"
    /\ status' = [e \in Events |-> IF e \in group[i] THEN "PROCESSED" ELSE status[e]]
    /\ stale' = stale \ group[i]
    /\ waiting' = waiting \ group[i]
    /\ NextGroup(i)
    /\ UNCHANGED <<attempts, registry, faults, shown, entitled>>

(* The update throws, and the catch block takes over. *)
SettleFails(i, committed) ==
    /\ pc[i] = "settle"
    /\ status' = [e \in Events |->
           IF committed /\ e \in group[i] THEN "PROCESSED" ELSE status[e]]
    /\ stale' = IF committed THEN stale \ group[i] ELSE stale
    /\ waiting' = IF committed THEN waiting \ group[i] ELSE waiting
    /\ Place(i, "failed")
    /\ Fault(TRUE)
    /\ UNCHANGED <<attempts, registry, batch, claimed, group, audience>>
    /\ UNCHANGED <<shown, entitled>>

GivenUp(i, e) == claimed[i][e] >= Limit

(* The catch block of processGroup reschedules the events or gives them    *)
(* up, each with a statement of its own; if one throws, the batch is       *)
(* dropped and its other groups stay PROCESSING.                           *)
Reschedule(i, done, throws) ==
    /\ pc[i] = "failed"
    /\ done \subseteq group[i]
    /\ done # group[i] => throws
    /\ status' = [e \in Events |->
           IF e \in done THEN IF GivenUp(i, e) THEN "FAILED" ELSE "PENDING"
           ELSE status[e]]
    /\ waiting' = (waiting \ done) \cup {e \in done : ~GivenUp(i, e)}
    /\ stale' = stale \ done
    /\ IF throws THEN Abandon(i) ELSE NextGroup(i)
    /\ Fault(throws)
    /\ UNCHANGED <<attempts, registry, shown, entitled>>

Crash(i) ==
    /\ pc[i] # "idle"
    /\ Abandon(i)
    /\ Fault(TRUE)
    /\ UNCHANGED <<rows, registry, shown, entitled>>

-------------------------------------------------------------------------------
Tick(i) ==
    \/ \E fails \in BOOLEAN : Recover(i, fails)
    \/ \E S \in SUBSET Events, fails \in BOOLEAN : Claim(i, S, fails)

Deliver(i) ==
    \/ \E G \in SUBSET Events, fails \in BOOLEAN : Begin(i, G, fails)
    \/ \E l \in {Locale[d] : d \in Devices}, reached \in SUBSET Devices :
          \/ \E cleaned \in BOOLEAN : Dispatch(i, l, reached, cleaned)
          \/ DispatchLost(i, l, reached)
    \/ Settle(i)
    \/ \E committed \in BOOLEAN : SettleFails(i, committed)
    \/ \E done \in SUBSET Events, throws \in BOOLEAN : Reschedule(i, done, throws)

World ==
    \/ \E e \in Events : Write(e) \/ Due(e) \/ Age(e)
    \/ \E d \in Devices : Register(d) \/ Unregister(d) \/ Uninstall(d)

Next ==
    \/ \E i \in Instances : Tick(i) \/ Deliver(i) \/ Crash(i)
    \/ World

Spec == Init /\ [][Next]_vars

(* The interval timer fires, calls are answered or time out, times come.   *)
(* Nobody has to write, register or uninstall anything.                    *)
FairSpec ==
    /\ Spec
    /\ \A i \in Instances : WF_vars(Tick(i) \/ Deliver(i))
    /\ \A e \in Events : WF_vars(Due(e)) /\ WF_vars(Age(e))

-------------------------------------------------------------------------------
(* Properties.                                                             *)

Dead == Devices \ installed

(* No two instances hold the same event, as long as every batch is done    *)
(* within ten minutes: SKIP LOCKED, the claim's status and the recovery's  *)
(* age condition together.                                                 *)
OneHolder == \A i, k \in Instances : i # k => batch[i] \cap batch[k] = {}

(* Each claim shows an event on a device at most once, whatever fails and  *)
(* however old claims become.                                              *)
OncePerClaim == \A e \in Events, d \in Devices : shown[e][d] <= attempts[e]

(* Duplicates have a cause: an event is shown twice on a device only after *)
(* a fault, or after a locale consisted of uninstalled devices only; each  *)
(* of these costs one repetition.                                          *)
DuplicatesHaveCauses ==
    \A e \in Events, d \in Devices : shown[e][d] <= 1 + faults + Cardinality(Dead)

(* An event is given up only after failures of its own, as many as it may  *)
(* have attempts: each is a fault, or a locale that consisted of           *)
(* uninstalled devices only, and nothing else uses an attempt up.          *)
GivenUpHasCauses ==
    \A e \in Events : status[e] = "FAILED" => faults + Cardinality(Dead) >= Limit

(* A processed event was shown on every device that was subscribed all the *)
(* time, through retries, crashes and half-delivered groups.  Needs an FCM *)
(* that serves the devices it knows: a device FCM fails to reach while     *)
(* others of its locale are reached is not retried.                        *)
NobodyMissed ==
    \A e \in Events : status[e] = "PROCESSED" =>
        \A d \in entitled[e] : shown[e][d] > 0

(* Once the faults are over, no event stays in the machine. *)
ComesToRest ==
    \A e \in Events : <>[](status[e] \in {"ABSENT", "PROCESSED", "FAILED"})
===============================================================================
