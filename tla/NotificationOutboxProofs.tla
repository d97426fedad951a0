----------------------- MODULE NotificationOutboxProofs -----------------------
(***************************************************************************)
(* NotificationOutbox, proved for any events, devices, instances, bounds   *)
(* and groupings.  Part 1, whatever happens: every claim shows an event on *)
(* a device at most once.  Part 2, when every batch is done within ten     *)
(* minutes: no event has two holders.                                      *)
(***************************************************************************)
EXTENDS NotificationOutboxInvariant, FiniteSetTheorems, TLAPS

(* Counting instances. *)
LEMMA CountBelow ==
    ASSUME NEW A \in SUBSET Instances, NEW B \in SUBSET A
    PROVE  Cardinality(A) \in Nat /\ Cardinality(B) \in Nat /\ Cardinality(B) <= Cardinality(A)
<1>1. IsFiniteSet(A) /\ IsFiniteSet(B)
  <2>1. IsFiniteSet(A)
    BY InstancesAssumption, FS_Subset
  <2>2. QED  BY <2>1, FS_Subset
<1>2. Cardinality(A) \in Nat /\ Cardinality(B) \in Nat
  BY <1>1, FS_CardinalityType
<1>3. QED  BY <1>1, <1>2, FS_Subset

LEMMA CountWithout ==
    ASSUME NEW A \in SUBSET Instances, NEW x \in A, NEW B \in SUBSET (A \ {x})
    PROVE  Cardinality(A) \in Nat /\ Cardinality(B) \in Nat /\ Cardinality(B) + 1 <= Cardinality(A)
<1>1. IsFiniteSet(A) /\ A \ {x} \in SUBSET Instances
  BY InstancesAssumption, FS_Subset
<1>2. Cardinality(A \ {x}) = Cardinality(A) - 1
  BY <1>1, FS_RemoveElement
<1>3. Cardinality(A) \in Nat
  BY CountBelow
<1>4. Cardinality(B) <= Cardinality(A \ {x}) /\ Cardinality(B) \in Nat
  BY <1>1, CountBelow
<1>5. QED  BY <1>2, <1>3, <1>4

LEMMA CountWith ==
    ASSUME NEW A \in SUBSET Instances, NEW x \in Instances, NEW B \in SUBSET (A \cup {x})
    PROVE  Cardinality(A) \in Nat /\ Cardinality(B) \in Nat /\ Cardinality(B) <= Cardinality(A) + 1
<1>1. IsFiniteSet(A) /\ A \cup {x} \in SUBSET Instances
  BY InstancesAssumption, FS_Subset
<1>2. Cardinality(A) \in Nat
  BY CountBelow
<1>3. Cardinality(A \cup {x}) <= Cardinality(A) + 1
  BY <1>1, <1>2, FS_AddElement
<1>4. Cardinality(B) <= Cardinality(A \cup {x}) /\ Cardinality(B) \in Nat /\ Cardinality(A \cup {x}) \in Nat
  BY <1>1, CountBelow
<1>5. QED  BY <1>2, <1>3, <1>4

LEMMA MayShowType == \A e, d : MayShow(e, d) \in SUBSET Instances
BY DEF MayShow

LEMMA MayShowTypeNext == \A e, d : MayShow(e, d)' \in SUBSET Instances
BY DEF MayShow

-------------------------------------------------------------------------------
(* Part 1: the invariant of every run.                                     *)

(* Nobody holds anything and nothing was shown. *)
LEMMA ClaimInit == Init => ClaimInv
<1> SUFFICES ASSUME Init PROVE ClaimInv
  OBVIOUS
<1> USE BoundsAssumption
<1>1. TypeOK
  BY DEF Init, TypeOK, EventStatus, Places
<1>2. HandInv
  BY DEF Init, HandInv, HandAt
<1>3. ShownInv
  <2>1. ASSUME NEW e \in Events, NEW d \in Devices PROVE ShownAt(e, d)
    <3>1. MayShow(e, d) = {}
      BY DEF Init, MayShow
    <3>2. Cardinality(MayShow(e, d)) = 0
      BY <3>1, FS_EmptySet
    <3>3. shown[e][d] = 0 /\ attempts[e] = 0
      BY DEF Init
    <3>4. QED  BY <3>2, <3>3 DEF ShownAt
  <2>2. QED  BY <2>1 DEF ShownInv
<1>4. QED  BY <1>1, <1>2, <1>3 DEF ClaimInv

(* The count does not rise when nobody's hands change. *)
LEMMA SameHands ==
    ASSUME ClaimInv, UNCHANGED <<attempts, shown, batch, group, audience>>
    PROVE  ShownInv'
BY DEF ClaimInv, ShownInv, ShownAt, MayShow

(* Nor when an instance keeps only events it has not begun with. *)
LEMMA FewerInHand ==
    ASSUME ClaimInv, NEW i \in Instances, UNCHANGED <<attempts, shown>>,
           \A e \in batch'[i] : e \in batch[i] /\ e \notin group[i],
           \A k \in Instances : k # i => /\ batch'[k] = batch[k]
                                         /\ group'[k] = group[k]
                                         /\ audience'[k] = audience[k]
    PROVE  ShownInv'
<1>1. ASSUME NEW e \in Events, NEW d \in Devices PROVE ShownAt(e, d)'
  <2>1. MayShow(e, d)' \in SUBSET MayShow(e, d)
    <3>1. ASSUME NEW k \in MayShow(e, d)' PROVE k \in MayShow(e, d)
      <4>1. k \in Instances /\ e \in batch'[k] /\ (e \notin group'[k] \/ d \in audience'[k])
        BY DEF MayShow
      <4>2. CASE k = i
        BY <4>1, <4>2 DEF MayShow
      <4>3. CASE k # i
        BY <4>1, <4>3 DEF MayShow
      <4>4. QED  BY <4>2, <4>3
    <3>2. QED  BY <3>1
  <2>2. /\ Cardinality(MayShow(e, d)) \in Nat /\ Cardinality(MayShow(e, d)') \in Nat
        /\ Cardinality(MayShow(e, d)') <= Cardinality(MayShow(e, d))
    BY <2>1, MayShowType, CountBelow
  <2>3. shown[e][d] + Cardinality(MayShow(e, d)) <= attempts[e]
    BY DEF ClaimInv, ShownInv, ShownAt
  <2>4. shown[e][d] \in Nat /\ attempts[e] \in Nat
    BY BoundsAssumption DEF ClaimInv, TypeOK
  <2>5. shown'[e][d] + Cardinality(MayShow(e, d)') <= attempts'[e]
    BY <2>2, <2>3, <2>4
  <2>6. QED  BY <2>5 DEF ShownAt
<1>2. QED  BY <1>1 DEF ShownInv

(* Faults stay within their bound. *)
LEMMA FaultType ==
    ASSUME TypeOK, NEW b, Fault(b)
    PROVE  faults' \in 0..MaxFaults
BY BoundsAssumption DEF Fault, TypeOK

(* The world changes nobody's hands. *)
LEMMA WorldClaim ==
    ASSUME ClaimInv, World
    PROVE  ClaimInv'
<1> USE DEF rows, registry, process
<1>1. UNCHANGED <<attempts, shown, process, faults>>
  BY DEF World, Write, Due, Age, Register, Unregister, Uninstall
<1>2. TypeOK'
  <2>1. status' \in [Events -> EventStatus]
    <3>1. status \in [Events -> EventStatus] /\ "PENDING" \in EventStatus
      BY DEF ClaimInv, TypeOK, EventStatus
    <3>2. \/ UNCHANGED status
          \/ \E e \in Events : status' = [status EXCEPT ![e] = "PENDING"]
      BY DEF World, Write, Due, Age, Register, Unregister, Uninstall
    <3>3. QED  BY <3>1, <3>2
  <2>2. waiting' \in SUBSET Events /\ stale' \in SUBSET Events
    BY DEF ClaimInv, World, Write, Due, Age, Register, Unregister, Uninstall, TypeOK
  <2>3. active' \in SUBSET Devices /\ installed' \in SUBSET Devices
    BY DEF ClaimInv, World, Write, Due, Age, Register, Unregister, Uninstall, TypeOK
  <2>4. entitled' \in [Events -> SUBSET Devices]
    <3>1. entitled \in [Events -> SUBSET Devices] /\ active \in SUBSET Devices
      BY DEF ClaimInv, TypeOK
    <3>2. CASE \E e \in Events : Write(e)
      BY <3>1, <3>2, AudienceAssumption DEF Write
    <3>3. CASE \E d \in Devices : Unregister(d) \/ Uninstall(d)
      <4>1. PICK d \in Devices : entitled' = [e \in Events |-> entitled[e] \ {d}]
        BY <3>3 DEF Unregister, Uninstall, NoLongerEntitled
      <4>2. QED  BY <3>1, <4>1
    <3>4. CASE UNCHANGED entitled
      BY <3>1, <3>4
    <3>5. QED  BY <3>2, <3>3, <3>4 DEF World, Due, Age, Register
  <2>5. QED  BY <1>1, <2>1, <2>2, <2>3, <2>4 DEF ClaimInv, TypeOK
<1>3. HandInv'
  BY <1>1 DEF ClaimInv, HandInv, HandAt
<1>4. ShownInv'
  BY <1>1, SameHands
<1>5. QED  BY <1>2, <1>3, <1>4 DEF ClaimInv

(* The recovery changes rows only. *)
LEMMA RecoverClaim ==
    ASSUME ClaimInv, NEW i \in Instances, NEW fails \in BOOLEAN, Recover(i, fails)
    PROVE  ClaimInv'
<1> USE DEF registry
<1>1. /\ UNCHANGED <<attempts, waiting, active, installed, batch, claimed, group, audience, shown, entitled>>
      /\ pc[i] = "idle" /\ pc' = [pc EXCEPT ![i] = IF fails THEN "idle" ELSE "claim"]
      /\ stale' = stale \ Recoverable
  BY DEF Recover, Place
<1>2. TypeOK'
  <2>1. status' \in [Events -> EventStatus]
    BY DEF ClaimInv, Recover, TypeOK, EventStatus
  <2>2. pc' \in [Instances -> Places]
    BY <1>1 DEF ClaimInv, TypeOK, Places
  <2>3. faults' \in 0..MaxFaults
    BY FaultType DEF ClaimInv, Recover
  <2>4. QED  BY <1>1, <2>1, <2>2, <2>3 DEF ClaimInv, TypeOK
<1>3. HandInv'
  <2>1. ASSUME NEW k \in Instances PROVE HandAt(k)'
    <3>1. HandAt(k) /\ pc \in [Instances -> Places]
      BY DEF ClaimInv, HandInv, TypeOK
    <3>2. CASE k = i
      BY <1>1, <3>1, <3>2 DEF HandAt
    <3>3. CASE k # i
      BY <1>1, <3>1, <3>3 DEF HandAt
    <3>4. QED  BY <3>2, <3>3
  <2>2. QED  BY <2>1 DEF HandInv
<1>4. ShownInv'
  BY <1>1, SameHands
<1>5. QED  BY <1>2, <1>3, <1>4 DEF ClaimInv

(* A claim is a new attempt, and a new instance that may show the event. *)
LEMMA ClaimClaim ==
    ASSUME ClaimInv, NEW i \in Instances, NEW S \in SUBSET Events, NEW fails \in BOOLEAN,
           Claim(i, S, fails)
    PROVE  ClaimInv'
<1> USE DEF registry
<1> DEFINE got == IF fails THEN {} ELSE S
<1>1. \A e \in S : attempts[e] < MaxClaims
  BY DEF Claim, Batches, Claimable
<1>2. got \subseteq S
  OBVIOUS
<1>3. /\ batch' = [batch EXCEPT ![i] = got]
      /\ claimed' = [claimed EXCEPT ![i] =
             [e \in Events |-> IF e \in got THEN attempts[e] + 1 ELSE 0]]
      /\ pc' = [pc EXCEPT ![i] = IF got = {} THEN "idle" ELSE "deliver"]
      /\ pc[i] = "claim"
      /\ UNCHANGED <<waiting, stale, active, installed, group, audience, shown, entitled>>
  BY DEF Claim, Place
<1>4. \A e \in Events : attempts'[e] = IF e \in S THEN attempts[e] + 1 ELSE attempts[e]
  BY DEF Claim
<1>5. batch[i] = {} /\ audience[i] = {} /\ group[i] = {}
  BY <1>3 DEF ClaimInv, HandInv, HandAt
<1> HIDE DEF got
<1>6. /\ batch'[i] = got /\ pc'[i] = (IF got = {} THEN "idle" ELSE "deliver")
      /\ \A k \in Instances : k # i => batch'[k] = batch[k] /\ pc'[k] = pc[k]
  BY <1>3 DEF ClaimInv, TypeOK
<1>7. TypeOK'
  <2>1. status' \in [Events -> EventStatus]
    BY DEF ClaimInv, Claim, TypeOK, EventStatus
  <2>2. attempts' \in [Events -> 0..MaxClaims]
    <3>1. \A e \in Events : (IF e \in S THEN attempts[e] + 1 ELSE attempts[e]) \in 0..MaxClaims
      BY <1>1, BoundsAssumption DEF ClaimInv, TypeOK
    <3>2. QED  BY <3>1 DEF Claim
  <2>3. claimed' \in [Instances -> [Events -> 0..MaxClaims]]
    <3>1. \A e \in Events : (IF e \in got THEN attempts[e] + 1 ELSE 0) \in 0..MaxClaims
      BY <1>1, <1>2, BoundsAssumption DEF ClaimInv, TypeOK
    <3>2. [e \in Events |-> IF e \in got THEN attempts[e] + 1 ELSE 0] \in [Events -> 0..MaxClaims]
      BY <3>1
    <3>3. QED  BY <1>3, <3>2 DEF ClaimInv, TypeOK
  <2>4. pc' \in [Instances -> Places] /\ batch' \in [Instances -> SUBSET Events]
    BY <1>2, <1>3 DEF ClaimInv, TypeOK, Places
  <2>5. faults' \in 0..MaxFaults
    BY FaultType DEF ClaimInv, Claim
  <2>6. QED  BY <1>3, <2>1, <2>2, <2>3, <2>4, <2>5 DEF ClaimInv, TypeOK
<1>8. HandInv'
  <2>1. ASSUME NEW k \in Instances PROVE HandAt(k)'
    <3>1. CASE k = i
      BY <1>3, <1>5, <1>6, <3>1 DEF HandAt
    <3>2. CASE k # i
      BY <1>3, <1>6, <3>2 DEF ClaimInv, HandInv, HandAt
    <3>3. QED  BY <3>1, <3>2
  <2>2. QED  BY <2>1 DEF HandInv
<1>9. ShownInv'
  <2>1. ASSUME NEW e \in Events, NEW d \in Devices PROVE ShownAt(e, d)'
    <3>1. /\ shown'[e][d] = shown[e][d]
          /\ attempts[e] \in Nat /\ shown[e][d] \in Nat
      BY <1>3, BoundsAssumption DEF ClaimInv, TypeOK
    <3>2. shown[e][d] + Cardinality(MayShow(e, d)) <= attempts[e]
      BY DEF ClaimInv, ShownInv, ShownAt
    <3>3. \A k \in MayShow(e, d)' : k # i => k \in MayShow(e, d)
      BY <1>3, <1>6 DEF MayShow
    <3>4. CASE e \in S
      <4>1. attempts'[e] = attempts[e] + 1
        BY <1>4, <3>4
      <4>2. MayShow(e, d)' \in SUBSET (MayShow(e, d) \cup {i})
        BY <3>3
      <4>3. /\ Cardinality(MayShow(e, d)') <= Cardinality(MayShow(e, d)) + 1
            /\ Cardinality(MayShow(e, d)) \in Nat /\ Cardinality(MayShow(e, d)') \in Nat
        BY <4>2, MayShowType, CountWith
      <4>4. shown'[e][d] + Cardinality(MayShow(e, d)') <= attempts'[e]
        BY <3>1, <3>2, <4>1, <4>3
      <4>5. QED  BY <4>4 DEF ShownAt
    <3>5. CASE e \notin S
      <4>1. attempts'[e] = attempts[e]
        BY <1>4, <3>5
      <4>2. i \notin MayShow(e, d)'
        BY <1>2, <1>6, <3>5 DEF MayShow
      <4>3. MayShow(e, d)' \in SUBSET MayShow(e, d)
        BY <3>3, <4>2
      <4>4. /\ Cardinality(MayShow(e, d)') <= Cardinality(MayShow(e, d))
            /\ Cardinality(MayShow(e, d)) \in Nat /\ Cardinality(MayShow(e, d)') \in Nat
        BY <4>3, MayShowType, CountBelow
      <4>5. shown'[e][d] + Cardinality(MayShow(e, d)') <= attempts'[e]
        BY <3>1, <3>2, <4>1, <4>4
      <4>6. QED  BY <4>5 DEF ShownAt
    <3>6. QED  BY <3>4, <3>5
  <2>2. QED  BY <2>1 DEF ShownInv
<1>10. QED  BY <1>7, <1>8, <1>9 DEF ClaimInv

(* Going on with the next group keeps the hands in order. *)
LEMMA NextGroupHands ==
    ASSUME ClaimInv, NEW i \in Instances, NextGroup(i), UNCHANGED <<attempts, shown>>
    PROVE  /\ pc' \in [Instances -> Places]
           /\ batch' \in [Instances -> SUBSET Events]
           /\ claimed' \in [Instances -> [Events -> 0..MaxClaims]]
           /\ group' \in [Instances -> SUBSET Events]
           /\ audience' \in [Instances -> SUBSET Devices]
           /\ HandInv' /\ ShownInv'
<1>1. /\ pc \in [Instances -> Places] /\ batch \in [Instances -> SUBSET Events]
      /\ claimed \in [Instances -> [Events -> 0..MaxClaims]]
      /\ group \in [Instances -> SUBSET Events] /\ audience \in [Instances -> SUBSET Devices]
  BY DEF ClaimInv, TypeOK
<1>2. /\ batch' = [batch EXCEPT ![i] = Rest(i)]
      /\ claimed' = [claimed EXCEPT ![i] =
             [e \in Events |-> IF e \in Rest(i) THEN claimed[i][e] ELSE 0]]
      /\ group' = [group EXCEPT ![i] = {}]
      /\ audience' = [audience EXCEPT ![i] = {}]
      /\ pc' = [pc EXCEPT ![i] = IF Rest(i) = {} THEN "idle" ELSE "deliver"]
  BY DEF NextGroup, Place
<1>3. Rest(i) \in SUBSET Events
  BY <1>1 DEF Rest
<1>4. claimed' \in [Instances -> [Events -> 0..MaxClaims]]
  <2>1. \A e \in Events : (IF e \in Rest(i) THEN claimed[i][e] ELSE 0) \in 0..MaxClaims
    BY <1>1, BoundsAssumption
  <2>2. [e \in Events |-> IF e \in Rest(i) THEN claimed[i][e] ELSE 0] \in [Events -> 0..MaxClaims]
    BY <2>1
  <2>3. QED  BY <1>1, <1>2, <2>2
<1>5. pc' \in [Instances -> Places]
  BY <1>1, <1>2 DEF Places
<1>6. /\ batch' \in [Instances -> SUBSET Events]
      /\ group' \in [Instances -> SUBSET Events] /\ audience' \in [Instances -> SUBSET Devices]
  BY <1>1, <1>2, <1>3
<1>7. HandInv'
  <2>1. ASSUME NEW k \in Instances PROVE HandAt(k)'
    <3>1. CASE k = i
      <4>1. /\ batch'[i] = Rest(i) /\ group'[i] = {} /\ audience'[i] = {}
            /\ pc'[i] = (IF Rest(i) = {} THEN "idle" ELSE "deliver")
        BY <1>1, <1>2
      <4>2. QED  BY <3>1, <4>1 DEF HandAt
    <3>2. CASE k # i
      BY <1>1, <1>2, <3>2 DEF ClaimInv, HandInv, HandAt
    <3>3. QED  BY <3>1, <3>2
  <2>2. QED  BY <2>1 DEF HandInv
<1>8. ShownInv'
  <2>1. \A e \in batch'[i] : e \in batch[i] /\ e \notin group[i]
    BY <1>1, <1>2 DEF Rest
  <2>2. \A k \in Instances : k # i => /\ batch'[k] = batch[k]
                                      /\ group'[k] = group[k]
                                      /\ audience'[k] = audience[k]
    BY <1>1, <1>2
  <2>3. QED  BY <2>1, <2>2, FewerInHand
<1>9. QED  BY <1>4, <1>5, <1>6, <1>7, <1>8

(* So does dropping the batch. *)
LEMMA AbandonHands ==
    ASSUME ClaimInv, NEW i \in Instances, Abandon(i), UNCHANGED <<attempts, shown>>
    PROVE  /\ pc' \in [Instances -> Places]
           /\ batch' \in [Instances -> SUBSET Events]
           /\ claimed' \in [Instances -> [Events -> 0..MaxClaims]]
           /\ group' \in [Instances -> SUBSET Events]
           /\ audience' \in [Instances -> SUBSET Devices]
           /\ HandInv' /\ ShownInv'
<1>1. /\ pc \in [Instances -> Places] /\ batch \in [Instances -> SUBSET Events]
      /\ claimed \in [Instances -> [Events -> 0..MaxClaims]]
      /\ group \in [Instances -> SUBSET Events] /\ audience \in [Instances -> SUBSET Devices]
  BY DEF ClaimInv, TypeOK
<1>2. /\ batch' = [batch EXCEPT ![i] = {}]
      /\ claimed' = [claimed EXCEPT ![i] = [e \in Events |-> 0]]
      /\ group' = [group EXCEPT ![i] = {}]
      /\ audience' = [audience EXCEPT ![i] = {}]
      /\ pc' = [pc EXCEPT ![i] = "idle"]
  BY DEF Abandon, Place
<1>3. claimed' \in [Instances -> [Events -> 0..MaxClaims]]
  <2>1. [e \in Events |-> 0] \in [Events -> 0..MaxClaims]
    BY BoundsAssumption
  <2>2. QED  BY <1>1, <1>2, <2>1
<1>4. /\ batch' \in [Instances -> SUBSET Events] /\ pc' \in [Instances -> Places]
      /\ group' \in [Instances -> SUBSET Events] /\ audience' \in [Instances -> SUBSET Devices]
  BY <1>1, <1>2 DEF Places
<1>5. HandInv'
  <2>1. ASSUME NEW k \in Instances PROVE HandAt(k)'
    <3>1. CASE k = i
      BY <1>1, <1>2, <3>1 DEF HandAt
    <3>2. CASE k # i
      BY <1>1, <1>2, <3>2 DEF ClaimInv, HandInv, HandAt
    <3>3. QED  BY <3>1, <3>2
  <2>2. QED  BY <2>1 DEF HandInv
<1>6. ShownInv'
  <2>1. \A e \in batch'[i] : e \in batch[i] /\ e \notin group[i]
    BY <1>1, <1>2
  <2>2. \A k \in Instances : k # i => /\ batch'[k] = batch[k]
                                      /\ group'[k] = group[k]
                                      /\ audience'[k] = audience[k]
    BY <1>1, <1>2
  <2>3. QED  BY <2>1, <2>2, FewerInHand
<1>7. QED  BY <1>3, <1>4, <1>5, <1>6

(* A group is part of the batch, and its audience is due it. *)
LEMMA BeginClaim ==
    ASSUME ClaimInv, NEW i \in Instances, NEW G \in SUBSET Events, NEW fails \in BOOLEAN,
           Begin(i, G, fails)
    PROVE  ClaimInv'
<1> USE DEF rows, registry
<1> DEFINE targets == active \cap UNION {Interested[e] : e \in G}
           then == IF fails THEN {} ELSE targets
           where == IF fails THEN "failed" ELSE IF targets = {} THEN "settle" ELSE "send"
<1>1. /\ pc[i] = "deliver" /\ G \in Groups(batch[i])
      /\ group' = [group EXCEPT ![i] = G]
      /\ audience' = [audience EXCEPT ![i] = then]
      /\ pc' = [pc EXCEPT ![i] = where]
      /\ UNCHANGED <<status, attempts, waiting, stale, active, installed, batch, claimed, shown, entitled>>
  BY DEF Begin, Place
<1>2. /\ pc \in [Instances -> Places] /\ active \in SUBSET Devices
      /\ batch \in [Instances -> SUBSET Events]
      /\ group \in [Instances -> SUBSET Events] /\ audience \in [Instances -> SUBSET Devices]
  BY DEF ClaimInv, TypeOK
<1>3. G \subseteq batch[i]
  BY <1>1 DEF Groups
<1>4. /\ then \in SUBSET Devices /\ where \in {"failed", "settle", "send"}
      /\ where # "send" => then = {}
  BY <1>2
<1> HIDE DEF targets, then, where
<1>5. TypeOK'
  <2>1. /\ pc' \in [Instances -> Places]
        /\ group' \in [Instances -> SUBSET Events] /\ audience' \in [Instances -> SUBSET Devices]
    BY <1>1, <1>2, <1>4 DEF Places
  <2>2. faults' \in 0..MaxFaults
    BY FaultType DEF ClaimInv, Begin
  <2>3. QED  BY <1>1, <2>1, <2>2 DEF ClaimInv, TypeOK
<1>6. HandInv'
  <2>1. ASSUME NEW k \in Instances PROVE HandAt(k)'
    <3>1. CASE k = i
      <4>1. group'[i] = G /\ audience'[i] = then /\ pc'[i] = where /\ batch'[i] = batch[i]
        BY <1>1, <1>2
      <4>2. QED  BY <1>3, <1>4, <3>1, <4>1 DEF HandAt
    <3>2. CASE k # i
      BY <1>1, <1>2, <3>2 DEF ClaimInv, HandInv, HandAt
    <3>3. QED  BY <3>1, <3>2
  <2>2. QED  BY <2>1 DEF HandInv
<1>7. ShownInv'
  <2>1. \A e \in batch'[i] : e \in batch[i] /\ e \notin group[i]
    BY <1>1 DEF ClaimInv, HandInv, HandAt
  <2>2. \A k \in Instances : k # i => /\ batch'[k] = batch[k]
                                      /\ group'[k] = group[k]
                                      /\ audience'[k] = audience[k]
    BY <1>1, <1>2
  <2>3. UNCHANGED <<attempts, shown>>
    BY <1>1
  <2>4. QED  BY <2>1, <2>2, <2>3, FewerInHand
<1>8. QED  BY <1>5, <1>6, <1>7 DEF ClaimInv

(* A dispatch turns showings that are due into showings. *)
LEMMA Sending ==
    ASSUME ClaimInv, NEW i \in Instances, NEW reached \in SUBSET audience[i], Show(i, reached),
           UNCHANGED <<attempts, batch, group>>,
           audience'[i] \in SUBSET (audience[i] \ reached),
           \A k \in Instances : k # i => audience'[k] = audience[k]
    PROVE  shown' \in [Events -> [Devices -> 0..MaxClaims]] /\ ShownInv'
<1>1. ASSUME NEW e \in Events, NEW d \in Devices
      PROVE  /\ shown'[e][d] = shown[e][d] + IF e \in group[i] /\ d \in reached THEN 1 ELSE 0
             /\ attempts[e] \in 0..MaxClaims /\ shown[e][d] \in Nat
             /\ shown[e][d] + Cardinality(MayShow(e, d)) <= attempts[e]
  BY BoundsAssumption DEF Show, ClaimInv, TypeOK, ShownInv, ShownAt
<1>2. ASSUME NEW e \in Events, NEW d \in Devices
      PROVE  shown'[e][d] \in 0..MaxClaims /\ ShownAt(e, d)'
  <2>1. \A k \in MayShow(e, d)' : k \in MayShow(e, d)
    <3>1. ASSUME NEW k \in MayShow(e, d)' PROVE k \in MayShow(e, d)
      <4>1. k \in Instances /\ e \in batch[k] /\ (e \notin group[k] \/ d \in audience'[k])
        BY DEF MayShow
      <4>2. audience'[k] \subseteq audience[k]
        <5>1. CASE k = i
          BY <5>1
        <5>2. CASE k # i
          BY <4>1, <5>2
        <5>3. QED  BY <5>1, <5>2
      <4>3. QED  BY <4>1, <4>2 DEF MayShow
    <3>2. QED  BY <3>1
  <2>2. CASE e \in group[i] /\ d \in reached
    <3>1. i \in MayShow(e, d)
      BY <2>2 DEF MayShow, ClaimInv, HandInv, HandAt
    <3>2. i \notin MayShow(e, d)'
      BY <2>2 DEF MayShow
    <3>3. MayShow(e, d)' \in SUBSET (MayShow(e, d) \ {i})
      BY <2>1, <3>2
    <3>4. /\ Cardinality(MayShow(e, d)') + 1 <= Cardinality(MayShow(e, d))
          /\ Cardinality(MayShow(e, d)) \in Nat /\ Cardinality(MayShow(e, d)') \in Nat
      BY <3>1, <3>3, MayShowType, CountWithout
    <3>5. shown'[e][d] = shown[e][d] + 1
      BY <1>1, <2>2
    <3>6. /\ shown'[e][d] + Cardinality(MayShow(e, d)') <= attempts'[e]
          /\ shown'[e][d] \in 0..MaxClaims
      BY <1>1, <3>4, <3>5, BoundsAssumption
    <3>7. QED  BY <3>6 DEF ShownAt
  <2>3. CASE ~(e \in group[i] /\ d \in reached)
    <3>1. MayShow(e, d)' \in SUBSET MayShow(e, d)
      BY <2>1
    <3>2. /\ Cardinality(MayShow(e, d)') <= Cardinality(MayShow(e, d))
          /\ Cardinality(MayShow(e, d)) \in Nat /\ Cardinality(MayShow(e, d)') \in Nat
      BY <3>1, MayShowType, CountBelow
    <3>3. shown'[e][d] = shown[e][d]
      BY <1>1, <2>3
    <3>4. /\ shown'[e][d] + Cardinality(MayShow(e, d)') <= attempts'[e]
          /\ shown'[e][d] \in 0..MaxClaims
      BY <1>1, <3>2, <3>3, BoundsAssumption
    <3>5. QED  BY <3>4 DEF ShownAt
  <2>4. QED  BY <2>2, <2>3
<1>3. shown' \in [Events -> [Devices -> 0..MaxClaims]]
  <2>1. shown' = [e \in Events |-> [d \in Devices |->
            shown[e][d] + IF e \in group[i] /\ d \in reached THEN 1 ELSE 0]]
    BY DEF Show
  <2>2. \A e \in Events, d \in Devices :
            (shown[e][d] + IF e \in group[i] /\ d \in reached THEN 1 ELSE 0) \in 0..MaxClaims
    BY <1>1, <1>2
  <2>3. QED  BY <2>1, <2>2
<1>4. ShownInv'
  BY <1>2 DEF ShownInv
<1>5. QED  BY <1>3, <1>4

LEMMA DispatchClaim ==
    ASSUME ClaimInv, NEW i \in Instances, NEW l, NEW reached \in SUBSET Devices,
           NEW cleaned \in BOOLEAN, Dispatch(i, l, reached, cleaned)
    PROVE  ClaimInv'
<1> USE DEF rows
<1> DEFINE rest == IF reached # {} THEN OtherLocales(i, l) ELSE {}
           where == IF reached = {} THEN "failed" ELSE IF rest = {} THEN "settle" ELSE "send"
<1>1. /\ pc[i] = "send" /\ Show(i, reached)
      /\ reached \subseteq Targets(i, l)
      /\ audience' = [audience EXCEPT ![i] = rest]
      /\ pc' = [pc EXCEPT ![i] = where]
      /\ active' = StillActive(i, l, cleaned)
      /\ UNCHANGED <<status, attempts, waiting, stale, installed, batch, claimed, group, entitled>>
  BY DEF Dispatch, Place, SendFails
<1>2. /\ pc \in [Instances -> Places] /\ active \in SUBSET Devices
      /\ audience \in [Instances -> SUBSET Devices]
  BY DEF ClaimInv, TypeOK
<1>3. /\ rest \subseteq audience[i] \ reached /\ reached \subseteq audience[i]
      /\ where \in Places /\ where \notin {"idle", "claim", "deliver"}
      /\ where # "send" => rest = {}
  BY <1>1 DEF OtherLocales, Targets, Places
<1> HIDE DEF rest, where
<1>4. audience'[i] = rest /\ pc'[i] = where
  BY <1>1, <1>2
<1>5. shown' \in [Events -> [Devices -> 0..MaxClaims]] /\ ShownInv'
  <2>1. \A k \in Instances : k # i => audience'[k] = audience[k]
    BY <1>1, <1>2
  <2>2. reached \in SUBSET audience[i] /\ audience'[i] \in SUBSET (audience[i] \ reached)
    BY <1>3, <1>4
  <2>3. Show(i, reached) /\ UNCHANGED <<attempts, batch, group>>
    BY <1>1
  <2>4. QED  BY <2>1, <2>2, <2>3, Sending
<1>6. TypeOK'
  <2>1. active' \in SUBSET Devices
    BY <1>1, <1>2 DEF StillActive
  <2>2. audience' \in [Instances -> SUBSET Devices] /\ pc' \in [Instances -> Places]
    BY <1>1, <1>2, <1>3
  <2>3. faults' \in 0..MaxFaults
    BY FaultType DEF ClaimInv, Dispatch
  <2>4. QED  BY <1>1, <1>5, <2>1, <2>2, <2>3 DEF ClaimInv, TypeOK
<1>7. HandInv'
  <2>1. ASSUME NEW k \in Instances PROVE HandAt(k)'
    <3>1. CASE k = i
      BY <1>1, <1>3, <1>4, <3>1 DEF ClaimInv, HandInv, HandAt
    <3>2. CASE k # i
      BY <1>1, <1>2, <3>2 DEF ClaimInv, HandInv, HandAt
    <3>3. QED  BY <3>1, <3>2
  <2>2. QED  BY <2>1 DEF HandInv
<1>8. QED  BY <1>5, <1>6, <1>7 DEF ClaimInv

LEMMA DispatchLostClaim ==
    ASSUME ClaimInv, NEW i \in Instances, NEW l, NEW reached \in SUBSET Devices,
           DispatchLost(i, l, reached)
    PROVE  ClaimInv'
<1> USE DEF rows, registry
<1>1. /\ pc[i] = "send" /\ Show(i, reached)
      /\ reached \subseteq Targets(i, l)
      /\ audience' = [audience EXCEPT ![i] = {}]
      /\ pc' = [pc EXCEPT ![i] = "failed"]
      /\ UNCHANGED <<status, attempts, waiting, stale, active, installed, batch, claimed, group, entitled>>
  BY DEF DispatchLost, Place, SendFails
<1>2. pc \in [Instances -> Places] /\ audience \in [Instances -> SUBSET Devices]
  BY DEF ClaimInv, TypeOK
<1>3. shown' \in [Events -> [Devices -> 0..MaxClaims]] /\ ShownInv'
  <2>1. \A k \in Instances : k # i => audience'[k] = audience[k]
    BY <1>1, <1>2
  <2>2. reached \in SUBSET audience[i] /\ audience'[i] \in SUBSET (audience[i] \ reached)
    BY <1>1, <1>2 DEF Targets
  <2>3. Show(i, reached) /\ UNCHANGED <<attempts, batch, group>>
    BY <1>1
  <2>4. QED  BY <2>1, <2>2, <2>3, Sending
<1>4. TypeOK'
  <2>1. audience' \in [Instances -> SUBSET Devices] /\ pc' \in [Instances -> Places]
    BY <1>1, <1>2 DEF Places
  <2>2. faults' \in 0..MaxFaults
    BY FaultType DEF ClaimInv, DispatchLost
  <2>3. QED  BY <1>1, <1>3, <2>1, <2>2 DEF ClaimInv, TypeOK
<1>5. HandInv'
  <2>1. ASSUME NEW k \in Instances PROVE HandAt(k)'
    <3>1. CASE k = i
      BY <1>1, <1>2, <3>1 DEF ClaimInv, HandInv, HandAt
    <3>2. CASE k # i
      BY <1>1, <1>2, <3>2 DEF ClaimInv, HandInv, HandAt
    <3>3. QED  BY <3>1, <3>2
  <2>2. QED  BY <2>1 DEF HandInv
<1>6. QED  BY <1>3, <1>4, <1>5 DEF ClaimInv

LEMMA SettleClaim ==
    ASSUME ClaimInv, NEW i \in Instances, Settle(i)
    PROVE  ClaimInv'
<1> USE DEF registry
<1>1. /\ NextGroup(i)
      /\ UNCHANGED <<attempts, active, installed, faults, shown, entitled>>
      /\ status' = [e \in Events |-> IF e \in group[i] THEN "PROCESSED" ELSE status[e]]
      /\ stale' = stale \ group[i] /\ waiting' = waiting \ group[i]
  BY DEF Settle
<1>2. /\ pc' \in [Instances -> Places]
      /\ batch' \in [Instances -> SUBSET Events]
      /\ claimed' \in [Instances -> [Events -> 0..MaxClaims]]
      /\ group' \in [Instances -> SUBSET Events]
      /\ audience' \in [Instances -> SUBSET Devices]
      /\ HandInv' /\ ShownInv'
  BY <1>1, NextGroupHands
<1>3. status' \in [Events -> EventStatus]
  BY <1>1 DEF ClaimInv, TypeOK, EventStatus
<1>4. TypeOK'
  BY <1>1, <1>2, <1>3 DEF ClaimInv, TypeOK
<1>5. QED  BY <1>2, <1>4 DEF ClaimInv

LEMMA SettleFailsClaim ==
    ASSUME ClaimInv, NEW i \in Instances, NEW committed \in BOOLEAN, SettleFails(i, committed)
    PROVE  ClaimInv'
<1> USE DEF registry
<1>1. /\ UNCHANGED <<attempts, active, installed, batch, claimed, group, audience, shown, entitled>>
      /\ pc[i] = "settle" /\ pc' = [pc EXCEPT ![i] = "failed"]
      /\ stale' \subseteq stale /\ waiting' \subseteq waiting
  BY DEF SettleFails, Place
<1>2. pc \in [Instances -> Places]
  BY DEF ClaimInv, TypeOK
<1>3. TypeOK'
  <2>1. status' \in [Events -> EventStatus]
    BY DEF ClaimInv, SettleFails, TypeOK, EventStatus
  <2>2. pc' \in [Instances -> Places]
    BY <1>1, <1>2 DEF Places
  <2>3. faults' \in 0..MaxFaults
    BY FaultType DEF ClaimInv, SettleFails
  <2>4. stale' \in SUBSET Events /\ waiting' \in SUBSET Events
    BY <1>1 DEF ClaimInv, TypeOK
  <2>5. QED  BY <1>1, <2>1, <2>2, <2>3, <2>4 DEF ClaimInv, TypeOK
<1>4. HandInv'
  <2>1. ASSUME NEW k \in Instances PROVE HandAt(k)'
    <3>1. CASE k = i
      BY <1>1, <1>2, <3>1 DEF ClaimInv, HandInv, HandAt
    <3>2. CASE k # i
      BY <1>1, <1>2, <3>2 DEF ClaimInv, HandInv, HandAt
    <3>3. QED  BY <3>1, <3>2
  <2>2. QED  BY <2>1 DEF HandInv
<1>5. ShownInv'
  BY <1>1, SameHands
<1>6. QED  BY <1>3, <1>4, <1>5 DEF ClaimInv

LEMMA RescheduleClaim ==
    ASSUME ClaimInv, NEW i \in Instances, NEW done \in SUBSET Events, NEW throws \in BOOLEAN,
           Reschedule(i, done, throws)
    PROVE  ClaimInv'
<1> USE DEF registry
<1>1. /\ Abandon(i) \/ NextGroup(i)
      /\ UNCHANGED <<attempts, active, installed, shown, entitled>>
      /\ waiting' = (waiting \ done) \cup {e \in done : ~GivenUp(i, e)}
      /\ stale' = stale \ done
  BY DEF Reschedule
<1>2. /\ pc' \in [Instances -> Places]
      /\ batch' \in [Instances -> SUBSET Events]
      /\ claimed' \in [Instances -> [Events -> 0..MaxClaims]]
      /\ group' \in [Instances -> SUBSET Events]
      /\ audience' \in [Instances -> SUBSET Devices]
      /\ HandInv' /\ ShownInv'
  <2>1. CASE Abandon(i)
    BY <1>1, <2>1, AbandonHands
  <2>2. CASE NextGroup(i)
    BY <1>1, <2>2, NextGroupHands
  <2>3. QED  BY <1>1, <2>1, <2>2
<1>3. status' \in [Events -> EventStatus]
  BY DEF ClaimInv, Reschedule, TypeOK, EventStatus
<1>4. waiting' \in SUBSET Events /\ stale' \in SUBSET Events
  BY <1>1 DEF ClaimInv, TypeOK
<1>5. faults' \in 0..MaxFaults
  BY FaultType DEF ClaimInv, Reschedule
<1>6. TypeOK'
  BY <1>1, <1>2, <1>3, <1>4, <1>5 DEF ClaimInv, TypeOK
<1>7. QED  BY <1>2, <1>6 DEF ClaimInv

LEMMA CrashClaim ==
    ASSUME ClaimInv, NEW i \in Instances, Crash(i)
    PROVE  ClaimInv'
<1> USE DEF rows, registry
<1>1. /\ Abandon(i)
      /\ UNCHANGED <<status, attempts, waiting, stale, active, installed, shown, entitled>>
  BY DEF Crash
<1>2. /\ pc' \in [Instances -> Places]
      /\ batch' \in [Instances -> SUBSET Events]
      /\ claimed' \in [Instances -> [Events -> 0..MaxClaims]]
      /\ group' \in [Instances -> SUBSET Events]
      /\ audience' \in [Instances -> SUBSET Devices]
      /\ HandInv' /\ ShownInv'
  BY <1>1, AbandonHands
<1>3. faults' \in 0..MaxFaults
  BY FaultType DEF ClaimInv, Crash
<1>4. TypeOK'
  BY <1>1, <1>2, <1>3 DEF ClaimInv, TypeOK
<1>5. QED  BY <1>2, <1>4 DEF ClaimInv

(* Every step keeps the claims in order. *)
LEMMA ClaimStep ==
    ASSUME ClaimInv, [Next]_vars
    PROVE  ClaimInv'
<1>1. ASSUME NEW i \in Instances, Tick(i) \/ Deliver(i) \/ Crash(i)
      PROVE  ClaimInv'
  <2>1. CASE Tick(i)
    BY <2>1, RecoverClaim, ClaimClaim DEF Tick
  <2>2. CASE Deliver(i)
    BY <2>2, BeginClaim, DispatchClaim, DispatchLostClaim, SettleClaim, SettleFailsClaim,
       RescheduleClaim DEF Deliver
  <2>3. CASE Crash(i)
    BY <2>3, CrashClaim
  <2>4. QED  BY <1>1, <2>1, <2>2, <2>3
<1>2. CASE World
  BY <1>2, WorldClaim
<1>3. CASE UNCHANGED vars
  <2>1. UNCHANGED <<attempts, shown, batch, group, audience>>
    BY <1>3 DEF vars, rows, process
  <2>2. ShownInv'
    BY <2>1, SameHands
  <2>3. TypeOK' /\ HandInv'
    BY <1>3 DEF ClaimInv, TypeOK, HandInv, HandAt, vars, rows, registry, process
  <2>4. QED  BY <2>2, <2>3 DEF ClaimInv
<1>4. QED  BY <1>1, <1>2, <1>3 DEF Next

(* Whatever fails and however old claims become, every claim is a showing  *)
(* that has been or may still be: ClaimInv is inductive.                   *)
THEOREM ClaimsHold == Spec => []ClaimInv
<1>1. ClaimInv /\ [Next]_vars => ClaimInv'
  BY ClaimStep
<1>2. QED  BY ClaimInit, <1>1, PTL DEF Spec

(* The outbox's variables keep their types. *)
THEOREM OutboxTyped == Spec => []TypeOK
<1>1. ClaimInv => TypeOK
  BY DEF ClaimInv
<1>2. QED  BY ClaimsHold, <1>1, PTL

(* Each claim of an event (claimPendingEvents) shows it on a device at     *)
(* most once, whatever fails and however old claims become: the locale     *)
(* loop of the send methods never meets a device twice.                    *)
THEOREM ShownOncePerClaim == Spec => []OncePerClaim
<1>1. ASSUME ClaimInv PROVE OncePerClaim
  <2>1. ASSUME NEW e \in Events, NEW d \in Devices PROVE shown[e][d] <= attempts[e]
    <3>1. shown[e][d] + Cardinality(MayShow(e, d)) <= attempts[e]
      BY <1>1 DEF ClaimInv, ShownInv, ShownAt
    <3>2. Cardinality(MayShow(e, d)) \in Nat
      BY MayShowType, CountBelow
    <3>3. shown[e][d] \in Nat /\ attempts[e] \in Nat
      BY <1>1, BoundsAssumption DEF ClaimInv, TypeOK
    <3>4. QED  BY <3>1, <3>2, <3>3
  <2>2. QED  BY <2>1 DEF OncePerClaim
<1>2. QED  BY ClaimsHold, <1>1, PTL

-------------------------------------------------------------------------------
(* Part 2: who holds an event, when every batch is done in ten minutes.    *)

OwnerInv == HeldInv /\ StaleInv /\ OneHolder

(* The world touches no held event: none is written, and none ages.        *)
LEMMA WorldOwner ==
    ASSUME IInv, ~Outlive, World
    PROVE  OwnerInv'
<1> USE DEF rows, registry, process
<1>1. UNCHANGED <<pc, batch, group>>
  BY DEF World, Write, Due, Age, Register, Unregister, Uninstall
<1>2. \A e \in Events : status[e] # "ABSENT" => status'[e] = status[e]
  <2>1. status \in [Events -> EventStatus]
    BY DEF IInv, ClaimInv, TypeOK
  <2>2. \/ UNCHANGED status
        \/ \E e \in Events : status[e] = "ABSENT" /\ status' = [status EXCEPT ![e] = "PENDING"]
    BY DEF World, Write, Due, Age, Register, Unregister, Uninstall
  <2>3. QED  BY <2>1, <2>2
<1>3. \A e \in stale' : \/ e \in stale
                        \/ status[e] = "PROCESSING" /\ \A k \in Instances : e \notin batch[k]
  BY DEF World, Write, Due, Age, Register, Unregister, Uninstall
<1>4. stale' \subseteq Events /\ stale \subseteq Events /\ \A k \in Instances : batch[k] \subseteq Events
  <2>1. stale' \subseteq Events
    BY WorldClaim DEF IInv, ClaimInv, TypeOK
  <2>2. QED  BY <2>1 DEF IInv, ClaimInv, TypeOK
<1>5. HeldInv'
  <2>1. ASSUME NEW k \in Instances PROVE HeldAt(k)'
    BY <1>1, <1>2, <1>3, <1>4 DEF IInv, HeldInv, HeldAt
  <2>2. QED  BY <2>1 DEF HeldInv
<1>6. StaleInv'
  <2>1. \A e \in stale' : e \in Events /\ status[e] = "PROCESSING"
    BY <1>3, <1>4 DEF IInv, StaleInv
  <2>2. QED  BY <1>2, <2>1 DEF StaleInv
<1>7. OneHolder'
  BY <1>1 DEF IInv, OneHolder
<1>8. QED  BY <1>5, <1>6, <1>7 DEF OwnerInv

(* The recovery takes back stale claims, and these are nobody's. *)
LEMMA RecoverOwner ==
    ASSUME IInv, NEW i \in Instances, NEW fails \in BOOLEAN, Recover(i, fails)
    PROVE  OwnerInv'
<1>1. /\ UNCHANGED <<batch, group>>
      /\ pc[i] = "idle" /\ pc' = [pc EXCEPT ![i] = IF fails THEN "idle" ELSE "claim"]
      /\ stale' = stale \ Recoverable
      /\ \A e \in Events : e \notin Recoverable => status'[e] = status[e]
  BY DEF Recover, Place
<1>2. /\ pc \in [Instances -> Places] /\ stale \subseteq Events
      /\ \A k \in Instances : batch[k] \subseteq Events
  BY DEF IInv, ClaimInv, TypeOK
<1>3. Recoverable = stale
  BY DEF IInv, StaleInv, Recoverable
<1>4. HeldInv'
  <2>1. ASSUME NEW k \in Instances PROVE HeldAt(k)'
    <3>1. CASE k = i
      BY <1>1, <3>1 DEF IInv, ClaimInv, HandInv, HandAt, HeldAt
    <3>2. CASE k # i
      BY <1>1, <1>2, <1>3, <3>2 DEF IInv, HeldInv, HeldAt
    <3>3. QED  BY <3>1, <3>2
  <2>2. QED  BY <2>1 DEF HeldInv
<1>5. StaleInv' /\ OneHolder'
  BY <1>1, <1>3 DEF IInv, StaleInv, OneHolder
<1>6. QED  BY <1>4, <1>5 DEF OwnerInv

(* A claim takes pending events, which nobody holds. *)
LEMMA ClaimOwner ==
    ASSUME IInv, NEW i \in Instances, NEW S \in SUBSET Events, NEW fails \in BOOLEAN,
           Claim(i, S, fails)
    PROVE  OwnerInv'
<1> DEFINE got == IF fails THEN {} ELSE S
<1>1. /\ batch' = [batch EXCEPT ![i] = got]
      /\ pc' = [pc EXCEPT ![i] = IF got = {} THEN "idle" ELSE "deliver"]
      /\ UNCHANGED <<stale, group>>
      /\ \A e \in Events : status'[e] = IF e \in S THEN "PROCESSING" ELSE status[e]
  BY DEF Claim, Place
<1>2. got \subseteq S
  OBVIOUS
<1> HIDE DEF got
<1>3. \A e \in S : status[e] = "PENDING"
  BY DEF Claim, Batches, Claimable
<1>4. /\ pc \in [Instances -> Places] /\ batch \in [Instances -> SUBSET Events]
      /\ stale \subseteq Events
  BY DEF IInv, ClaimInv, TypeOK
<1>5. \A k \in Instances : \A e \in batch[k] : e \notin S
  BY <1>3 DEF IInv, HeldInv, HeldAt
<1>6. \A e \in stale : e \notin S
  BY <1>3 DEF IInv, StaleInv
<1>7. batch'[i] = got /\ \A k \in Instances : k # i => batch'[k] = batch[k] /\ pc'[k] = pc[k]
  BY <1>1, <1>4
<1>8. HeldInv'
  <2>1. ASSUME NEW k \in Instances PROVE HeldAt(k)'
    <3>1. CASE k = i
      BY <1>1, <1>2, <1>6, <1>7, <3>1 DEF HeldAt
    <3>2. CASE k # i
      <4>1. \A e \in batch[k] : status'[e] = status[e]
        BY <1>1, <1>4, <1>5
      <4>2. QED  BY <1>1, <1>7, <3>2, <4>1 DEF IInv, HeldInv, HeldAt
    <3>3. QED  BY <3>1, <3>2
  <2>2. QED  BY <2>1 DEF HeldInv
<1>9. StaleInv'
  BY <1>1, <1>4, <1>6 DEF IInv, StaleInv
<1>10. OneHolder'
  <2>1. ASSUME NEW k \in Instances, NEW j \in Instances, k # j
        PROVE  batch'[k] \cap batch'[j] = {}
    <3>1. CASE k = i
      BY <1>2, <1>5, <1>7, <2>1, <3>1
    <3>2. CASE j = i
      BY <1>2, <1>5, <1>7, <2>1, <3>2
    <3>3. CASE k # i /\ j # i
      BY <1>7, <2>1, <3>3 DEF IInv, OneHolder
    <3>4. QED  BY <3>1, <3>2, <3>3
  <2>2. QED  BY <2>1 DEF OneHolder
<1>11. QED  BY <1>8, <1>9, <1>10 DEF OwnerInv

(* Beginning and dispatching change no row and no batch. *)
LEMMA DeliveryOwner ==
    ASSUME IInv, NEW i \in Instances, UNCHANGED <<status, stale, batch>>,
           pc[i] # "failed", \A k \in Instances : k # i => pc'[k] = pc[k] /\ group'[k] = group[k]
    PROVE  OwnerInv'
<1>1. HeldInv'
  <2>1. ASSUME NEW k \in Instances PROVE HeldAt(k)'
    <3>1. CASE k = i
      BY <3>1 DEF IInv, HeldInv, HeldAt
    <3>2. CASE k # i
      BY <3>2 DEF IInv, HeldInv, HeldAt
    <3>3. QED  BY <3>1, <3>2
  <2>2. QED  BY <2>1 DEF HeldInv
<1>2. StaleInv' /\ OneHolder'
  BY DEF IInv, StaleInv, OneHolder
<1>3. QED  BY <1>1, <1>2 DEF OwnerInv

LEMMA BeginOwner ==
    ASSUME IInv, NEW i \in Instances, NEW G \in SUBSET Events, NEW fails \in BOOLEAN,
           Begin(i, G, fails)
    PROVE  OwnerInv'
<1>1. UNCHANGED <<status, stale, batch>> /\ pc[i] # "failed"
  BY DEF Begin, rows
<1>2. \A k \in Instances : k # i => pc'[k] = pc[k] /\ group'[k] = group[k]
  BY DEF Begin, Place, IInv, ClaimInv, TypeOK
<1>3. QED  BY <1>1, <1>2, DeliveryOwner

LEMMA DispatchOwner ==
    ASSUME IInv, NEW i \in Instances, NEW l, NEW reached, NEW cleaned,
           Dispatch(i, l, reached, cleaned) \/ DispatchLost(i, l, reached)
    PROVE  OwnerInv'
<1>1. UNCHANGED <<status, stale, batch, group>> /\ pc[i] # "failed"
  BY DEF Dispatch, DispatchLost, rows
<1>2. \A k \in Instances : k # i => pc'[k] = pc[k]
  BY DEF Dispatch, DispatchLost, SendFails, Place, IInv, ClaimInv, TypeOK
<1>3. QED  BY <1>1, <1>2, DeliveryOwner

(* What an instance does with rows of its own group is nobody else's       *)
(* business, and it lets go of that group.                                 *)
LEMMA ReleaseOwner ==
    ASSUME IInv, NEW i \in Instances, NEW done \in SUBSET group[i],
           \A e \in Events : e \notin done => status'[e] = status[e],
           stale' = stale \ done,
           pc[i] # "failed" \/ group[i] \cap batch'[i] = {},
           batch' \in [Instances -> SUBSET Events],
           batch'[i] \subseteq batch[i], done \cap batch'[i] = {},
           \A k \in Instances : k # i => /\ pc'[k] = pc[k] /\ batch'[k] = batch[k]
                                         /\ group'[k] = group[k]
    PROVE  OwnerInv'
<1>1. /\ stale \subseteq Events /\ batch \in [Instances -> SUBSET Events]
      /\ group[i] \subseteq batch[i]
  BY DEF IInv, ClaimInv, TypeOK, HandInv, HandAt
<1>2. HeldInv'
  <2>1. ASSUME NEW k \in Instances PROVE HeldAt(k)'
    <3>1. CASE k = i
      <4>1. ASSUME NEW e \in batch'[i]
            PROVE  e \notin stale' /\ status'[e] = "PROCESSING"
        <5>1. e \in Events /\ e \in batch[i] /\ e \notin done
          BY <1>1
        <5>2. status'[e] = status[e] /\ e \notin stale
          BY <5>1 DEF IInv, HeldInv, HeldAt
        <5>3. status[e] = "PROCESSING"
          BY <5>1 DEF IInv, HeldInv, HeldAt
        <5>4. QED  BY <5>2, <5>3
      <4>2. QED  BY <3>1, <4>1 DEF HeldAt
    <3>2. CASE k # i
      <4>1. \A e \in batch[k] : e \notin done /\ e \in Events
        BY <1>1, <3>2 DEF IInv, OneHolder
      <4>2. QED  BY <3>2, <4>1 DEF IInv, HeldInv, HeldAt
    <3>3. QED  BY <3>1, <3>2
  <2>2. QED  BY <2>1 DEF HeldInv
<1>3. StaleInv'
  BY <1>1 DEF IInv, StaleInv
<1>4. OneHolder'
  <2>1. \A k \in Instances : batch'[k] \subseteq batch[k]
    <3>1. ASSUME NEW k \in Instances PROVE batch'[k] \subseteq batch[k]
      <4>1. CASE k = i
        BY <4>1
      <4>2. CASE k # i
        BY <4>2
      <4>3. QED  BY <4>1, <4>2
    <3>2. QED  BY <3>1
  <2>2. QED  BY <2>1 DEF IInv, OneHolder
<1>5. QED  BY <1>2, <1>3, <1>4 DEF OwnerInv

LEMMA SettleOwner ==
    ASSUME IInv, NEW i \in Instances, Settle(i)
    PROVE  OwnerInv'
<1>1. /\ \A e \in Events : e \notin group[i] => status'[e] = status[e]
      /\ stale' = stale \ group[i] /\ group[i] \in SUBSET group[i]
  BY DEF Settle
<1>2. ClaimInv' /\ ClaimInv
  BY SettleClaim DEF IInv
<1>3. batch' \in [Instances -> SUBSET Events]
  BY <1>2 DEF ClaimInv, TypeOK
<1>4. batch'[i] = batch[i] \ group[i]
  BY <1>2 DEF Settle, NextGroup, Rest, ClaimInv, TypeOK
<1>5. \A k \in Instances : k # i => /\ pc'[k] = pc[k] /\ batch'[k] = batch[k]
                                    /\ group'[k] = group[k]
  BY <1>2 DEF Settle, NextGroup, Place, ClaimInv, TypeOK
<1>6. batch'[i] \subseteq batch[i] /\ group[i] \cap batch'[i] = {}
  BY <1>4
<1>7. QED  BY <1>1, <1>3, <1>5, <1>6, ReleaseOwner

LEMMA RescheduleOwner ==
    ASSUME IInv, NEW i \in Instances, NEW done \in SUBSET Events, NEW throws \in BOOLEAN,
           Reschedule(i, done, throws)
    PROVE  OwnerInv'
<1>1. /\ \A e \in Events : e \notin done => status'[e] = status[e]
      /\ stale' = stale \ done /\ done \in SUBSET group[i]
  BY DEF Reschedule
<1>2. ClaimInv' /\ ClaimInv
  BY RescheduleClaim DEF IInv
<1>3. batch' \in [Instances -> SUBSET Events]
  BY <1>2 DEF ClaimInv, TypeOK
<1>4. batch'[i] \subseteq batch[i] /\ group[i] \cap batch'[i] = {}
  <2>1. batch'[i] = {} \/ batch'[i] = batch[i] \ group[i]
    BY <1>2 DEF Reschedule, Abandon, NextGroup, Rest, ClaimInv, TypeOK
  <2>2. QED  BY <2>1
<1>5. \A k \in Instances : k # i => /\ pc'[k] = pc[k] /\ batch'[k] = batch[k]
                                    /\ group'[k] = group[k]
  BY <1>2 DEF Reschedule, Abandon, NextGroup, Place, ClaimInv, TypeOK
<1>6. done \cap batch'[i] = {}
  BY <1>1, <1>4
<1>7. QED  BY <1>1, <1>3, <1>4, <1>5, <1>6, ReleaseOwner

LEMMA CrashOwner ==
    ASSUME IInv, NEW i \in Instances, Crash(i)
    PROVE  OwnerInv'
<1>1. UNCHANGED <<status, stale>>
  BY DEF Crash, rows
<1>2. ClaimInv' /\ ClaimInv
  BY CrashClaim DEF IInv
<1>3. batch' \in [Instances -> SUBSET Events]
  BY <1>2 DEF ClaimInv, TypeOK
<1>4. batch'[i] = {}
  BY <1>2 DEF Crash, Abandon, ClaimInv, TypeOK
<1>5. \A k \in Instances : k # i => /\ pc'[k] = pc[k] /\ batch'[k] = batch[k]
                                    /\ group'[k] = group[k]
  BY <1>2 DEF Crash, Abandon, Place, ClaimInv, TypeOK
<1>6. {} \in SUBSET group[i] /\ stale' = stale \ {}
      /\ \A e \in Events : e \notin {} => status'[e] = status[e]
  BY <1>1
<1>7. batch'[i] \subseteq batch[i] /\ {} \cap batch'[i] = {} /\ group[i] \cap batch'[i] = {}
  BY <1>4
<1>8. QED  BY <1>3, <1>5, <1>6, <1>7, ReleaseOwner

(* A settling reported as failed leaves its group PROCESSED and in hand. *)
LEMMA SettleFailsOwner ==
    ASSUME IInv, NEW i \in Instances, NEW committed \in BOOLEAN, SettleFails(i, committed)
    PROVE  OwnerInv'
<1>1. /\ pc[i] = "settle" /\ pc' = [pc EXCEPT ![i] = "failed"]
      /\ UNCHANGED <<batch, group>> /\ stale' \subseteq stale
      /\ \A e \in Events : status'[e] = IF committed /\ e \in group[i] THEN "PROCESSED" ELSE status[e]
      /\ committed => stale' = stale \ group[i]
  BY DEF SettleFails, Place
<1>2. /\ pc \in [Instances -> Places] /\ batch \in [Instances -> SUBSET Events]
      /\ stale \subseteq Events /\ group[i] \subseteq batch[i]
  BY DEF IInv, ClaimInv, TypeOK, HandInv, HandAt
<1>3. HeldInv'
  <2>1. ASSUME NEW k \in Instances PROVE HeldAt(k)'
    <3>1. CASE k = i
      BY <1>1, <1>2, <3>1 DEF IInv, HeldInv, HeldAt
    <3>2. CASE k # i
      <4>1. \A e \in batch[k] : e \notin group[i] /\ e \in Events
        BY <1>2, <3>2 DEF IInv, OneHolder
      <4>2. QED  BY <1>1, <1>2, <3>2, <4>1 DEF IInv, HeldInv, HeldAt
    <3>3. QED  BY <3>1, <3>2
  <2>2. QED  BY <2>1 DEF HeldInv
<1>4. StaleInv'
  BY <1>1, <1>2 DEF IInv, StaleInv
<1>5. OneHolder'
  BY <1>1 DEF IInv, OneHolder
<1>6. QED  BY <1>3, <1>4, <1>5 DEF OwnerInv

LEMMA OwnerStep ==
    ASSUME IInv, ~Outlive, [Next]_vars
    PROVE  OwnerInv'
<1>1. ASSUME NEW i \in Instances, Tick(i) \/ Deliver(i) \/ Crash(i)
      PROVE  OwnerInv'
  <2>1. CASE Tick(i)
    BY <2>1, RecoverOwner, ClaimOwner DEF Tick
  <2>2. CASE Deliver(i)
    BY <2>2, BeginOwner, DispatchOwner, SettleOwner, SettleFailsOwner, RescheduleOwner
    DEF Deliver
  <2>3. CASE Crash(i)
    BY <2>3, CrashOwner
  <2>4. QED  BY <1>1, <2>1, <2>2, <2>3
<1>2. CASE World
  BY <1>2, WorldOwner
<1>3. CASE UNCHANGED vars
  BY <1>3 DEF IInv, OwnerInv, HeldInv, HeldAt, StaleInv, OneHolder, vars, rows, process
<1>4. QED  BY <1>1, <1>2, <1>3 DEF Next

LEMMA OwnerInit == Init => OwnerInv
BY DEF Init, OwnerInv, HeldInv, HeldAt, StaleInv, OneHolder

(* With claims that are done in time the whole invariant is inductive.     *)
THEOREM OutboxInvariant == ASSUME ~Outlive PROVE Spec => []IInv
<1>1. Init => IInv
  BY ClaimInit, OwnerInit DEF IInv, OwnerInv
<1>2. IInv /\ [Next]_vars => IInv'
  <2>1. SUFFICES ASSUME IInv, [Next]_vars PROVE IInv'
    OBVIOUS
  <2>2. ClaimInv'
    BY <2>1, ClaimStep DEF IInv
  <2>3. OwnerInv'
    BY <2>1, OwnerStep
  <2>4. QED  BY <2>2, <2>3 DEF IInv, OwnerInv
<1>3. QED  BY <1>1, <1>2, PTL DEF Spec

(* No event is held by two instances: the status a claim sets, the age     *)
(* recoverStaleEvents asks for and the ten minutes a batch stays below     *)
(* keep instances apart that never talk to each other.                     *)
THEOREM SingleHolder == ASSUME ~Outlive PROVE Spec => []OneHolder
<1>1. IInv => OneHolder
  BY DEF IInv
<1>2. QED  BY OutboxInvariant, <1>1, PTL

-------------------------------------------------------------------------------
(* Part 3: nobody is missed, however long batches take, as long as FCM     *)
(* serves the devices it knows.                                            *)

MissRest == EntitledInv /\ WrittenInv /\ ServedInv /\ NobodyMissed

(* What a step has to respect: written events stay written and entitle     *)
(* nobody anew, showings are not undone, a delivery shows what it takes    *)
(* off its audience and starts with everybody who is entitled, and only    *)
(* what was delivered becomes PROCESSED.                                   *)
LEMMA MissStep ==
    ASSUME MissInv,
           \A e \in Events : status[e] # "ABSENT" =>
               status'[e] # "ABSENT" /\ entitled'[e] \subseteq entitled[e],
           \A e \in Events, d \in Devices : shown[e][d] > 0 => shown'[e][d] > 0,
           EntitledInv',
           \A k \in Instances : \A e \in batch'[k] : e \in batch[k] \/ status'[e] # "ABSENT",
           \A k \in Instances : batch'[k] \subseteq Events,
           \A k \in Instances, e \in Events :
               pc'[k] \in {"send", "settle"} /\ e \in group'[k] =>
                   \/ /\ pc[k] \in {"send", "settle"} /\ e \in group[k]
                      /\ \A d \in audience[k] \cap entitled[e] :
                             d \in audience'[k] \/ shown'[e][d] > 0
                   \/ entitled'[e] \subseteq audience'[k],
           \A e \in Events : status'[e] = "PROCESSED" =>
               \/ status[e] = "PROCESSED"
               \/ \E k \in Instances : pc[k] = "settle" /\ e \in group[k]
    PROVE  MissRest'
<1>1. \A e \in Events : entitled[e] \subseteq Devices
  BY DEF MissInv, ClaimInv, TypeOK
<1>2. \A k \in Instances : \A e \in group[k] : e \in Events /\ status[e] # "ABSENT"
  BY DEF MissInv, ClaimInv, TypeOK, HandInv, HandAt, WrittenInv
<1>3. WrittenInv'
  <2>1. ASSUME NEW k \in Instances, NEW e \in batch'[k] PROVE status'[e] # "ABSENT"
    BY DEF MissInv, WrittenInv
  <2>2. QED  BY <2>1 DEF WrittenInv
<1>4. ServedInv'
  <2>1. ASSUME NEW k \in Instances, NEW e \in Events,
               pc'[k] \in {"send", "settle"}, e \in group'[k], NEW d \in entitled'[e]
        PROVE  d \in audience'[k] \/ shown'[e][d] > 0
    <3>1. CASE entitled'[e] \subseteq audience'[k]
      BY <3>1
    <3>2. CASE /\ pc[k] \in {"send", "settle"} /\ e \in group[k]
               /\ \A x \in audience[k] \cap entitled[e] :
                      x \in audience'[k] \/ shown'[e][x] > 0
      <4>1. d \in entitled[e] /\ d \in Devices
        BY <1>1, <1>2, <3>2
      <4>2. d \in audience[k] \/ shown[e][d] > 0
        BY <3>2, <4>1 DEF MissInv, ServedInv, ServedAt
      <4>3. QED  BY <3>2, <4>1, <4>2
    <3>3. QED  BY <2>1, <3>1, <3>2
  <2>2. QED  BY <2>1 DEF ServedInv, ServedAt
<1>5. NobodyMissed'
  <2>1. ASSUME NEW e \in Events, status'[e] = "PROCESSED", NEW d \in entitled'[e]
        PROVE  shown'[e][d] > 0
    <3>1. CASE status[e] = "PROCESSED"
      <4>1. d \in entitled[e] /\ d \in Devices
        BY <1>1, <3>1
      <4>2. QED  BY <3>1, <4>1 DEF MissInv, NobodyMissed
    <3>2. ASSUME NEW k \in Instances, pc[k] = "settle", e \in group[k]
          PROVE  shown'[e][d] > 0
      <4>1. d \in entitled[e] /\ d \in Devices
        BY <1>1, <1>2, <3>2
      <4>2. audience[k] = {}
        BY <3>2 DEF MissInv, ClaimInv, HandInv, HandAt
      <4>3. shown[e][d] > 0
        BY <3>2, <4>1, <4>2 DEF MissInv, ServedInv, ServedAt
      <4>4. QED  BY <4>1, <4>3
    <3>3. QED  BY <2>1, <3>1, <3>2
  <2>2. QED  BY <2>1 DEF NobodyMissed
<1>6. QED  BY <1>3, <1>4, <1>5 DEF MissRest

(* The world: a new event entitles those it is for, and whoever leaves is  *)
(* not entitled any more.                                                  *)
LEMMA WorldMiss ==
    ASSUME MissInv, World
    PROVE  MissRest'
<1> USE DEF rows, registry, process
<1>1. UNCHANGED <<shown, pc, batch, group, audience>>
  BY DEF World, Write, Due, Age, Register, Unregister, Uninstall
<1>2. /\ status \in [Events -> EventStatus] /\ entitled \in [Events -> SUBSET Devices]
      /\ \A k \in Instances : batch[k] \subseteq Events
  BY DEF MissInv, ClaimInv, TypeOK
<1>3. /\ \A e \in Events : status[e] # "ABSENT" =>
             status'[e] = status[e] /\ entitled'[e] \subseteq entitled[e]
      /\ \A e \in Events : status'[e] = status[e] \/ status'[e] = "PENDING"
      /\ EntitledInv'
  <2>1. ASSUME NEW e \in Events, Write(e)
        PROVE  /\ \A f \in Events : f # e => status'[f] = status[f] /\ entitled'[f] = entitled[f]
               /\ status[e] = "ABSENT" /\ status'[e] = "PENDING"
               /\ EntitledInv'
    <3>1. /\ \A f \in Events : f # e => status'[f] = status[f] /\ entitled'[f] = entitled[f]
          /\ status[e] = "ABSENT" /\ status'[e] = "PENDING"
          /\ entitled'[e] = Interested[e] \cap active \cap installed
          /\ UNCHANGED <<active, installed>>
      BY <1>2, <2>1 DEF Write
    <3>2. QED  BY <3>1 DEF MissInv, EntitledInv
  <2>2. ASSUME NEW e \in Events, Due(e) \/ Age(e)
        PROVE  UNCHANGED <<status, entitled>> /\ EntitledInv'
    <3>1. UNCHANGED <<status, entitled, active, installed>>
      BY <2>2 DEF Due, Age
    <3>2. QED  BY <3>1 DEF MissInv, EntitledInv
  <2>3. ASSUME NEW d \in Devices, Register(d)
        PROVE  UNCHANGED <<status, entitled>> /\ EntitledInv'
    <3>1. UNCHANGED <<status, entitled, installed>> /\ active \subseteq active'
      BY <2>3 DEF Register
    <3>2. QED  BY <3>1 DEF MissInv, EntitledInv
  <2>4. ASSUME NEW d \in Devices, Unregister(d) \/ Uninstall(d)
        PROVE  /\ UNCHANGED status /\ EntitledInv'
               /\ \A e \in Events : entitled'[e] \subseteq entitled[e]
    <3>1. /\ UNCHANGED status /\ active \ {d} \subseteq active' /\ installed \ {d} \subseteq installed'
          /\ \A e \in Events : entitled'[e] = entitled[e] \ {d}
      BY <2>4 DEF Unregister, Uninstall, NoLongerEntitled
    <3>2. QED  BY <3>1 DEF MissInv, EntitledInv
  <2>5. QED  BY <2>1, <2>2, <2>3, <2>4 DEF World
<1>4. /\ \A e \in Events : status'[e] = "PROCESSED" => status[e] = "PROCESSED"
      /\ \A e \in Events : status[e] # "ABSENT" =>
             status'[e] # "ABSENT" /\ entitled'[e] \subseteq entitled[e]
  BY <1>3
<1>5. \A k \in Instances, e \in Events :
         pc'[k] \in {"send", "settle"} /\ e \in group'[k] =>
             /\ pc[k] \in {"send", "settle"} /\ e \in group[k]
             /\ \A d \in audience[k] \cap entitled[e] :
                    d \in audience'[k] \/ shown'[e][d] > 0
  BY <1>1
<1>6. /\ \A e \in Events, d \in Devices : shown[e][d] > 0 => shown'[e][d] > 0
      /\ \A k \in Instances : \A e \in batch'[k] : e \in batch[k]
      /\ \A k \in Instances : batch'[k] \subseteq Events
  BY <1>1, <1>2
<1>7. QED  BY <1>3, <1>4, <1>5, <1>6, MissStep

(* Steps of an instance that neither begin nor send: who is at a group     *)
(* stays at it or lets go of it.                                           *)
LEMMA LetGo ==
    ASSUME MissInv, NEW i \in Instances, UNCHANGED <<active, installed, shown, entitled>>,
           \A e \in Events : status[e] # "ABSENT" => status'[e] # "ABSENT",
           \A e \in Events : status'[e] = "PROCESSED" =>
               status[e] = "PROCESSED" \/ (pc[i] = "settle" /\ e \in group[i]),
           batch'[i] \subseteq Events,
           \A e \in batch'[i] : e \in batch[i] \/ status'[e] # "ABSENT",
           pc'[i] \notin {"send", "settle"},
           \A k \in Instances : k # i =>
               /\ pc'[k] = pc[k] /\ batch'[k] = batch[k]
               /\ group'[k] = group[k] /\ audience'[k] = audience[k]
    PROVE  MissRest'
<1>1. EntitledInv'
  BY DEF MissInv, EntitledInv
<1>2. \A k \in Instances : \A e \in batch'[k] : e \in batch[k] \/ status'[e] # "ABSENT"
  <2>1. ASSUME NEW k \in Instances, NEW e \in batch'[k]
        PROVE  e \in batch[k] \/ status'[e] # "ABSENT"
    <3>1. CASE k = i  BY <3>1
    <3>2. CASE k # i  BY <3>2
    <3>3. QED  BY <3>1, <3>2
  <2>2. QED  BY <2>1
<1>3. \A k \in Instances : batch'[k] \subseteq Events
  BY DEF MissInv, ClaimInv, TypeOK
<1>4. \A k \in Instances, e \in Events :
         pc'[k] \in {"send", "settle"} /\ e \in group'[k] =>
             /\ pc[k] \in {"send", "settle"} /\ e \in group[k]
             /\ \A d \in audience[k] \cap entitled[e] :
                    d \in audience'[k] \/ shown'[e][d] > 0
  <2>1. ASSUME NEW k \in Instances, pc'[k] \in {"send", "settle"}
        PROVE  pc[k] = pc'[k] /\ group'[k] = group[k] /\ audience'[k] = audience[k]
    <3>1. k # i  BY <2>1
    <3>2. QED  BY <3>1
  <2>2. QED  BY <2>1
<1>5. /\ \A e \in Events, d \in Devices : shown[e][d] > 0 => shown'[e][d] > 0
      /\ \A e \in Events : status[e] # "ABSENT" =>
             status'[e] # "ABSENT" /\ entitled'[e] \subseteq entitled[e]
      /\ \A e \in Events : status'[e] = "PROCESSED" =>
               \/ status[e] = "PROCESSED"
               \/ \E k \in Instances : pc[k] = "settle" /\ e \in group[k]
  OBVIOUS
<1>6. QED  BY <1>1, <1>2, <1>3, <1>4, <1>5, MissStep

LEMMA TickMiss ==
    ASSUME MissInv, NEW i \in Instances, Tick(i)
    PROVE  MissRest'
<1>0. /\ pc \in [Instances -> Places] /\ batch \in [Instances -> SUBSET Events]
  BY DEF MissInv, ClaimInv, TypeOK
<1>1. ASSUME NEW fails \in BOOLEAN, Recover(i, fails) PROVE MissRest'
  <2>1. /\ UNCHANGED <<active, installed, shown, entitled, batch, group, audience>>
        /\ \A e \in Events : status'[e] = IF e \in Recoverable THEN "PENDING" ELSE status[e]
        /\ pc' = [pc EXCEPT ![i] = IF fails THEN "idle" ELSE "claim"]
    BY <1>1 DEF Recover, registry, Place
  <2>2. pc'[i] \notin {"send", "settle"} /\ \A k \in Instances : k # i => pc'[k] = pc[k]
    BY <1>0, <2>1
  <2>3. batch'[i] \subseteq Events
    BY <1>0, <2>1
  <2>4. /\ \A e \in Events : status[e] # "ABSENT" => status'[e] # "ABSENT"
        /\ \A e \in Events : status'[e] = "PROCESSED" => status[e] = "PROCESSED"
    BY <2>1
  <2>5. QED  BY <2>1, <2>2, <2>3, <2>4, LetGo
<1>2. ASSUME NEW S \in SUBSET Events, NEW fails \in BOOLEAN, Claim(i, S, fails)
      PROVE  MissRest'
  <2> DEFINE got == IF fails THEN {} ELSE S
  <2>1. /\ batch' = [batch EXCEPT ![i] = got]
        /\ pc' = [pc EXCEPT ![i] = IF got = {} THEN "idle" ELSE "deliver"]
        /\ UNCHANGED <<active, installed, group, audience, shown, entitled>>
        /\ \A e \in Events : status'[e] = IF e \in S THEN "PROCESSING" ELSE status[e]
    BY <1>2 DEF Claim, Place, registry
  <2>2. got \subseteq S
    OBVIOUS
  <2> HIDE DEF got
  <2>3. /\ pc'[i] \notin {"send", "settle"} /\ batch'[i] = got
        /\ \A k \in Instances : k # i => pc'[k] = pc[k] /\ batch'[k] = batch[k]
    BY <1>0, <2>1
  <2>4. /\ \A e \in Events : status[e] # "ABSENT" => status'[e] # "ABSENT"
        /\ \A e \in Events : status'[e] = "PROCESSED" => status[e] = "PROCESSED"
        /\ \A e \in batch'[i] : status'[e] # "ABSENT"
        /\ batch'[i] \subseteq Events
    BY <2>1, <2>2, <2>3
  <2>5. QED  BY <2>1, <2>3, <2>4, LetGo
<1>3. QED  BY <1>1, <1>2 DEF Tick

(* After a group, whatever became of it.                                   *)
LEMMA ReleaseMiss ==
    ASSUME MissInv, NEW i \in Instances, NextGroup(i) \/ Abandon(i),
           UNCHANGED <<active, installed, shown, entitled>>,
           \A e \in Events : status[e] # "ABSENT" => status'[e] # "ABSENT",
           \A e \in Events : status'[e] = "PROCESSED" =>
               status[e] = "PROCESSED" \/ (pc[i] = "settle" /\ e \in group[i])
    PROVE  MissRest'
<1>1. /\ pc \in [Instances -> Places] /\ batch \in [Instances -> SUBSET Events]
      /\ group \in [Instances -> SUBSET Events] /\ audience \in [Instances -> SUBSET Devices]
  BY DEF MissInv, ClaimInv, TypeOK
<1>2. batch'[i] \subseteq batch[i] /\ pc'[i] \in {"idle", "deliver"}
  BY <1>1 DEF NextGroup, Abandon, Place, Rest
<1>3. \A k \in Instances : k # i =>
         /\ pc'[k] = pc[k] /\ batch'[k] = batch[k]
         /\ group'[k] = group[k] /\ audience'[k] = audience[k]
  BY <1>1 DEF NextGroup, Abandon, Place
<1>4. batch'[i] \subseteq Events /\ pc'[i] \notin {"send", "settle"}
      /\ \A e \in batch'[i] : e \in batch[i]
  BY <1>1, <1>2
<1>5. QED  BY <1>3, <1>4, LetGo

LEMMA SettleMiss ==
    ASSUME MissInv, NEW i \in Instances,
           \/ Settle(i)
           \/ \E committed \in BOOLEAN : SettleFails(i, committed)
           \/ \E done \in SUBSET Events, throws \in BOOLEAN : Reschedule(i, done, throws)
           \/ Crash(i)
    PROVE  MissRest'
<1>1. CASE Settle(i)
  <2>1. /\ NextGroup(i) /\ UNCHANGED <<active, installed, shown, entitled>>
        /\ pc[i] = "settle"
        /\ \A e \in Events : status'[e] = IF e \in group[i] THEN "PROCESSED" ELSE status[e]
    BY <1>1 DEF Settle, registry
  <2>2. QED  BY <2>1, ReleaseMiss
<1>2. ASSUME NEW committed \in BOOLEAN, SettleFails(i, committed) PROVE MissRest'
  <2>1. /\ pc[i] = "settle" /\ pc' = [pc EXCEPT ![i] = "failed"]
        /\ UNCHANGED <<active, installed, shown, entitled, batch, group, audience>>
        /\ \A e \in Events :
              status'[e] = IF committed /\ e \in group[i] THEN "PROCESSED" ELSE status[e]
    BY <1>2 DEF SettleFails, Place, registry
  <2>2. /\ pc'[i] \notin {"send", "settle"} /\ batch'[i] \subseteq Events
        /\ \A k \in Instances : k # i => pc'[k] = pc[k]
    BY <2>1 DEF MissInv, ClaimInv, TypeOK
  <2>3. /\ \A e \in Events : status[e] # "ABSENT" => status'[e] # "ABSENT"
        /\ \A e \in Events : status'[e] = "PROCESSED" =>
               status[e] = "PROCESSED" \/ (pc[i] = "settle" /\ e \in group[i])
        /\ \A e \in batch'[i] : e \in batch[i]
    BY <2>1
  <2>4. QED  BY <2>1, <2>2, <2>3, LetGo
<1>3. ASSUME NEW done \in SUBSET Events, NEW throws \in BOOLEAN, Reschedule(i, done, throws)
      PROVE  MissRest'
  <2>1. /\ NextGroup(i) \/ Abandon(i)
        /\ UNCHANGED <<active, installed, shown, entitled>>
        /\ \A e \in Events : status'[e] = IF e \in done
               THEN IF GivenUp(i, e) THEN "FAILED" ELSE "PENDING" ELSE status[e]
    BY <1>3 DEF Reschedule, registry
  <2>2. \A e \in Events : status'[e] \in {"FAILED", "PENDING"} \/ status'[e] = status[e]
    BY <2>1
  <2>3. QED  BY <2>1, <2>2, ReleaseMiss
<1>4. CASE Crash(i)
  <2>1. Abandon(i) /\ UNCHANGED <<status, active, installed, shown, entitled>>
    BY <1>4 DEF Crash, rows, registry
  <2>2. QED  BY <2>1, ReleaseMiss
<1>5. QED  BY <1>1, <1>2, <1>3, <1>4

(* Whoever is entitled to an event of the group is in the audience that    *)
(* processGroup reads.                                                     *)
LEMMA BeginMiss ==
    ASSUME MissInv, NEW i \in Instances, NEW G \in SUBSET Events, NEW fails \in BOOLEAN,
           Begin(i, G, fails)
    PROVE  MissRest'
<1> USE DEF rows, registry
<1> DEFINE targets == active \cap UNION {Interested[e] : e \in G}
           where == IF fails THEN "failed" ELSE IF targets = {} THEN "settle" ELSE "send"
<1>1. /\ UNCHANGED <<status, active, installed, batch, shown, entitled>>
      /\ group' = [group EXCEPT ![i] = G]
      /\ audience' = [audience EXCEPT ![i] = IF fails THEN {} ELSE targets]
      /\ pc' = [pc EXCEPT ![i] = where]
  BY DEF Begin, Place
<1>2. /\ pc \in [Instances -> Places] /\ batch \in [Instances -> SUBSET Events]
      /\ group \in [Instances -> SUBSET Events] /\ audience \in [Instances -> SUBSET Devices]
  BY DEF MissInv, ClaimInv, TypeOK
<1>3. \A e \in G : entitled[e] \subseteq targets
  <2>1. \A e \in G : Interested[e] \subseteq UNION {Interested[x] : x \in G}
    OBVIOUS
  <2>2. \A e \in G : entitled[e] \subseteq active /\ entitled[e] \subseteq Interested[e]
    BY DEF MissInv, EntitledInv
  <2>3. QED  BY <2>1, <2>2
<1>4. EntitledInv'
  BY <1>1 DEF MissInv, EntitledInv
<1>5. where \in {"send", "settle"} => ~fails
  OBVIOUS
<1>6. \A k \in Instances, e \in Events :
         pc'[k] \in {"send", "settle"} /\ e \in group'[k] =>
             \/ /\ pc[k] \in {"send", "settle"} /\ e \in group[k]
                /\ \A d \in audience[k] \cap entitled[e] :
                       d \in audience'[k] \/ shown'[e][d] > 0
             \/ entitled'[e] \subseteq audience'[k]
  <2> HIDE DEF where, targets
  <2>1. ASSUME NEW k \in Instances, NEW e \in Events,
               pc'[k] \in {"send", "settle"}, e \in group'[k]
        PROVE  \/ /\ pc[k] \in {"send", "settle"} /\ e \in group[k]
                  /\ \A d \in audience[k] \cap entitled[e] :
                         d \in audience'[k] \/ shown'[e][d] > 0
               \/ entitled'[e] \subseteq audience'[k]
    <3>1. CASE k = i
      <4>1. pc'[i] = where /\ group'[i] = G /\ audience'[i] = IF fails THEN {} ELSE targets
        BY <1>1, <1>2
      <4>2. QED  BY <1>1, <1>3, <1>5, <2>1, <3>1, <4>1
    <3>2. CASE k # i
      <4>1. pc'[k] = pc[k] /\ group'[k] = group[k] /\ audience'[k] = audience[k]
        BY <1>1, <1>2, <3>2
      <4>2. QED  BY <2>1, <4>1
    <3>3. QED  BY <3>1, <3>2
  <2>2. QED  BY <2>1
<1>7. /\ \A e \in Events : status[e] # "ABSENT" =>
             status'[e] # "ABSENT" /\ entitled'[e] \subseteq entitled[e]
      /\ \A e \in Events, d \in Devices : shown[e][d] > 0 => shown'[e][d] > 0
      /\ \A k \in Instances : \A e \in batch'[k] : e \in batch[k]
      /\ \A k \in Instances : batch'[k] \subseteq Events
      /\ \A e \in Events : status'[e] = "PROCESSED" => status[e] = "PROCESSED"
  BY <1>1, <1>2
<1>8. QED  BY <1>4, <1>6, <1>7, MissStep

(* A dispatch reaches the installed devices of its locale, or its group    *)
(* fails; the subscriptions it ends are those of devices that are gone.    *)
LEMMA DispatchMiss ==
    ASSUME MissInv, ~FcmFails, NEW i \in Instances, NEW l, NEW reached \in SUBSET Devices,
           \/ \E cleaned \in BOOLEAN : Dispatch(i, l, reached, cleaned)
           \/ DispatchLost(i, l, reached)
    PROVE  MissRest'
<1> USE DEF rows, registry
<1>1. /\ pc[i] = "send" /\ Show(i, reached)
      /\ UNCHANGED <<status, installed, batch, group, entitled>>
      /\ active \cap installed \subseteq active'
  BY DEF Dispatch, DispatchLost, StillActive
<1>2. /\ pc \in [Instances -> Places] /\ batch \in [Instances -> SUBSET Events]
      /\ audience \in [Instances -> SUBSET Devices]
      /\ shown \in [Events -> [Devices -> 0..MaxClaims]]
  BY DEF MissInv, ClaimInv, TypeOK
<1>3. \A e \in Events, d \in Devices :
         /\ shown[e][d] \in Nat
         /\ shown'[e][d] = shown[e][d] + (IF e \in group[i] /\ d \in reached THEN 1 ELSE 0)
  BY <1>1, <1>2, BoundsAssumption DEF Show
<1>4. \/ pc'[i] = "failed"
      \/ \A d \in audience[i] \cap installed : d \in audience'[i] \/ d \in reached
  <2>1. CASE DispatchLost(i, l, reached) \/ reached = {}
    BY <1>2, <2>1 DEF Dispatch, DispatchLost, SendFails, Place
  <2>2. CASE ~DispatchLost(i, l, reached) /\ reached # {}
    <3>1. PICK cleaned \in BOOLEAN : Dispatch(i, l, reached, cleaned)
      BY <2>2
    <3>2. /\ reached = Targets(i, l) \cap installed
          /\ audience'[i] = audience[i] \ Targets(i, l)
      BY <1>2, <2>2, <3>1 DEF Dispatch, OtherLocales
    <3>3. QED  BY <3>2
  <2>3. QED  BY <2>1, <2>2
<1>5. EntitledInv'
  BY <1>1 DEF MissInv, EntitledInv
<1>6. \A k \in Instances : k # i => pc'[k] = pc[k] /\ audience'[k] = audience[k]
  BY <1>2 DEF Dispatch, DispatchLost, SendFails, Place
<1>7. \A k \in Instances, e \in Events :
         pc'[k] \in {"send", "settle"} /\ e \in group'[k] =>
             /\ pc[k] \in {"send", "settle"} /\ e \in group[k]
             /\ \A d \in audience[k] \cap entitled[e] :
                    d \in audience'[k] \/ shown'[e][d] > 0
  <2>1. ASSUME NEW k \in Instances, NEW e \in Events,
               pc'[k] \in {"send", "settle"}, e \in group'[k],
               NEW d \in audience[k] \cap entitled[e]
        PROVE  d \in audience'[k] \/ shown'[e][d] > 0
    <3>1. CASE k = i
      <4>1. d \in installed /\ d \in Devices
        BY <1>2 DEF MissInv, EntitledInv
      <4>2. d \in audience'[i] \/ d \in reached
        BY <1>4, <2>1, <3>1, <4>1
      <4>3. e \in group[i]
        BY <1>1, <2>1, <3>1
      <4>4. d \in reached => shown'[e][d] = shown[e][d] + 1 /\ shown[e][d] \in Nat
        BY <1>3, <4>1, <4>3
      <4>5. QED  BY <3>1, <4>2, <4>4
    <3>2. CASE k # i
      BY <1>6, <3>2
    <3>3. QED  BY <3>1, <3>2
  <2>2. QED  BY <1>1, <1>6, <2>1
<1>8. /\ \A e \in Events : status[e] # "ABSENT" =>
             status'[e] # "ABSENT" /\ entitled'[e] \subseteq entitled[e]
      /\ \A e \in Events, d \in Devices : shown[e][d] > 0 => shown'[e][d] > 0
      /\ \A k \in Instances : \A e \in batch'[k] : e \in batch[k]
      /\ \A k \in Instances : batch'[k] \subseteq Events
      /\ \A e \in Events : status'[e] = "PROCESSED" => status[e] = "PROCESSED"
  BY <1>1, <1>2, <1>3
<1>9. QED  BY <1>5, <1>7, <1>8, MissStep

LEMMA MissNext ==
    ASSUME MissInv, ~FcmFails, [Next]_vars
    PROVE  MissInv'
<1>1. ClaimInv'
  BY ClaimStep DEF MissInv
<1>2. MissRest'
  <2>1. ASSUME NEW i \in Instances, Tick(i) \/ Deliver(i) \/ Crash(i)
        PROVE  MissRest'
    BY <2>1, TickMiss, BeginMiss, DispatchMiss, SettleMiss DEF Deliver
  <2>2. CASE UNCHANGED vars
    <3>1. UNCHANGED <<status, batch, group, audience, pc, shown, entitled, active, installed>>
      BY <2>2 DEF vars, rows, registry, process
    <3>2. QED
      BY <3>1 DEF MissInv, MissRest, EntitledInv, WrittenInv, ServedInv, ServedAt, NobodyMissed
  <2>3. QED  BY <2>1, <2>2, WorldMiss DEF Next
<1>3. QED  BY <1>1, <1>2 DEF MissInv, MissRest

(* A processed event was shown on every device that was subscribed all the *)
(* time, for any number of instances, faults and claims, and however long  *)
(* a batch takes.                                                          *)
THEOREM NobodyIsMissed == ASSUME ~FcmFails PROVE Spec => []NobodyMissed
<1>1. Init => MissInv
  <2>1. Init => EntitledInv /\ WrittenInv /\ ServedInv /\ NobodyMissed
    BY DEF Init, EntitledInv, WrittenInv, ServedInv, ServedAt, NobodyMissed
  <2>2. QED  BY ClaimInit, <2>1 DEF MissInv
<1>2. MissInv /\ [Next]_vars => MissInv'
  BY MissNext
<1>3. MissInv => NobodyMissed
  BY DEF MissInv
<1>4. QED  BY <1>1, <1>2, <1>3, PTL DEF Spec

-------------------------------------------------------------------------------
(* Part 4: every repetition is paid for, when every batch is done in ten   *)
(* minutes.                                                                *)

(* Counting devices. *)
LEMMA DeviceCount ==
    ASSUME NEW A \in SUBSET Devices, NEW B \in SUBSET A
    PROVE  /\ Cardinality(A) \in Nat /\ Cardinality(B) \in Nat
           /\ Cardinality(B) <= Cardinality(A)
           /\ \A x \in A : x \notin B => Cardinality(B) + 1 <= Cardinality(A)
<1>1. IsFiniteSet(A) /\ IsFiniteSet(B)
  <2>1. IsFiniteSet(A)  BY DevicesAssumption, FS_Subset
  <2>2. QED  BY <2>1, FS_Subset
<1>2. /\ Cardinality(A) \in Nat /\ Cardinality(B) \in Nat
      /\ Cardinality(B) <= Cardinality(A)
  BY <1>1, FS_CardinalityType, FS_Subset
<1>3. ASSUME NEW x \in A, x \notin B PROVE Cardinality(B) + 1 <= Cardinality(A)
  <2>1. /\ IsFiniteSet(A \ {x}) /\ B \subseteq A \ {x}
        /\ Cardinality(A \ {x}) = Cardinality(A) - 1
    BY <1>1, <1>3, FS_RemoveElement, FS_Subset
  <2>2. Cardinality(B) <= Cardinality(A \ {x})
    BY <2>1, FS_Subset
  <2>3. QED  BY <1>2, <2>1, <2>2
<1>4. QED  BY <1>2, <1>3

(* Faults only add up, and a device that is gone stays gone. *)
LEMMA Grows ==
    ASSUME IInv, [Next]_vars
    PROVE  faults \in Nat /\ faults' \in Nat /\ faults <= faults' /\ Gone \subseteq Gone'
<1> USE DEF rows, registry, process
<1>1. faults \in Nat /\ active \in SUBSET Devices /\ installed \in SUBSET Devices
  BY BoundsAssumption DEF IInv, ClaimInv, TypeOK
<1>2. \A b : Fault(b) => faults' = faults \/ faults' = faults + 1
  BY <1>1 DEF Fault
<1>3. /\ faults' = faults \/ faults' = faults + 1
      /\ installed' \subseteq installed /\ active' \subseteq active \cup installed
  <2>1. ASSUME NEW i \in Instances, Tick(i) \/ Crash(i)
        PROVE  /\ faults' = faults \/ faults' = faults + 1
               /\ installed' = installed /\ active' = active
    BY <1>2, <2>1 DEF Tick, Recover, Claim, Crash
  <2>2. ASSUME NEW i \in Instances, Deliver(i)
        PROVE  /\ faults' = faults \/ faults' = faults + 1
               /\ installed' = installed /\ active' \subseteq active
    <3>1. ASSUME NEW G \in SUBSET Events, NEW fails \in BOOLEAN, Begin(i, G, fails)
          PROVE  /\ faults' = faults \/ faults' = faults + 1
                 /\ installed' = installed /\ active' = active
      BY <1>2, <3>1 DEF Begin
    <3>2. ASSUME NEW l, NEW reached, NEW cleaned, Dispatch(i, l, reached, cleaned)
          PROVE  /\ faults' = faults \/ faults' = faults + 1
                 /\ installed' = installed /\ active' \subseteq active
      BY <1>2, <3>2 DEF Dispatch, StillActive
    <3>3. ASSUME NEW l, NEW reached, DispatchLost(i, l, reached)
          PROVE  /\ faults' = faults \/ faults' = faults + 1
                 /\ installed' = installed /\ active' = active
      BY <1>2, <3>3 DEF DispatchLost
    <3>4. ASSUME Settle(i) \/ \E committed \in BOOLEAN : SettleFails(i, committed)
          PROVE  /\ faults' = faults \/ faults' = faults + 1
                 /\ installed' = installed /\ active' = active
      BY <1>2, <3>4 DEF Settle, SettleFails
    <3>5. ASSUME NEW done \in SUBSET Events, NEW throws \in BOOLEAN, Reschedule(i, done, throws)
          PROVE  /\ faults' = faults \/ faults' = faults + 1
                 /\ installed' = installed /\ active' = active
      BY <1>2, <3>5 DEF Reschedule
    <3>6. QED  BY <2>2, <3>1, <3>2, <3>3, <3>4, <3>5 DEF Deliver
  <2>3. CASE World
    BY <2>3 DEF World, Write, Due, Age, Register, Unregister, Uninstall
  <2>4. CASE UNCHANGED vars
    BY <2>4 DEF vars
  <2>5. QED  BY <2>1, <2>2, <2>3, <2>4 DEF Next
<1>4. Gone \subseteq Gone'
  BY <1>1, <1>3 DEF Gone
<1>5. QED  BY <1>1, <1>3, <1>4

(* The amounts that a step compares. *)
LEMMA Amounts ==
    ASSUME IInv, [Next]_vars
    PROVE  /\ Paid \in Nat /\ Paid' \in Nat /\ Paid <= Paid'
           /\ faults' # faults => Paid + 1 <= Paid'
           /\ faults \in Nat /\ faults' \in Nat /\ faults <= faults'
           /\ \A k \in Instances :
                 /\ Cardinality(Gone \ audience[k]) \in Nat
                 /\ faults + Cardinality(Gone \ audience[k]) <= Paid
                 /\ Cardinality((Gone \ audience[k])') \in Nat
                 /\ faults' + Cardinality((Gone \ audience[k])') <= Paid'
                 /\ audience'[k] \subseteq audience[k] =>
                       Cardinality(Gone \ audience[k]) <= Cardinality((Gone \ audience[k])')
                 /\ Gone \cap audience'[k] = {} =>
                       Paid <= faults' + Cardinality((Gone \ audience[k])')
           /\ \A e \in Events, d \in Devices :
                 shown[e][d] \in Nat /\ shown'[e][d] \in Nat
<1>1. /\ faults \in Nat /\ faults' \in Nat /\ faults <= faults' /\ Gone \subseteq Gone'
      /\ Gone \in SUBSET Devices /\ Gone' \in SUBSET Devices
  BY Grows DEF Gone
<1>2. /\ Cardinality(Gone) \in Nat /\ Cardinality(Gone') \in Nat
      /\ Cardinality(Gone) <= Cardinality(Gone')
  BY <1>1, DeviceCount
<1>3. /\ Paid = faults + Cardinality(Gone) /\ Paid' = faults' + Cardinality(Gone')
  BY DEF Paid
<1>4. ASSUME NEW k \in Instances
      PROVE  /\ Cardinality(Gone \ audience[k]) \in Nat
             /\ Cardinality(Gone \ audience[k]) <= Cardinality(Gone)
             /\ Cardinality((Gone \ audience[k])') \in Nat
             /\ Cardinality((Gone \ audience[k])') <= Cardinality(Gone')
             /\ audience'[k] \subseteq audience[k] =>
                   Cardinality(Gone \ audience[k]) <= Cardinality((Gone \ audience[k])')
             /\ Gone \cap audience'[k] = {} =>
                   Cardinality(Gone) <= Cardinality((Gone \ audience[k])')
  <2> DEFINE A == Gone \ audience[k]
             B == Gone' \ audience'[k]
  <2>1. A \in SUBSET Gone /\ B \in SUBSET Gone' /\ A \in SUBSET Devices /\ B \in SUBSET Devices
    BY <1>1
  <2>2. /\ audience'[k] \subseteq audience[k] => A \in SUBSET B
        /\ Gone \cap audience'[k] = {} => Gone \in SUBSET B
    BY <1>1
  <2>3. (Gone \ audience[k])' = B
    OBVIOUS
  <2> HIDE DEF A, B
  <2>4. /\ Cardinality(A) \in Nat /\ Cardinality(A) <= Cardinality(Gone)
        /\ Cardinality(B) \in Nat /\ Cardinality(B) <= Cardinality(Gone')
    BY <1>1, <2>1, DeviceCount
  <2>5. /\ audience'[k] \subseteq audience[k] => Cardinality(A) <= Cardinality(B)
        /\ Gone \cap audience'[k] = {} => Cardinality(Gone) <= Cardinality(B)
    BY <2>1, <2>2, DeviceCount
  <2>6. QED  BY <2>3, <2>4, <2>5 DEF A
<1>5. \A e \in Events, d \in Devices : shown[e][d] \in Nat /\ shown'[e][d] \in Nat
  BY ClaimStep, BoundsAssumption DEF IInv, ClaimInv, TypeOK
<1>6. /\ Paid \in Nat /\ Paid' \in Nat /\ Paid <= Paid'
      /\ faults' # faults => Paid + 1 <= Paid'
  BY <1>1, <1>2, <1>3
<1>7. ASSUME NEW k \in Instances
      PROVE  /\ faults + Cardinality(Gone \ audience[k]) <= Paid
             /\ faults' + Cardinality((Gone \ audience[k])') <= Paid'
             /\ Gone \cap audience'[k] = {} =>
                   Paid <= faults' + Cardinality((Gone \ audience[k])')
  <2>1. PICK a \in Nat, b \in Nat, g \in Nat, h \in Nat :
            /\ a = Cardinality(Gone \ audience[k]) /\ b = Cardinality((Gone \ audience[k])')
            /\ g = Cardinality(Gone) /\ h = Cardinality(Gone')
    <3>1. Cardinality(Gone) \in Nat /\ Cardinality(Gone') \in Nat
      BY <1>2
    <3>2. Cardinality(Gone \ audience[k]) \in Nat /\ Cardinality((Gone \ audience[k])') \in Nat
      BY <1>4
    <3>3. QED  BY <3>1, <3>2
  <2>2. a <= g /\ b <= h
    BY <1>4, <2>1
  <2>3. Gone \cap audience'[k] = {} => g <= b
    BY <1>4, <2>1
  <2>4. PICK n \in Nat, m \in Nat : n = faults /\ m = faults'
    BY <1>1
  <2>5. n <= m
    BY <1>1, <2>4
  <2>6. Paid = n + g /\ Paid' = m + h
    BY <1>3, <2>1, <2>4
  <2>7. n + a <= n + g /\ m + b <= m + h
    BY <2>2
  <2>8. g <= b => n + g <= m + b
    BY <2>5
  <2>9. QED  BY <2>1, <2>3, <2>4, <2>6, <2>7, <2>8
<1>8. QED  BY <1>1, <1>4, <1>5, <1>6, <1>7

(* A step that shows nothing: a group is begun with what was paid for, one *)
(* fails at the price of a fault, and the count of an event that nobody    *)
(* delivers was paid for, or is now.                                       *)
LEMMA QuietRepeat ==
    ASSUME IInv, RepeatInv, [Next]_vars, UNCHANGED shown,
           \A e \in Events :
               status'[e] # "PROCESSED" /\ ~Underway(e)' =>
                   \/ status[e] # "PROCESSED" /\ ~Underway(e)
                   \/ faults' # faults
                   \/ \E k \in Instances : e \in group[k] /\ pc[k] = "failed",
           \A k \in Instances : \A e \in group'[k] :
               /\ pc'[k] = "failed" =>
                     (e \in group[k] /\ pc[k] = "failed") \/ faults' # faults
               /\ pc'[k] = "send" =>
                     \/ e \in group[k] /\ pc[k] = "send" /\ audience'[k] = audience[k]
                     \/ /\ status[e] # "PROCESSED" /\ ~Underway(e)
                        /\ Gone \cap audience'[k] = {}
    PROVE  RepeatInv'
<1>1. ASSUME NEW e \in Events, NEW d \in Devices
      PROVE  RepeatAt(e, d)'
  <2>1. PICK s \in Nat, x \in Nat, y \in Nat :
            s = shown[e][d] /\ x = Paid /\ y = Paid'
    BY Amounts
  <2>2. x <= y /\ (faults' # faults => x + 1 <= y) /\ shown'[e][d] = s
    BY <2>1, Amounts
  <2>3. /\ s <= x + 1
        /\ status[e] # "PROCESSED" /\ ~Underway(e) => s <= x
        /\ \A k \in Instances : RoundAt(k, e, d)
    BY <2>1 DEF RepeatInv, RepeatAt
  <2>4. s <= y + 1
    BY <2>2, <2>3
  <2>5. s <= x \/ faults' # faults => s <= y
    BY <2>2, <2>3
  <2>6. status'[e] # "PROCESSED" /\ ~Underway(e)' => s <= y
    <3>1. ASSUME NEW k \in Instances, e \in group[k], pc[k] = "failed" PROVE s <= x
      BY <2>1, <2>3, <3>1 DEF RoundAt
    <3>2. QED  BY <2>3, <2>5, <3>1
  <2>7. ASSUME NEW k \in Instances, e \in group'[k] PROVE RoundAt(k, e, d)'
    <3>1. pc'[k] = "failed" => s <= y
      <4>1. e \in group[k] /\ pc[k] = "failed" => s <= x
        BY <2>1, <2>3 DEF RoundAt
      <4>2. QED  BY <2>5, <2>7, <4>1
    <3>2. ASSUME pc'[k] = "send"
          PROVE  s <= faults' + Cardinality((Gone \ audience[k])')
                        + (IF d \in audience'[k] THEN 0 ELSE 1)
      <4> DEFINE one == IF d \in audience'[k] THEN 0 ELSE 1
      <4>1. PICK n \in Nat, m \in Nat, a \in Nat, b \in Nat :
                /\ n = faults /\ m = faults'
                /\ a = Cardinality(Gone \ audience[k]) /\ b = Cardinality((Gone \ audience[k])')
        BY Amounts
      <4>2. n <= m
        BY <4>1, Amounts
      <4>3. one \in {0, 1}
        OBVIOUS
      <4>4. CASE e \in group[k] /\ pc[k] = "send" /\ audience'[k] = audience[k]
        <5>1. s <= n + a + one
          BY <2>1, <2>3, <4>1, <4>4 DEF RoundAt
        <5>2. a <= b
          BY <4>1, <4>4, Amounts
        <5> HIDE DEF one
        <5>3. s <= m + b + one
          BY <4>2, <4>3, <5>1, <5>2
        <5>4. QED  BY <4>1, <5>3 DEF one
      <4>5. CASE /\ status[e] # "PROCESSED" /\ ~Underway(e)
                 /\ Gone \cap audience'[k] = {}
        <5>1. s <= x
          BY <2>3, <4>5
        <5>2. x <= m + b
          BY <2>1, <4>1, <4>5, Amounts
        <5> HIDE DEF one
        <5>3. s <= m + b + one
          BY <4>3, <5>1, <5>2
        <5>4. QED  BY <4>1, <5>3 DEF one
      <4>6. QED  BY <2>7, <3>2, <4>4, <4>5
    <3>3. QED  BY <2>1, <2>2, <3>1, <3>2 DEF RoundAt
  <2>8. \A k \in Instances : RoundAt(k, e, d)'
    BY <2>7 DEF RoundAt
  <2>9. QED  BY <2>1, <2>2, <2>4, <2>6, <2>8 DEF RepeatAt
<1>2. QED  BY <1>1 DEF RepeatInv

(* The world and the tick deliver nothing. *)
LEMMA CalmRepeat ==
    ASSUME IInv, RepeatInv, [Next]_vars,
           \/ World \/ UNCHANGED vars
           \/ \E i \in Instances : Tick(i)
    PROVE  RepeatInv'
<1> USE DEF rows, registry, process
<1>1. /\ UNCHANGED <<shown, group, audience>>
      /\ \A e \in Events : status'[e] # "PROCESSED" => status[e] # "PROCESSED"
      /\ \A k \in Instances : pc'[k] = pc[k] \/ group[k] = {}
  <2>0. /\ status \in [Events -> EventStatus] /\ pc \in [Instances -> Places]
        /\ \A k \in Instances : pc[k] \in {"idle", "claim"} => group[k] = {}
    BY DEF IInv, ClaimInv, TypeOK, HandInv, HandAt
  <2>1. CASE World
    <3>1. UNCHANGED <<shown, group, audience, pc>>
      BY <2>1 DEF World, Write, Due, Age, Register, Unregister, Uninstall
    <3>2. \/ UNCHANGED status
          \/ \E e \in Events : status[e] = "ABSENT" /\ status' = [status EXCEPT ![e] = "PENDING"]
      BY <2>1 DEF World, Write, Due, Age, Register, Unregister, Uninstall
    <3>3. QED  BY <2>0, <3>1, <3>2
  <2>2. ASSUME NEW i \in Instances, NEW fails \in BOOLEAN, Recover(i, fails)
        PROVE  /\ UNCHANGED <<shown, group, audience>>
               /\ \A e \in Events : status'[e] # "PROCESSED" => status[e] # "PROCESSED"
               /\ \A k \in Instances : pc'[k] = pc[k] \/ group[k] = {}
    BY <2>0, <2>2 DEF Recover, Recoverable, Place
  <2>3. ASSUME NEW i \in Instances, NEW S \in SUBSET Events, NEW fails \in BOOLEAN,
               Claim(i, S, fails)
        PROVE  /\ UNCHANGED <<shown, group, audience>>
               /\ \A e \in Events : status'[e] # "PROCESSED" => status[e] # "PROCESSED"
               /\ \A k \in Instances : pc'[k] = pc[k] \/ group[k] = {}
    <3>1. /\ UNCHANGED <<shown, group, audience>> /\ pc[i] = "claim"
          /\ \A e \in Events : status'[e] = IF e \in S THEN "PROCESSING" ELSE status[e]
          /\ \A k \in Instances : k # i => pc'[k] = pc[k]
      BY <2>0, <2>3 DEF Claim, Place
    <3>2. \A e \in S : status[e] = "PENDING"
      BY <2>3 DEF Claim, Batches, Claimable
    <3>3. QED  BY <2>0, <3>1, <3>2
  <2>4. CASE UNCHANGED vars
    BY <2>4 DEF vars
  <2>5. QED  BY <2>1, <2>2, <2>3, <2>4 DEF Tick
<1>2. \A e \in Events : Underway(e) => Underway(e)'
  BY <1>1 DEF Underway
<1>3. \A k \in Instances : \A e \in group'[k] :
         e \in group[k] /\ pc'[k] = pc[k] /\ audience'[k] = audience[k]
  BY <1>1
<1>4. QED  BY <1>1, <1>2, <1>3, QuietRepeat

(* A group is begun with events that nobody delivers, and with devices     *)
(* that are subscribed.                                                    *)
LEMMA BeginRepeat ==
    ASSUME IInv, RepeatInv, [Next]_vars, NEW i \in Instances, NEW G \in SUBSET Events,
           NEW fails \in BOOLEAN, Begin(i, G, fails)
    PROVE  RepeatInv'
<1> USE DEF rows, registry
<1> DEFINE targets == active \cap UNION {Interested[e] : e \in G}
           where == IF fails THEN "failed" ELSE IF targets = {} THEN "settle" ELSE "send"
<1>1. /\ UNCHANGED <<status, shown>> /\ pc[i] = "deliver" /\ G \in Groups(batch[i])
      /\ group' = [group EXCEPT ![i] = G]
      /\ audience' = [audience EXCEPT ![i] = IF fails THEN {} ELSE targets]
      /\ pc' = [pc EXCEPT ![i] = where]
  BY DEF Begin, Place
<1>2. /\ pc \in [Instances -> Places] /\ batch \in [Instances -> SUBSET Events]
      /\ group \in [Instances -> SUBSET Events] /\ audience \in [Instances -> SUBSET Devices]
      /\ faults \in Nat
  BY BoundsAssumption DEF IInv, ClaimInv, TypeOK
<1>3. G \subseteq batch[i] /\ group[i] = {}
  BY <1>1 DEF Groups, IInv, ClaimInv, HandInv, HandAt
<1>4. \A e \in G : status[e] # "PROCESSED" /\ ~Underway(e)
  <2>1. ASSUME NEW e \in G PROVE status[e] = "PROCESSING"
    BY <1>3 DEF IInv, HeldInv, HeldAt
  <2>2. ASSUME NEW e \in G, NEW k \in Instances, e \in group[k] PROVE FALSE
    <3>1. e \in batch[k] /\ e \in batch[i] /\ k # i
      BY <1>3, <2>2 DEF IInv, ClaimInv, HandInv, HandAt
    <3>2. QED  BY <3>1 DEF IInv, OneHolder
  <2>3. QED  BY <2>1, <2>2 DEF Underway
<1>5. fails => faults' # faults
  BY <1>2 DEF Begin, Fault
<1>6. Gone \cap targets = {}
  BY DEF Gone
<1> HIDE DEF targets
<1>7. /\ pc'[i] = where /\ group'[i] = G
      /\ audience'[i] = IF fails THEN {} ELSE targets
      /\ \A k \in Instances : k # i =>
            pc'[k] = pc[k] /\ group'[k] = group[k] /\ audience'[k] = audience[k]
  BY <1>1, <1>2
<1>8. \A e \in Events : Underway(e) => Underway(e)'
  <2>1. ASSUME NEW e \in Events, NEW k \in Instances, e \in group[k],
               pc[k] \in {"send", "settle"}
        PROVE  e \in group'[k] /\ pc'[k] \in {"send", "settle"}
    BY <1>3, <1>7, <2>1
  <2>2. QED  BY <2>1 DEF Underway
<1>9. ASSUME NEW k \in Instances, NEW e \in group'[k]
      PROVE  /\ pc'[k] = "failed" =>
                   (e \in group[k] /\ pc[k] = "failed") \/ faults' # faults
             /\ pc'[k] = "send" =>
                   \/ e \in group[k] /\ pc[k] = "send" /\ audience'[k] = audience[k]
                   \/ /\ status[e] # "PROCESSED" /\ ~Underway(e)
                      /\ Gone \cap audience'[k] = {}
  <2>1. CASE k = i
    BY <1>4, <1>5, <1>6, <1>7, <2>1
  <2>2. CASE k # i
    BY <1>7, <2>2
  <2>3. QED  BY <2>1, <2>2
<1>10. QED  BY <1>1, <1>8, <1>9, QuietRepeat

(* What ends a delivery either makes its events PROCESSED or costs a fault,*)
(* unless the delivery had failed before.                                  *)
LEMMA SettleRepeat ==
    ASSUME IInv, RepeatInv, [Next]_vars, NEW i \in Instances,
           \/ Settle(i)
           \/ \E committed \in BOOLEAN : SettleFails(i, committed)
           \/ \E done \in SUBSET Events, throws \in BOOLEAN : Reschedule(i, done, throws)
           \/ Crash(i)
    PROVE  RepeatInv'
<1> USE DEF rows, registry
<1>0. /\ pc \in [Instances -> Places] /\ group \in [Instances -> SUBSET Events]
      /\ audience \in [Instances -> SUBSET Devices] /\ faults \in Nat
  BY BoundsAssumption DEF IInv, ClaimInv, TypeOK
<1>1. /\ UNCHANGED shown
      /\ \A k \in Instances : k # i =>
            pc'[k] = pc[k] /\ group'[k] = group[k] /\ audience'[k] = audience[k]
      /\ group'[i] = {} \/ (pc'[i] = "failed" /\ faults' # faults)
  <2>1. UNCHANGED shown
    BY DEF Settle, SettleFails, Reschedule, Crash
  <2>2. \/ NextGroup(i) \/ Abandon(i)
        \/ /\ UNCHANGED <<group, audience>> /\ pc' = [pc EXCEPT ![i] = "failed"]
           /\ faults' = faults + 1
    BY DEF Settle, SettleFails, Reschedule, Crash, Place, Fault
  <2>3. CASE NextGroup(i) \/ Abandon(i)
    <3>1. /\ group' = [group EXCEPT ![i] = {}] /\ audience' = [audience EXCEPT ![i] = {}]
      BY <2>3 DEF NextGroup, Abandon
    <3>2. \A k \in Instances : k # i => pc'[k] = pc[k]
      <4>1. CASE NextGroup(i)
        BY <1>0, <4>1 DEF NextGroup, Place
      <4>2. CASE Abandon(i)
        BY <1>0, <4>2 DEF Abandon, Place
      <4>3. QED  BY <2>3, <4>1, <4>2
    <3>3. QED  BY <1>0, <2>1, <3>1, <3>2
  <2>4. CASE /\ UNCHANGED <<group, audience>> /\ pc' = [pc EXCEPT ![i] = "failed"]
             /\ faults' = faults + 1
    BY <1>0, <2>1, <2>4
  <2>5. QED  BY <2>2, <2>3, <2>4
<1>2. \A e \in Events :
         status'[e] # "PROCESSED" /\ ~(e \in group[i] /\ pc[i] \in {"send", "settle"}) =>
             status[e] # "PROCESSED" \/ (e \in group[i] /\ pc[i] = "failed")
  <2>1. CASE Settle(i)
    BY <2>1 DEF Settle
  <2>2. ASSUME NEW committed \in BOOLEAN, SettleFails(i, committed)
        PROVE  \A e \in Events : status'[e] # "PROCESSED" => status[e] # "PROCESSED"
    BY <2>2 DEF SettleFails
  <2>3. ASSUME NEW done \in SUBSET Events, NEW throws \in BOOLEAN, Reschedule(i, done, throws)
        PROVE  \A e \in Events : status'[e] # "PROCESSED" =>
                   status[e] # "PROCESSED" \/ (e \in group[i] /\ pc[i] = "failed")
    BY <2>3 DEF Reschedule
  <2>4. CASE Crash(i)
    BY <2>4 DEF Crash
  <2>5. QED  BY <2>1, <2>2, <2>3, <2>4
<1>3. \A e \in Events :
         status'[e] # "PROCESSED" /\ e \in group[i] /\ pc[i] \in {"send", "settle"} =>
             faults' # faults
  BY <1>0 DEF Settle, SettleFails, Reschedule, Crash, Fault
<1>4. ASSUME NEW e \in Events, status'[e] # "PROCESSED" /\ ~Underway(e)'
      PROVE  \/ status[e] # "PROCESSED" /\ ~Underway(e)
             \/ faults' # faults
             \/ \E k \in Instances : e \in group[k] /\ pc[k] = "failed"
  <2>1. Underway(e) => e \in group[i] /\ pc[i] \in {"send", "settle"}
    <3>1. ASSUME NEW k \in Instances, e \in group[k], pc[k] \in {"send", "settle"}
          PROVE  k = i
      BY <1>1, <1>4, <3>1 DEF Underway
    <3>2. QED  BY <3>1 DEF Underway
  <2>2. QED  BY <1>2, <1>3, <1>4, <2>1 DEF Underway
<1>5. ASSUME NEW k \in Instances, NEW e \in group'[k]
      PROVE  /\ pc'[k] = "failed" =>
                   (e \in group[k] /\ pc[k] = "failed") \/ faults' # faults
             /\ pc'[k] = "send" =>
                   \/ e \in group[k] /\ pc[k] = "send" /\ audience'[k] = audience[k]
                   \/ /\ status[e] # "PROCESSED" /\ ~Underway(e)
                      /\ Gone \cap audience'[k] = {}
  <2>1. CASE k = i
    BY <1>1, <2>1
  <2>2. CASE k # i
    BY <1>1, <2>2
  <2>3. QED  BY <2>1, <2>2
<1>6. QED  BY <1>1, <1>4, <1>5, QuietRepeat

(* A dispatch shows the group to devices that leave the audience. If it    *)
(* ends the delivery, it costs a fault, or subscriptions of devices that   *)
(* were in the audience and therefore not gone before.                     *)
LEMMA DispatchRepeat ==
    ASSUME IInv, RepeatInv, [Next]_vars, NEW i \in Instances, NEW l,
           NEW reached \in SUBSET Devices,
           \/ \E cleaned \in BOOLEAN : Dispatch(i, l, reached, cleaned)
           \/ DispatchLost(i, l, reached)
    PROVE  RepeatInv'
<1> USE DEF rows, registry
<1>1. /\ pc[i] = "send" /\ Show(i, reached) /\ UNCHANGED <<status, installed, group>>
      /\ Targets(i, l) # {} /\ reached \subseteq Targets(i, l)
  BY DEF Dispatch, DispatchLost
<1>2. /\ pc \in [Instances -> Places] /\ audience \in [Instances -> SUBSET Devices]
      /\ batch \in [Instances -> SUBSET Events] /\ group \in [Instances -> SUBSET Events]
      /\ shown \in [Events -> [Devices -> 0..MaxClaims]]
      /\ active \in SUBSET Devices /\ installed \in SUBSET Devices /\ faults \in Nat
  BY BoundsAssumption DEF IInv, ClaimInv, TypeOK
<1>3. \A e \in Events, d \in Devices :
         shown'[e][d] = shown[e][d] + (IF e \in group[i] /\ d \in reached THEN 1 ELSE 0)
  BY <1>1, <1>2 DEF Show
<1>4. reached \subseteq audience[i] /\ Targets(i, l) \subseteq audience[i]
  BY <1>1 DEF Targets
<1>5. \A k \in Instances : k # i => pc'[k] = pc[k] /\ audience'[k] = audience[k]
  BY <1>2 DEF Dispatch, DispatchLost, SendFails, Place
<1>6. \/ /\ pc'[i] = "failed" /\ audience'[i] = {}
         /\ faults' # faults \/ \E x \in audience[i] : x \in Gone'
      \/ /\ pc'[i] \in {"send", "settle"}
         /\ audience'[i] \subseteq audience[i] \ reached
  <2>1. CASE DispatchLost(i, l, reached)
    BY <1>2, <2>1 DEF DispatchLost, SendFails, Place, Fault
  <2>2. ASSUME NEW cleaned \in BOOLEAN, Dispatch(i, l, reached, cleaned), reached = {}
        PROVE  /\ pc'[i] = "failed" /\ audience'[i] = {}
               /\ faults' # faults \/ \E x \in audience[i] : x \in Gone'
    <3>1. pc'[i] = "failed" /\ audience'[i] = {}
      BY <1>2, <2>2 DEF Dispatch, SendFails, Place
    <3>2. CASE ~cleaned \/ reached # Targets(i, l) \cap installed
      <4>1. faults' = faults + 1
        BY <2>2, <3>2 DEF Dispatch, Fault
      <4>2. QED  BY <1>2, <3>1, <4>1
    <3>3. CASE cleaned /\ reached = Targets(i, l) \cap installed
      <4>1. PICK x \in Targets(i, l) : x \notin installed
        BY <1>1, <2>2, <3>3
      <4>2. active' = active \ (Targets(i, l) \ installed)
        BY <2>2, <3>3 DEF Dispatch, StillActive
      <4>3. x \in audience[i] /\ x \in Devices /\ x \notin active' /\ x \notin installed'
        BY <1>1, <1>2, <1>4, <4>1, <4>2
      <4>4. x \in Gone'
        BY <4>3 DEF Gone
      <4>5. QED  BY <3>1, <4>3, <4>4
    <3>4. QED  BY <3>2, <3>3
  <2>3. ASSUME NEW cleaned \in BOOLEAN, Dispatch(i, l, reached, cleaned), reached # {}
        PROVE  /\ pc'[i] \in {"send", "settle"}
               /\ audience'[i] \subseteq audience[i] \ reached
    <3>1. /\ audience' = [audience EXCEPT ![i] = OtherLocales(i, l)]
          /\ pc' = [pc EXCEPT ![i] = IF OtherLocales(i, l) = {} THEN "settle" ELSE "send"]
      BY <2>3 DEF Dispatch, Place
    <3>2. OtherLocales(i, l) \subseteq audience[i] \ reached
      BY <1>1 DEF OtherLocales
    <3>3. QED  BY <1>2, <3>1, <3>2
  <2>4. QED  BY <2>1, <2>2, <2>3
<1>7. \A e \in group[i] : /\ e \in Events /\ status[e] = "PROCESSING"
                          /\ \A k \in Instances : e \in group[k] => k = i
  BY <1>1, <1>2 DEF IInv, ClaimInv, HandInv, HandAt, HeldInv, HeldAt, OneHolder
<1>8. ASSUME NEW e \in Events, e \notin group[i], NEW d \in Devices
      PROVE  RepeatAt(e, d)'
  <2>1. PICK s \in Nat, x \in Nat, y \in Nat :
            s = shown[e][d] /\ x = Paid /\ y = Paid'
    BY Amounts
  <2>2. x <= y /\ shown'[e][d] = s
    BY <1>3, <1>8, <2>1, Amounts
  <2>3. /\ s <= x + 1
        /\ status[e] # "PROCESSED" /\ ~Underway(e) => s <= x
        /\ \A k \in Instances : RoundAt(k, e, d)
    BY <2>1 DEF RepeatInv, RepeatAt
  <2>4. s <= y + 1 /\ (s <= x => s <= y)
    BY <2>2, <2>3
  <2>5. \A k \in Instances : e \in group'[k] =>
           k # i /\ e \in group[k] /\ pc'[k] = pc[k] /\ audience'[k] = audience[k]
    BY <1>1, <1>5, <1>8
  <2>6. Underway(e) => Underway(e)'
    BY <1>1, <1>5, <1>8 DEF Underway
  <2>7. ASSUME NEW k \in Instances, e \in group'[k] PROVE RoundAt(k, e, d)'
    <3>1. pc'[k] = "failed" => s <= y
      BY <2>1, <2>3, <2>4, <2>5, <2>7 DEF RoundAt
    <3>2. ASSUME pc'[k] = "send"
          PROVE  s <= faults' + Cardinality((Gone \ audience[k])')
                        + (IF d \in audience'[k] THEN 0 ELSE 1)
      <4> DEFINE one == IF d \in audience'[k] THEN 0 ELSE 1
      <4>1. PICK n \in Nat, m \in Nat, a \in Nat, b \in Nat :
                /\ n = faults /\ m = faults'
                /\ a = Cardinality(Gone \ audience[k]) /\ b = Cardinality((Gone \ audience[k])')
        BY Amounts
      <4>2. audience'[k] = audience[k] /\ pc[k] = "send" /\ e \in group[k]
        BY <2>5, <2>7, <3>2
      <4>3. n <= m /\ a <= b
        BY <4>1, <4>2, Amounts
      <4>4. s <= n + a + one
        BY <2>1, <2>3, <4>1, <4>2 DEF RoundAt
      <4>5. one \in {0, 1}
        OBVIOUS
      <4> HIDE DEF one
      <4>6. s <= m + b + one
        BY <4>3, <4>4, <4>5
      <4>7. QED  BY <4>1, <4>6 DEF one
    <3>3. QED  BY <2>1, <2>2, <3>1, <3>2 DEF RoundAt
  <2>8. \A k \in Instances : RoundAt(k, e, d)'
    BY <2>7 DEF RoundAt
  <2>9. QED  BY <1>1, <2>1, <2>2, <2>3, <2>4, <2>6, <2>8 DEF RepeatAt
<1>9. ASSUME NEW e \in Events, e \in group[i], NEW d \in Devices
      PROVE  RepeatAt(e, d)'
  <2> DEFINE one == IF d \in audience[i] THEN 0 ELSE 1
             inc == IF d \in reached THEN 1 ELSE 0
             then == IF d \in audience'[i] THEN 0 ELSE 1
  <2>1. PICK s \in Nat, t \in Nat, x \in Nat, y \in Nat :
            s = shown[e][d] /\ t = shown'[e][d] /\ x = Paid /\ y = Paid'
    BY Amounts
  <2>2. PICK n \in Nat, m \in Nat, a \in Nat, b \in Nat :
            /\ n = faults /\ m = faults'
            /\ a = Cardinality(Gone \ audience[i]) /\ b = Cardinality((Gone \ audience[i])')
    BY Amounts
  <2>3. n <= m /\ n + a <= x /\ m + b <= y /\ x <= y
    BY <2>1, <2>2, Amounts
  <2>4. s <= n + a + one
    BY <1>1, <1>9, <2>1, <2>2 DEF RepeatInv, RepeatAt, RoundAt
  <2>5. t = s + inc
    BY <1>3, <1>9, <2>1
  <2>6. one + inc \in {0, 1} /\ inc \in {0, 1} /\ one \in {0, 1} /\ then \in {0, 1}
    BY <1>4
  <2>7. \A k \in Instances : e \in group'[k] => k = i
    BY <1>1, <1>7, <1>9
  <2>8. status'[e] = "PROCESSING"
    BY <1>1, <1>7, <1>9
  <2>9. CASE /\ pc'[i] = "failed" /\ audience'[i] = {}
             /\ faults' # faults \/ \E z \in audience[i] : z \in Gone'
    <3>1. n + a + 1 <= y
      <4>1. CASE faults' # faults
        <5>1. n + 1 <= m /\ a <= b
          <6>1. a <= b  BY <2>2, <2>9, Amounts
          <6>2. n + 1 <= m  BY <2>2, <2>3, <4>1
          <6>3. QED  BY <6>1, <6>2
        <5>2. QED  BY <2>3, <5>1
      <4>2. ASSUME NEW z \in audience[i], z \in Gone'
            PROVE  n + a + 1 <= y
        <5>1. /\ Gone \subseteq Gone' /\ Gone' \in SUBSET Devices
              /\ (Gone \ audience[i]) \in SUBSET Gone' /\ z \notin Gone \ audience[i]
          BY <4>2, Grows DEF Gone
        <5>2. a + 1 <= Cardinality(Gone')
          BY <2>2, <4>2, <5>1, DeviceCount
        <5>3. y = m + Cardinality(Gone') /\ Cardinality(Gone') \in Nat
          BY <2>1, <2>2, <5>1, DeviceCount DEF Paid
        <5>4. QED  BY <2>3, <5>2, <5>3
      <4>3. QED  BY <2>9, <4>1, <4>2
    <3> HIDE DEF one, inc
    <3>2. t <= y /\ t <= y + 1
      BY <2>4, <2>5, <2>6, <3>1
    <3>3. RoundAt(i, e, d)'
      BY <2>1, <2>9, <3>2 DEF RoundAt
    <3>4. QED  BY <2>1, <2>7, <3>2, <3>3 DEF RepeatAt, RoundAt
  <2>10. CASE /\ pc'[i] \in {"send", "settle"}
              /\ audience'[i] \subseteq audience[i] \ reached
    <3>1. a <= b
      BY <2>2, <2>10, Amounts
    <3>2. one + inc <= then
      BY <1>4, <2>10
    <3> HIDE DEF one, inc, then
    <3>3. t <= m + b + then
      BY <2>3, <2>4, <2>5, <2>6, <3>1, <3>2
    <3>4. t <= y + 1
      BY <2>3, <2>6, <3>3
    <3>5. RoundAt(i, e, d)'
      BY <2>1, <2>2, <2>10, <3>3 DEF RoundAt, then
    <3>6. Underway(e)'
      BY <1>1, <1>9, <2>10 DEF Underway
    <3>7. QED  BY <2>1, <2>7, <3>4, <3>5, <3>6 DEF RepeatAt, RoundAt
  <2>11. QED  BY <1>6, <2>9, <2>10
<1>10. QED  BY <1>8, <1>9 DEF RepeatInv

LEMMA RepeatNext ==
    ASSUME IInv, RepeatInv, [Next]_vars
    PROVE  RepeatInv'
<1>1. ASSUME NEW i \in Instances, Tick(i) \/ Deliver(i) \/ Crash(i)
      PROVE  RepeatInv'
  BY <1>1, CalmRepeat, BeginRepeat, DispatchRepeat, SettleRepeat DEF Deliver
<1>2. QED  BY <1>1, CalmRepeat DEF Next

(* Whoever sees an event twice sees it for a reason: a fault, or devices   *)
(* that were removed, each paying for one repetition. Holds whether or not *)
(* FCM serves the devices it knows.                                        *)
THEOREM RepetitionsArePaid == ASSUME ~Outlive PROVE Spec => []DuplicatesHaveCauses
<1>1. Init => RepeatInv
  <2>1. ASSUME Init, NEW e \in Events, NEW d \in Devices PROVE RepeatAt(e, d)
    <3>1. shown[e][d] = 0 /\ faults = 0 /\ \A k \in Instances : group[k] = {}
      BY <2>1 DEF Init
    <3>2. Paid \in Nat
      BY <3>1, DeviceCount DEF Paid, Gone
    <3>3. QED  BY <3>1, <3>2 DEF RepeatAt, RoundAt
  <2>2. QED  BY <2>1 DEF RepeatInv
<1>2. IInv /\ RepeatInv /\ [Next]_vars => RepeatInv'
  BY RepeatNext
<1>3. IInv /\ RepeatInv => DuplicatesHaveCauses
  <2>1. ASSUME IInv, RepeatInv, NEW e \in Events, NEW d \in Devices
        PROVE  shown[e][d] <= 1 + faults + Cardinality(Dead)
    <3>1. Gone \in SUBSET Dead /\ Dead \in SUBSET Devices
      BY DEF Gone, Dead
    <3>2. /\ Cardinality(Gone) \in Nat /\ Cardinality(Dead) \in Nat
          /\ Cardinality(Gone) <= Cardinality(Dead)
      BY <3>1, DeviceCount
    <3>3. faults \in Nat /\ shown[e][d] \in Nat
      BY <2>1, BoundsAssumption DEF IInv, ClaimInv, TypeOK
    <3>4. shown[e][d] <= faults + Cardinality(Gone) + 1
      BY <2>1 DEF RepeatInv, RepeatAt, Paid
    <3>5. QED  BY <3>2, <3>3, <3>4
  <2>2. QED  BY <2>1 DEF DuplicatesHaveCauses
<1>4. QED  BY OutboxInvariant, <1>1, <1>2, <1>3, PTL DEF Spec
===============================================================================
