---------------------- MODULE NotificationOutboxInvariant ----------------------
(***************************************************************************)
(* The inductive invariants of NotificationOutbox.  ClaimInv holds always; *)
(* MissInv needs an FCM that serves the devices of a locale together; IInv *)
(* and RepeatInv need batches that are done within ten minutes.            *)
(***************************************************************************)
EXTENDS NotificationOutbox

(* What an instance has in hand, by where it is. *)
HandAt(i) ==
    /\ group[i] \subseteq batch[i]
    /\ pc[i] \in {"idle", "claim"} => batch[i] = {}
    /\ pc[i] = "deliver" => group[i] = {}
    /\ pc[i] # "send" => audience[i] = {}

HandInv == \A i \in Instances : HandAt(i)

(* The instances that may still show e on d by virtue of a claim of e. *)
MayShow(e, d) ==
    {i \in Instances : e \in batch[i] /\ (e \notin group[i] \/ d \in audience[i])}

(* Each claim is a showing that has been or may still be. *)
ShownAt(e, d) == shown[e][d] + Cardinality(MayShow(e, d)) <= attempts[e]

ShownInv == \A e \in Events, d \in Devices : ShownAt(e, d)

ClaimInv == TypeOK /\ HandInv /\ ShownInv

(* A held event is claimed, by a fresh claim.  Only a group whose settling *)
(* was committed but reported as failed may be PROCESSED.                  *)
HeldAt(i) ==
    \A e \in batch[i] :
        /\ e \notin stale
        /\ \/ status[e] = "PROCESSING"
           \/ status[e] = "PROCESSED" /\ e \in group[i] /\ pc[i] = "failed"

HeldInv == \A i \in Instances : HeldAt(i)

StaleInv == \A e \in stale : status[e] = "PROCESSING"

IInv == ClaimInv /\ HeldInv /\ StaleInv /\ OneHolder

-------------------------------------------------------------------------------
(* Nobody is missed, as long as FCM serves the devices it knows: whoever   *)
(* is entitled is subscribed and interested, and so belongs to every       *)
(* audience that is read for the event.                                    *)

EntitledInv ==
    \A e \in Events : entitled[e] \subseteq Interested[e] \cap active \cap installed

WrittenInv == \A i \in Instances : \A e \in batch[i] : status[e] # "ABSENT"

(* What is being delivered has been shown to the entitled, or will be.     *)
ServedAt(i, e) ==
    pc[i] \in {"send", "settle"} /\ e \in group[i] =>
        \A d \in entitled[e] : d \in audience[i] \/ shown[e][d] > 0

ServedInv == \A i \in Instances, e \in Events : ServedAt(i, e)

MissInv == ClaimInv /\ EntitledInv /\ WrittenInv /\ ServedInv /\ NobodyMissed

-------------------------------------------------------------------------------
(* Every repetition is paid for, as long as batches are done within ten    *)
(* minutes: by a fault, or by uninstalled devices whose subscriptions end  *)
(* when FCM refuses a locale that consists of them.                        *)

Gone == Devices \ (installed \cup active)

Paid == faults + Cardinality(Gone)

Underway(e) ==
    \E i \in Instances : e \in group[i] /\ pc[i] \in {"send", "settle"}

(* A delivery under way may show once more what was paid for when its      *)
(* audience was read: the devices of that audience were subscribed then.   *)
RoundAt(i, e, d) ==
    e \in group[i] =>
        /\ pc[i] = "failed" => shown[e][d] <= Paid
        /\ pc[i] = "send" =>
              shown[e][d] <= faults + Cardinality(Gone \ audience[i])
                                + (IF d \in audience[i] THEN 0 ELSE 1)

RepeatAt(e, d) ==
    /\ shown[e][d] <= Paid + 1
    /\ status[e] # "PROCESSED" /\ ~Underway(e) => shown[e][d] <= Paid
    /\ \A i \in Instances : RoundAt(i, e, d)

RepeatInv == \A e \in Events, d \in Devices : RepeatAt(e, d)
===============================================================================
