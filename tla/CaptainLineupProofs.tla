------------------------ MODULE CaptainLineupProofs ------------------------
(***************************************************************************)
(* Every line-up that is validated and was not overtaken is legal and      *)
(* shares no starter with a validated rival, for any number of matches,    *)
(* teams, players and requests, and stands by strength unless it was       *)
(* justified.  The proof has one lemma per action; what a step does to the *)
(* claims is Shrinks, or the check of one request.                         *)
(***************************************************************************)
EXTENDS CaptainLineup, FiniteSetTheorems, TLAPS

-------------------------------------------------------------------------------
(* Why a validation that nobody overtook can be trusted.  A match is       *)
(* claimed when its verdict is "accepted" for the slots it now has: the    *)
(* verdict is written, or a request still holds it.  A draft is visible to *)
(* the checks of the other line-ups from its save on, so whichever of two  *)
(* checks comes second sees the other line-up, validated or not.  What a   *)
(* request found out about the order of the starters goes with it, and so  *)
(* does the justification it was given for a wrong one.                    *)

Holds(r, m) ==
  req[r].pc = "accepted" /\ req[r].match = m /\ req[r].fresh

Claimed(m) == Validated(m) \/ \E r \in Requests : Holds(r, m)

\* A request that no save overtook has the slots of its line-up.
FreshInv ==
  \A r \in Requests :
    req[r].pc # "idle" /\ req[r].fresh =>
      /\ lineup[req[r].match].status # "A_FAIRE"
      /\ lineup[req[r].match].slots = req[r].slots

\* Two claimed line-ups of rival teams share no starter.
DisjointInv ==
  \A m, n \in Matches :
    Claimed(m) /\ Claimed(n) /\ Rivals(m, n)
      => Players(lineup[m].slots) \cap Players(lineup[n].slots) = {}

\* A claimed line-up has passed the rules about itself.
LegalInv ==
  \A m \in Matches :
    Claimed(m) =>
      TeamSize(m, lineup[m].slots) /\ ~BelowPlace(m, lineup[m].slots)

SnapshotInv ==
  \A m \in Matches : Validated(m) => lineup[m].snapshot = lineup[m].slots

\* A claim that nobody overtook is legal and disjoint from its rivals
\* (validateLineup between its reads and its write).
IInv == TypeOK /\ FreshInv /\ DisjointInv /\ LegalInv /\ SnapshotInv

Ordered(m, slots) == \E order \in Orders(slots) : ~OutOfOrder(m, order)

\* A request that was not refused has seen its starters in order, or brings a
\* justification with it.
AcceptedInv ==
  \A r \in Requests :
    req[r].pc = "accepted" =>
      Ordered(req[r].match, req[r].slots) \/ req[r].justification = "given"

\* So has a validated line-up, or it was justified when it was validated.
Excused(m) == excused[m] /\ lineup[m].justified

JustifiedInv ==
  \A m \in Matches : Validated(m) => Ordered(m, lineup[m].slots) \/ Excused(m)

OrderInv == AcceptedInv /\ JustifiedInv

-------------------------------------------------------------------------------
\* A match whose row did not change, or that lost its claim, keeps DisjointInv
\* and LegalInv true.
Shrinks ==
  \A m \in Matches :
    Claimed(m)' => Claimed(m) /\ lineup'[m].slots = lineup[m].slots

LEMMA ShrinkingKeeps ==
  ASSUME DisjointInv, LegalInv, Shrinks
  PROVE  DisjointInv' /\ LegalInv'
<1>1. DisjointInv'
  <2>1. SUFFICES ASSUME NEW m \in Matches, NEW n \in Matches,
                        Claimed(m)', Claimed(n)', Rivals(m, n)
                 PROVE  Players(lineup'[m].slots) \cap Players(lineup'[n].slots)
                          = {}
    BY DEF DisjointInv, Rivals, TeamOf
  <2>2. /\ Claimed(m) /\ lineup'[m].slots = lineup[m].slots
        /\ Claimed(n) /\ lineup'[n].slots = lineup[n].slots
    BY <2>1 DEF Shrinks
  <2> QED BY <2>1, <2>2 DEF DisjointInv
<1>2. LegalInv'
  <2>1. SUFFICES ASSUME NEW m \in Matches, Claimed(m)'
                 PROVE  /\ TeamSize(m, lineup'[m].slots)
                        /\ ~BelowPlace(m, lineup'[m].slots)
    BY DEF LegalInv, TeamSize, BelowPlace, Starters, TeamOf, Roster,
           ContinuousPlace
  <2>2. Claimed(m) /\ lineup'[m].slots = lineup[m].slots
    BY <2>1 DEF Shrinks
  <2> QED BY <2>1, <2>2 DEF LegalInv
<1> QED BY <1>1, <1>2

LEMMA InitHolds == ASSUME Init PROVE IInv
<1>1. TypeOK
  <2>1. None \in SlotSets BY DEF SlotSets
  <2>2. lineup \in [Matches -> RowType]
    BY <2>1 DEF Init, RowType, Statuses
  <2> QED BY <2>2 DEF Init, TypeOK
<1>2. \A m \in Matches : ~Claimed(m)
  BY DEF Init, Claimed, Validated, Holds, Idle
<1> QED BY <1>1, <1>2 DEF Init, IInv, FreshInv, DisjointInv, LegalInv,
             SnapshotInv, Idle, Claimed

LEMMA SaveKeeps ==
  ASSUME NEW m \in Matches, NEW d \in Drafts[m], IInv, Save(m, d)
  PROVE  IInv'
<1> USE DEF IInv
<1>1. d \in SlotSets BY DEF SlotSets
<1>2. /\ lineup' \in [Matches -> RowType] /\ stale' \in [Matches -> BOOLEAN]
      /\ excused' \in [Matches -> BOOLEAN]
  BY <1>1 DEF Save, Saved, TypeOK, RowType, Statuses
<1>3. ASSUME NEW r \in Requests PROVE req'[r] \in RequestType \cup {Idle}
  <2>1. CASE req[r].pc # "idle" /\ req[r].match = m
    <3>1. req[r] \in RequestType BY <2>1 DEF TypeOK, Idle
    <3>2. req'[r] = [req[r] EXCEPT !.fresh = FALSE] BY <2>1 DEF Save
    <3> QED BY <3>1, <3>2 DEF RequestType
  <2>2. CASE ~(req[r].pc # "idle" /\ req[r].match = m)
    BY <2>2 DEF Save, TypeOK
  <2> QED BY <2>1, <2>2
<1>4. TypeOK' BY <1>2, <1>3 DEF TypeOK, Save
<1>5. ASSUME NEW r \in Requests
      PROVE  /\ req'[r].pc = req[r].pc
             /\ req'[r].pc # "idle" =>
                  /\ req'[r].match = req[r].match
                  /\ req'[r].slots = req[r].slots
                  /\ req'[r].fresh => req[r].fresh /\ req[r].match # m
  <2>1. CASE req[r].pc # "idle" /\ req[r].match = m
    <3>1. req[r] \in RequestType BY <2>1 DEF TypeOK, Idle
    <3>2. req'[r] = [req[r] EXCEPT !.fresh = FALSE] BY <2>1 DEF Save
    <3> QED BY <3>1, <3>2 DEF RequestType
  <2>2. CASE ~(req[r].pc # "idle" /\ req[r].match = m)
    BY <2>2 DEF Save
  <2> QED BY <2>1, <2>2
<1>6. /\ lineup'[m].status = "BROUILLON"
      /\ \A n \in Matches \ {m} : lineup'[n] = lineup[n]
      /\ stale' = stale
  BY DEF Save, Saved, TypeOK, RowType
<1>7. FreshInv'
  <2>1. SUFFICES ASSUME NEW r \in Requests, req'[r].pc # "idle",
                        req'[r].fresh
                 PROVE  /\ lineup'[req'[r].match].status # "A_FAIRE"
                        /\ lineup'[req'[r].match].slots = req'[r].slots
    BY DEF FreshInv
  <2>2. /\ req[r].pc # "idle" /\ req[r].fresh /\ req[r].match # m
        /\ req'[r].match = req[r].match /\ req'[r].slots = req[r].slots
    BY <2>1, <1>5
  <2>3. req[r].match \in Matches BY <2>2 DEF TypeOK, RequestType, Idle
  <2> QED BY <2>2, <2>3, <1>6 DEF FreshInv
<1>8. ASSUME NEW n \in Matches, Claimed(n)'
      PROVE  n # m /\ Claimed(n) /\ lineup'[n] = lineup[n]
  <2>1. CASE Validated(n)'
    BY <2>1, <1>6 DEF Validated, Claimed
  <2>2. CASE \E r \in Requests : Holds(r, n)'
    <3>1. PICK r \in Requests : Holds(r, n)' BY <2>2
    <3>2. n # m /\ Holds(r, n) BY <3>1, <1>5 DEF Holds
    <3> QED BY <3>2, <1>6 DEF Claimed
  <2> QED BY <1>8, <2>1, <2>2 DEF Claimed
<1>9. DisjointInv' /\ LegalInv'
  BY <1>8, ShrinkingKeeps DEF Shrinks
<1>10. SnapshotInv'
  BY <1>6 DEF SnapshotInv, Validated
<1> QED BY <1>4, <1>7, <1>9, <1>10

\* A line-up with a claim exists, so the checks of its rivals see it.
LEMMA ClaimedExists ==
  ASSUME NEW m \in Matches, IInv, Claimed(m)
  PROVE  lineup[m].status \in {"BROUILLON", "VALIDEE"}
<1>1. lineup[m].status \in Statuses BY DEF IInv, TypeOK, RowType
<1>2. lineup[m].status # "A_FAIRE"
  BY DEF IInv, FreshInv, Claimed, Validated, Holds
<1> QED BY <1>1, <1>2 DEF Statuses

\* A step that only ends requests, or that starts one, keeps the invariant.
LEMMA RequestsOnly ==
  ASSUME IInv, UNCHANGED <<lineup, stale, excused>>,
         req' \in [Requests -> RequestType \cup {Idle}], FreshInv',
         \A r \in Requests, m \in Matches : Holds(r, m)' => Holds(r, m)
  PROVE  IInv'
<1>1. TypeOK' BY DEF IInv, TypeOK
<1>2. Shrinks BY DEF Shrinks, Claimed, Validated
<1>3. DisjointInv' /\ LegalInv' BY <1>2, ShrinkingKeeps DEF IInv
<1>4. SnapshotInv' BY DEF IInv, SnapshotInv, Validated
<1> QED BY <1>1, <1>3, <1>4 DEF IInv

LEMMA AskKeeps ==
  ASSUME NEW r \in Requests, NEW m \in Matches, NEW ask \in Asks, IInv,
         Ask(r, m, ask)
  PROVE  IInv'
<1> DEFINE new == [pc |-> "asked", match |-> m, slots |-> lineup[m].slots,
                   fresh |-> TRUE, override |-> ask[1],
                   justification |-> ask[2]]
<1>1. req' = [req EXCEPT ![r] = new] BY DEF Ask
<1>2. lineup[m] \in RowType BY DEF IInv, TypeOK
<1>3. ask[1] \in BOOLEAN /\ ask[2] \in Justifications BY AsksAssumption
<1>4. new \in RequestType BY <1>2, <1>3 DEF RequestType, RowType
<1>5. req' \in [Requests -> RequestType \cup {Idle}]
  BY <1>1, <1>4 DEF IInv, TypeOK
<1>6. \A q \in Requests : req'[q] = IF q = r THEN new ELSE req[q]
  BY <1>1 DEF IInv, TypeOK
<1>7. FreshInv' BY <1>6 DEF IInv, FreshInv, Ask
<1>8. ASSUME NEW q \in Requests, NEW n \in Matches, Holds(q, n)'
      PROVE  Holds(q, n)
  BY <1>6, <1>8 DEF Holds
<1> QED BY <1>5, <1>7, <1>8, RequestsOnly DEF Ask

\* A request that becomes idle.
LEMMA EndKeeps ==
  ASSUME NEW r \in Requests, IInv, req' = [req EXCEPT ![r] = Idle],
         UNCHANGED <<lineup, stale, excused>>
  PROVE  IInv'
<1>1. req' \in [Requests -> RequestType \cup {Idle}] BY DEF IInv, TypeOK
<1>2. \A q \in Requests : req'[q] = IF q = r THEN Idle ELSE req[q]
  BY DEF IInv, TypeOK
<1>3. FreshInv' BY <1>2 DEF IInv, FreshInv, Idle
<1>4. ASSUME NEW q \in Requests, NEW n \in Matches, Holds(q, n)'
      PROVE  Holds(q, n)
  BY <1>2, <1>4 DEF Holds, Idle
<1> QED BY <1>1, <1>3, <1>4, RequestsOnly

\* A request whose verdict is found: only its pc changes.
LEMMA VerdictKeeps ==
  ASSUME NEW r \in Requests, NEW pc \in {"refused", "accepted"}, IInv,
         req[r].pc = "asked", req' = [req EXCEPT ![r].pc = pc],
         UNCHANGED <<lineup, stale, excused>>,
         pc = "accepted" => ~HasErrors(req[r].match, req[r].slots)
  PROVE  IInv'
<1> DEFINE m == req[r].match
<1>1. req[r] \in RequestType BY DEF IInv, TypeOK, Idle
<1>2. m \in Matches BY <1>1 DEF RequestType
<1>3. req'[r] = [req[r] EXCEPT !.pc = pc]
      /\ \A q \in Requests \ {r} : req'[q] = req[q]
  BY DEF IInv, TypeOK
<1>4. req'[r] \in RequestType BY <1>1, <1>3 DEF RequestType
<1>5. req' \in [Requests -> RequestType \cup {Idle}]
  BY <1>4 DEF IInv, TypeOK
<1>6. /\ req'[r].pc = pc /\ req'[r].match = m
      /\ req'[r].slots = req[r].slots /\ req'[r].fresh = req[r].fresh
  BY <1>1, <1>3 DEF RequestType
<1>7. FreshInv'
  <2>1. SUFFICES ASSUME NEW q \in Requests, req'[q].pc # "idle",
                        req'[q].fresh
                 PROVE  /\ lineup[req'[q].match].status # "A_FAIRE"
                        /\ lineup[req'[q].match].slots = req'[q].slots
    BY DEF FreshInv
  <2> QED BY <2>1, <1>3, <1>6 DEF IInv, FreshInv
<1>8. CASE ~(pc = "accepted" /\ req[r].fresh)
  <2>1. ASSUME NEW q \in Requests, NEW n \in Matches, Holds(q, n)'
        PROVE  Holds(q, n)
    BY <2>1, <1>3, <1>6, <1>8 DEF Holds
  <2> QED BY <1>5, <1>7, <2>1, RequestsOnly
<1>9. CASE pc = "accepted" /\ req[r].fresh
  <2>1. lineup[m].slots = req[r].slots BY <1>9 DEF IInv, FreshInv
  <2>2. ~HasErrors(m, lineup[m].slots) BY <1>9, <2>1
  <2>3. ASSUME NEW n \in Matches, Claimed(n)' PROVE n = m \/ Claimed(n)
    <3>1. CASE Validated(n)' BY <3>1 DEF Validated, Claimed
    <3>2. CASE \E q \in Requests : Holds(q, n)'
      <4>1. PICK q \in Requests : Holds(q, n)' BY <3>2
      <4>2. CASE q = r BY <4>1, <4>2, <1>6 DEF Holds
      <4>3. CASE q # r
        <5>1. Holds(q, n) BY <4>1, <4>3, <1>3 DEF Holds
        <5> QED BY <5>1 DEF Claimed
      <4> QED BY <4>2, <4>3
    <3> QED BY <2>3, <3>1, <3>2 DEF Claimed
  <2>4. ASSUME NEW n \in Matches, Claimed(n), Rivals(m, n)
        PROVE  Players(lineup[m].slots) \cap Players(lineup[n].slots) = {}
    <3>1. n \in Siblings(m)
      BY <2>4, <1>2, ClaimedExists DEF Siblings, Rivals
    <3> QED BY <3>1, <2>4, <2>2 DEF HasErrors, DoubleAlignment, Rivals
  <2>5. DisjointInv'
    <3>1. SUFFICES ASSUME NEW n \in Matches, NEW o \in Matches, Claimed(n)',
                          Claimed(o)', Rivals(n, o)
                   PROVE  Players(lineup[n].slots)
                            \cap Players(lineup[o].slots) = {}
      BY DEF DisjointInv, Rivals, TeamOf
    <3>2. (n = m \/ Claimed(n)) /\ (o = m \/ Claimed(o)) BY <3>1, <2>3
    <3>3. CASE n = m /\ o = m BY <3>1, <3>3 DEF Rivals
    <3>4. CASE n = m /\ o # m BY <3>1, <3>2, <3>4, <2>4
    <3>5. CASE n # m /\ o = m
      <4>1. Rivals(m, n) BY <3>1, <3>5 DEF Rivals
      <4> QED BY <4>1, <3>2, <3>5, <2>4
    <3>6. CASE n # m /\ o # m BY <3>1, <3>2, <3>6 DEF IInv, DisjointInv
    <3> QED BY <3>3, <3>4, <3>5, <3>6
  <2>6. LegalInv'
    <3>1. SUFFICES ASSUME NEW n \in Matches, Claimed(n)'
                   PROVE  /\ TeamSize(n, lineup[n].slots)
                          /\ ~BelowPlace(n, lineup[n].slots)
      BY DEF LegalInv, TeamSize, BelowPlace, Starters, TeamOf, Roster,
             ContinuousPlace
    <3>2. CASE n = m BY <3>2, <2>2 DEF HasErrors
    <3>3. CASE n # m BY <3>1, <3>3, <2>3 DEF IInv, LegalInv
    <3> QED BY <3>2, <3>3
  <2>7. TypeOK' BY <1>5 DEF IInv, TypeOK
  <2>8. SnapshotInv' BY DEF IInv, SnapshotInv, Validated
  <2> QED BY <1>7, <2>5, <2>6, <2>7, <2>8 DEF IInv
<1> QED BY <1>8, <1>9

LEMMA CheckKeeps ==
  ASSUME NEW r \in Requests, IInv, Check(r)
  PROVE  IInv'
<1> DEFINE m == req[r].match
           slots == req[r].slots
<1>1. PICK order \in Orders(slots), higher \in Higher(m) :
        Decide(r, HasErrors(m, slots), HasWarnings(m, order, higher))
  BY DEF Check
<1> DEFINE errors == HasErrors(m, slots)
           warned == HasWarnings(m, order, higher)
<1>2. req[r].pc = "asked" /\ UNCHANGED <<lineup, stale, excused>> BY DEF Check
<1>3. CASE req' = [req EXCEPT ![r].pc = "refused"]
  BY <1>2, <1>3, VerdictKeeps
<1>4. CASE req' = [req EXCEPT ![r] = Idle]
  BY <1>2, <1>4, EndKeeps
<1>5. CASE ~Refused(req[r], errors, warned)
           /\ req' = [req EXCEPT ![r].pc = "accepted"]
  <2>1. ~HasErrors(req[r].match, req[r].slots) BY <1>5 DEF Refused
  <2> QED BY <1>2, <1>5, <2>1, VerdictKeeps
<1> QED BY <1>1, <1>3, <1>4, <1>5 DEF Decide

LEMMA AbandonKeeps ==
  ASSUME NEW r \in Requests, IInv, Abandon(r)
  PROVE  IInv'
BY EndKeeps DEF Abandon

LEMMA RefuseKeeps ==
  ASSUME NEW r \in Requests, IInv, Refuse(r)
  PROVE  IInv'
<1> DEFINE m == req[r].match
<1> USE DEF IInv
<1>1. req[r] \in RequestType BY DEF TypeOK, Refuse, Idle
<1>2. m \in Matches BY <1>1 DEF RequestType
<1>3. \A q \in Requests : req'[q] = IF q = r THEN Idle ELSE req[q]
  BY DEF Refuse, TypeOK
<1>4. lineup' = [lineup EXCEPT ![m].status = "BROUILLON"] BY DEF Refuse
<1>5. lineup' \in [Matches -> RowType]
  BY <1>2, <1>4 DEF TypeOK, RowType, Statuses
<1>6. /\ \A n \in Matches : lineup'[n].slots = lineup[n].slots
                            /\ lineup'[n].snapshot = lineup[n].snapshot
      /\ \A n \in Matches \ {m} : lineup'[n] = lineup[n]
      /\ lineup'[m].status = "BROUILLON"
      /\ stale' = stale /\ excused' = excused
  BY <1>2, <1>4 DEF TypeOK, RowType, Refuse
<1>7. TypeOK' BY <1>5, <1>6 DEF TypeOK, Refuse
<1>8. FreshInv'
  <2>1. SUFFICES ASSUME NEW q \in Requests, req'[q].pc # "idle",
                        req'[q].fresh
                 PROVE  /\ lineup'[req'[q].match].status # "A_FAIRE"
                        /\ lineup'[req'[q].match].slots = req'[q].slots
    BY DEF FreshInv
  <2>2. q # r /\ req'[q] = req[q] BY <2>1, <1>3 DEF Idle
  <2>3. req[q].match \in Matches
    BY <2>1, <2>2 DEF TypeOK, RequestType, Idle
  <2> QED BY <2>1, <2>2, <2>3, <1>6 DEF FreshInv
<1>9. ASSUME NEW n \in Matches, Claimed(n)' PROVE Claimed(n)
  <2>1. CASE Validated(n)' BY <2>1, <1>6 DEF Validated, Claimed
  <2>2. CASE \E q \in Requests : Holds(q, n)'
    <3>1. PICK q \in Requests : Holds(q, n)' BY <2>2
    <3>2. Holds(q, n) BY <3>1, <1>3 DEF Holds, Idle
    <3> QED BY <3>2 DEF Claimed
  <2> QED BY <1>9, <2>1, <2>2 DEF Claimed
<1>10. DisjointInv' /\ LegalInv' BY <1>6, <1>9, ShrinkingKeeps DEF Shrinks
<1>11. SnapshotInv' BY <1>6 DEF SnapshotInv, Validated
<1> QED BY <1>7, <1>8, <1>10, <1>11

LEMMA AcceptKeeps ==
  ASSUME NEW r \in Requests, IInv, Accept(r)
  PROVE  IInv'
<1> DEFINE m == req[r].match
           kept == IF req[r].justification = "absent"
                     THEN lineup[m].justified
                     ELSE req[r].justification = "given"
<1> USE DEF IInv
<1>1. req[r] \in RequestType BY DEF TypeOK, Accept, Idle
<1>2. m \in Matches BY <1>1 DEF RequestType
<1>3. \A q \in Requests : req'[q] = IF q = r THEN Idle ELSE req[q]
  BY DEF Accept, TypeOK
<1>4. lineup[m] \in RowType /\ kept \in BOOLEAN
  BY <1>2 DEF TypeOK, RowType
<1>5. /\ lineup'[m] = [lineup[m] EXCEPT !.status = "VALIDEE",
                                        !.snapshot = req[r].slots,
                                        !.justified = kept]
      /\ \A n \in Matches \ {m} : lineup'[n] = lineup[n]
      /\ DOMAIN lineup' = Matches
  BY <1>2, <1>4 DEF Accept, Snapshot, TypeOK, RowType
<1> HIDE DEF kept
<1>6. lineup'[m] \in RowType
  BY <1>1, <1>4, <1>5 DEF RowType, RequestType, Statuses
<1>7. lineup' \in [Matches -> RowType]
  <2>1. lineup' = [n \in Matches |-> lineup'[n]]
    BY <1>5 DEF Accept, TypeOK
  <2> QED BY <2>1, <1>5, <1>6 DEF TypeOK
<1>8. /\ lineup'[m].slots = lineup[m].slots
      /\ lineup'[m].snapshot = req[r].slots
      /\ lineup'[m].status = "VALIDEE"
      /\ \A n \in Matches : lineup'[n].slots = lineup[n].slots
  <2>1. PICK row \in RowType : row = lineup[m] BY <1>4
  <2>2. lineup'[m] = [row EXCEPT !.status = "VALIDEE", !.snapshot = req[r].slots,
                                 !.justified = kept]
    BY <1>5, <2>1
  <2>3. /\ lineup'[m].slots = row.slots /\ lineup'[m].status = "VALIDEE"
        /\ lineup'[m].snapshot = req[r].slots
    BY <2>2 DEF RowType
  <2>4. \A n \in Matches \ {m} : lineup'[n].slots = lineup[n].slots BY <1>5
  <2> QED BY <2>1, <2>3, <2>4
<1>9. /\ stale'[m] = ~req[r].fresh
      /\ \A n \in Matches \ {m} : stale'[n] = stale[n]
      /\ stale' \in [Matches -> BOOLEAN]
  BY <1>1, <1>2 DEF Accept, TypeOK, RequestType
<1>10. TypeOK'
  <2>1. excused' \in [Matches -> BOOLEAN] BY DEF Accept, TypeOK
  <2> QED BY <1>7, <1>9, <2>1 DEF TypeOK, Accept
<1>11. FreshInv'
  <2>1. SUFFICES ASSUME NEW q \in Requests, req'[q].pc # "idle",
                        req'[q].fresh
                 PROVE  /\ lineup'[req'[q].match].status # "A_FAIRE"
                        /\ lineup'[req'[q].match].slots = req'[q].slots
    BY DEF FreshInv
  <2>2. q # r /\ req'[q] = req[q] BY <2>1, <1>3 DEF Idle
  <2>3. req[q].match \in Matches
    BY <2>1, <2>2 DEF TypeOK, RequestType, Idle
  <2>4. /\ lineup[req[q].match].status # "A_FAIRE"
        /\ lineup[req[q].match].slots = req[q].slots
    BY <2>1, <2>2 DEF FreshInv
  <2>5. lineup'[req[q].match].slots = req[q].slots BY <2>3, <2>4, <1>8
  <2>6. CASE req[q].match = m BY <2>2, <2>5, <2>6, <1>8
  <2>7. CASE req[q].match # m
    <3>1. lineup'[req[q].match] = lineup[req[q].match] BY <2>3, <2>7, <1>5
    <3> QED BY <2>2, <2>4, <3>1
  <2> QED BY <2>6, <2>7
<1>12. ASSUME NEW n \in Matches, Claimed(n)' PROVE Claimed(n)
  <2>1. CASE Validated(n)' /\ n # m
    BY <2>1, <1>5, <1>9 DEF Validated, Claimed
  <2>2. CASE Validated(n)' /\ n = m
    <3>1. Holds(r, n) BY <2>2, <1>9 DEF Validated, Holds, Accept
    <3> QED BY <3>1 DEF Claimed
  <2>3. CASE \E q \in Requests : Holds(q, n)'
    <3>1. PICK q \in Requests : Holds(q, n)' BY <2>3
    <3>2. Holds(q, n) BY <3>1, <1>3 DEF Holds, Idle
    <3> QED BY <3>2 DEF Claimed
  <2> QED BY <1>12, <2>1, <2>2, <2>3 DEF Claimed
<1>13. DisjointInv' /\ LegalInv' BY <1>8, <1>12, ShrinkingKeeps DEF Shrinks
<1>14. SnapshotInv'
  <2>1. SUFFICES ASSUME NEW n \in Matches, Validated(n)'
                 PROVE  lineup'[n].snapshot = lineup'[n].slots
    BY DEF SnapshotInv
  <2>2. CASE n = m
    BY <2>1, <2>2, <1>8, <1>9 DEF Validated, FreshInv, Accept
  <2>3. CASE n # m
    BY <2>1, <2>3, <1>5, <1>9 DEF Validated, SnapshotInv
  <2> QED BY <2>2, <2>3
<1> QED BY <1>10, <1>11, <1>13, <1>14

\* The invariant holds whatever the captains of a club do at once.
THEOREM LineupInvariant == Spec => []IInv
<1>1. Init => IInv BY InitHolds
<1>2. IInv /\ [Next]_vars => IInv'
  <2>1. SUFFICES ASSUME IInv, [Next]_vars PROVE IInv' OBVIOUS
  <2>2. CASE \E m \in Matches : \E d \in Drafts[m] : Save(m, d)
    BY <2>1, <2>2, SaveKeeps
  <2>3. CASE \E r \in Requests, m \in Matches, ask \in Asks : Ask(r, m, ask)
    BY <2>1, <2>3, AskKeeps
  <2>4. CASE \E r \in Requests : Check(r) BY <2>1, <2>4, CheckKeeps
  <2>5. CASE \E r \in Requests : Refuse(r) BY <2>1, <2>5, RefuseKeeps
  <2>6. CASE \E r \in Requests : Accept(r) BY <2>1, <2>6, AcceptKeeps
  <2>7. CASE \E r \in Requests : Abandon(r) BY <2>1, <2>7, AbandonKeeps
  <2>8. CASE UNCHANGED vars
    <3>1. UNCHANGED <<lineup, stale, excused>> /\ req' = req BY <2>8 DEF vars
    <3>2. \A r \in Requests, m \in Matches : Holds(r, m)' => Holds(r, m)
      BY <3>1 DEF Holds
    <3>3. FreshInv' BY <2>1, <3>1 DEF IInv, FreshInv
    <3>4. req' \in [Requests -> RequestType \cup {Idle}]
      BY <2>1, <3>1 DEF IInv, TypeOK
    <3> QED BY <2>1, <3>1, <3>2, <3>3, <3>4, RequestsOnly
  <2> QED BY <2>1, <2>2, <2>3, <2>4, <2>5, <2>6, <2>7, <2>8 DEF Next
<1> QED BY <1>1, <1>2, PTL DEF Spec

\* Two line-ups of a week validated for two teams share no starter
\* (DoubleAlignmentRule, sameWeekContext).
THEOREM DisjointStarters == Spec => []NoDoubleAlignment
<1>1. IInv => NoDoubleAlignment
  BY DEF IInv, DisjointInv, Claimed, NoDoubleAlignment
<1> QED BY <1>1, LineupInvariant, PTL

\* A validated line-up is complete, on its places, and what its snapshot says
\* (validateLineup).
THEOREM LegalLineups == Spec => []ValidatedIsLegal
<1>1. IInv => ValidatedIsLegal
  BY DEF IInv, LegalInv, SnapshotInv, Claimed, ValidatedIsLegal
<1> QED BY <1>1, LineupInvariant, PTL

\* The rows and the requests stay well formed.
THEOREM LineupTyped == Spec => []TypeOK
<1>1. IInv => TypeOK BY DEF IInv
<1> QED BY <1>1, LineupInvariant, PTL

-------------------------------------------------------------------------------
(* The order of the starters.                                              *)

LEMMA LeastExists ==
  ASSUME NEW S \in SUBSET Nat, S # {}
  PROVE  \E x \in S : \A y \in S : x <= y
<1>1. IsWellFoundedOn(OpToRel(<, Nat), Nat) BY NatLessThanWellFounded
<1>2. PICK x \in S : \A y \in S : <<y, x>> \notin OpToRel(<, Nat) BY <1>1, WFMin
<1>3. \A y \in S : ~(y < x) BY <1>2 DEF OpToRel
<1> QED BY <1>3

\* Numbers that do not fall from one to the next do not fall at all.
LEMMA NeighboursSort ==
  ASSUME NEW n \in Nat, NEW v \in [1 .. n -> Nat],
         \A i \in 1 .. n : i # 1 => v[i - 1] <= v[i],
         NEW i \in 1 .. n, NEW j \in 1 .. n, i <= j
  PROVE  v[i] <= v[j]
<1> SUFFICES ASSUME v[j] < v[i] PROVE FALSE OBVIOUS
<1> DEFINE Below == {k \in 1 .. n : i <= k /\ v[k] < v[i]}
<1>1. j \in Below /\ Below \in SUBSET Nat OBVIOUS
<1>2. PICK k \in Below : \A l \in Below : k <= l
  <2> HIDE DEF Below
  <2> QED BY <1>1, LeastExists
<1>3. k # i /\ k - 1 \in 1 .. n /\ i <= k - 1 OBVIOUS
<1>4. v[i] <= v[k - 1]
  <2>1. k - 1 \notin Below BY <1>2, <1>3
  <2> QED BY <1>3, <2>1
<1>5. v[k - 1] <= v[k] BY <1>3
<1> QED BY <1>3, <1>4, <1>5

\* Every starter stands somewhere in an order of them.
LEMMA OrdersCover ==
  ASSUME NEW slots, IsFiniteSet(Starters(slots)), NEW order \in Orders(slots),
         \A s \in Starters(slots) : s.pos \in Nat
  PROVE  LET N == 1 .. Cardinality(Starters(slots))
         IN  /\ Cardinality(Starters(slots)) \in Nat
             /\ order \in [N -> Starters(slots)]
             /\ \A i, j \in N : i < j => order[i].pos <= order[j].pos
             /\ \A s \in Starters(slots) : \E i \in N : order[i] = s
<1> DEFINE S == Starters(slots)
           N == 1 .. Cardinality(S)
<1>1. Cardinality(S) \in Nat BY FS_CardinalityType
<1>2. /\ order \in [N -> S]
      /\ \A i, j \in N : i < j => order[i] # order[j] /\ order[i].pos <= order[j].pos
  BY DEF Orders
<1>3. order \in Injection(N, S)
  <2>1. \A i, j \in N : order[i] = order[j] => i = j BY <1>1, <1>2
  <2> QED BY <1>2, <2>1 DEF Injection, IsInjective
<1>4. Cardinality(N) = Cardinality(S) BY <1>1, FS_Interval
<1>5. order \in Surjection(N, S) BY <1>3, <1>4, FS_Injection
<1> QED BY <1>1, <1>2, <1>5 DEF Surjection

\* The team of a match is one of the club, and the force list has its category.
LEMMA RosterFits ==
  ASSUME NEW m \in Matches
  PROVE  \A p \in DOMAIN Roster(m) : Roster(m)[p] \in Nat
<1> DEFINE here == {i \in DOMAIN Teams : Teams[i].division = Division[m]}
<1>1. here \in SUBSET Nat /\ here # {} BY TeamsAssumption, MatchesAssumption
<1>2. \E i \in here : \A j \in here : i <= j BY <1>1, LeastExists
<1>3. \E j \in DOMAIN Teams : TeamOf(m) = Teams[j] BY <1>2 DEF TeamOf
<1> QED BY <1>3, TeamsAssumption, ForceListAssumption DEF Roster

\* An order without a warning is one by strength.
LEMMA OrderedDescends ==
  ASSUME NEW m \in Matches, NEW slots \in SlotSets, Ordered(m, slots),
         Players(slots) \subseteq DOMAIN Roster(m),
         NEW s \in Starters(slots), NEW t \in Starters(slots), s.pos < t.pos
  PROVE  Roster(m)[s.player] <= Roster(m)[t.player]
<1> DEFINE S == Starters(slots)
           N == 1 .. Cardinality(S)
<1>1. IsFiniteSet(slots) /\ \A u \in slots : u.pos \in Nat
  <2>1. CASE slots \in UNION {Drafts[n] : n \in Matches}
    BY <2>1, DraftsAssumption
  <2>2. CASE slots = {} BY <2>2, FS_EmptySet
  <2> QED BY <2>1, <2>2 DEF SlotSets, None
<1>2. IsFiniteSet(S) /\ \A u \in S : u.pos \in Nat
  BY <1>1, FS_Subset DEF Starters
<1>3. PICK order \in Orders(slots) : ~OutOfOrder(m, order) BY DEF Ordered
<1>4. /\ Cardinality(S) \in Nat /\ order \in [N -> S]
      /\ \A i, j \in N : i < j => order[i].pos <= order[j].pos
      /\ \A u \in S : \E i \in N : order[i] = u
  BY <1>2, OrdersCover
<1>5. \A u \in S : u.player \in DOMAIN Roster(m) BY DEF Players
<1>6. \A p \in DOMAIN Roster(m) : Roster(m)[p] \in Nat BY RosterFits
<1> DEFINE v == [i \in N |-> Roster(m)[order[i].player]]
<1> HIDE DEF S
<1>7. v \in [N -> Nat] BY <1>4, <1>5, <1>6
<1>8. \A i \in N : i # 1 => v[i - 1] <= v[i]
  <2> SUFFICES ASSUME NEW i \in N, i # 1 PROVE v[i - 1] <= v[i] OBVIOUS
  <2>1. i \in DOMAIN order \ {1} /\ i - 1 \in N BY <1>4
  <2>2. ~(Roster(m)[order[i - 1].player] > Roster(m)[order[i].player])
    BY <1>3, <1>4, <1>5, <2>1 DEF OutOfOrder
  <2>3. v[i - 1] \in Nat /\ v[i] \in Nat BY <1>7, <2>1
  <2> QED BY <2>1, <2>2, <2>3
<1>9. PICK i \in N, j \in N : order[i] = s /\ order[j] = t BY <1>4 DEF S
<1>10. i < j
  <2>1. s.pos \in Nat /\ t.pos \in Nat BY <1>2 DEF S
  <2>2. i # j BY <1>9, <2>1
  <2>3. j < i => t.pos <= s.pos BY <1>4, <1>9
  <2> QED BY <1>4, <2>1, <2>2, <2>3
<1>11. v[i] <= v[j]
  <2> HIDE DEF v
  <2>1. i <= j BY <1>4, <1>10
  <2> QED BY <1>4, <1>7, <1>8, <2>1, NeighboursSort
<1> QED BY <1>9, <1>11

\* What a request found out stays with it.
LEMMA StepAccepted ==
  ASSUME IInv, AcceptedInv, Next
  PROVE  AcceptedInv'
<1> SUFFICES ASSUME NEW r \in Requests, req'[r].pc = "accepted"
             PROVE  \/ Ordered(req'[r].match, req'[r].slots)
                    \/ req'[r].justification = "given"
  BY DEF AcceptedInv, Ordered, Orders, Starters, OutOfOrder, Roster, TeamOf
<1>1. \/ req'[r] = req[r]
      \/ /\ req[r].pc = "accepted" /\ req'[r].match = req[r].match
         /\ req'[r].slots = req[r].slots
         /\ req'[r].justification = req[r].justification
      => Ordered(req'[r].match, req'[r].slots) \/ req'[r].justification = "given"
  BY DEF AcceptedInv
<1>2. ASSUME NEW m \in Matches, NEW d \in Drafts[m], Save(m, d)
      PROVE  \/ req'[r] = req[r]
             \/ /\ req[r].pc = "accepted" /\ req'[r].match = req[r].match
                /\ req'[r].slots = req[r].slots
                /\ req'[r].justification = req[r].justification
  <2>1. CASE req[r].pc # "idle" /\ req[r].match = m
    <3>1. req[r] \in RequestType BY <2>1 DEF IInv, TypeOK, Idle
    <3>2. req'[r] = [req[r] EXCEPT !.fresh = FALSE] BY <1>2, <2>1 DEF Save
    <3> QED BY <3>1, <3>2 DEF RequestType
  <2>2. CASE ~(req[r].pc # "idle" /\ req[r].match = m) BY <1>2, <2>2 DEF Save
  <2> QED BY <2>1, <2>2
<1>3. ASSUME NEW q \in Requests, NEW m \in Matches, NEW ask \in Asks, Ask(q, m, ask)
      PROVE  req'[r] = req[r]
  <2>1. CASE q = r
    <3>1. req'[r].pc = "asked" BY <1>3, <2>1 DEF Ask, IInv, TypeOK
    <3> QED BY <3>1
  <2>2. CASE q # r BY <1>3, <2>2 DEF Ask, IInv, TypeOK
  <2> QED BY <2>1, <2>2
<1>4. ASSUME NEW q \in Requests, Refuse(q) \/ Accept(q) \/ Abandon(q)
      PROVE  req'[r] = req[r]
  <2>1. req' = [req EXCEPT ![q] = Idle] BY <1>4 DEF Refuse, Accept, Abandon
  <2> QED BY <2>1 DEF IInv, TypeOK, Idle
<1>5. ASSUME NEW q \in Requests, q # r, Check(q) PROVE req'[r] = req[r]
  BY <1>5 DEF Check, Decide, IInv, TypeOK
<1>6. CASE Check(r)
  <2> DEFINE m == req[r].match
             slots == req[r].slots
  <2>1. PICK order \in Orders(slots), higher \in Higher(m) :
          Decide(r, HasErrors(m, slots), HasWarnings(m, order, higher))
    BY <1>6 DEF Check
  <2>2. req[r].pc = "asked" /\ req[r] \in RequestType
    BY <1>6 DEF Check, IInv, TypeOK, Idle
  <2> DEFINE warned == HasWarnings(m, order, higher)
             errors == HasErrors(m, slots)
  <2>3. /\ ~Refused(req[r], errors, warned) /\ ~Unjustified(req[r], warned)
        /\ req' = [req EXCEPT ![r].pc = "accepted"]
    <3>1. ASSUME req' = [req EXCEPT ![r].pc = "refused"] \/ req' = [req EXCEPT ![r] = Idle]
          PROVE  FALSE
      <4>1. req'[r].pc = "refused" \/ req'[r].pc = "idle"
        BY <2>2, <3>1 DEF IInv, TypeOK, RequestType, Idle
      <4> QED BY <4>1
    <3> QED BY <2>1, <3>1 DEF Decide
  <2>4. ~warned \/ req[r].justification = "given"
    BY <2>3 DEF Refused, Unjustified
  <2>5. ~warned => ~OutOfOrder(m, order) BY DEF HasWarnings
  <2>6. /\ req'[r].match = m /\ req'[r].slots = slots
        /\ req'[r].justification = req[r].justification
    BY <2>2, <2>3 DEF IInv, TypeOK, RequestType
  <2> QED BY <2>4, <2>5, <2>6 DEF Ordered
<1> QED BY <1>1, <1>2, <1>3, <1>4, <1>5, <1>6 DEF Next

\* A line-up that a step leaves as it is.
SameRow(m) ==
  lineup'[m] = lineup[m] /\ stale'[m] = stale[m] /\ excused'[m] = excused[m]

LEMMA StepJustified ==
  ASSUME IInv, OrderInv, Next
  PROVE  JustifiedInv'
<1> SUFFICES ASSUME NEW m \in Matches, Validated(m)'
             PROVE  Ordered(m, lineup'[m].slots) \/ Excused(m)'
  BY DEF JustifiedInv, Ordered, Orders, Starters, OutOfOrder, Roster, TeamOf
<1>1. CASE SameRow(m)
  BY <1>1 DEF OrderInv, JustifiedInv, Validated, Excused, SameRow
<1>2. ASSUME NEW n \in Matches, NEW d \in Drafts[n], Save(n, d)
      PROVE  SameRow(m)
  <2>1. lineup'[n].status = "BROUILLON"
    BY <1>2 DEF Save, Saved, IInv, TypeOK, RowType
  <2> QED BY <1>2, <2>1 DEF Save, Validated, IInv, TypeOK, SameRow
<1>3. ASSUME NEW r \in Requests, Refuse(r)
      PROVE  SameRow(m)
  <2>1. req[r] \in RequestType BY <1>3 DEF IInv, TypeOK, Refuse, Idle
  <2>2. lineup'[req[r].match].status = "BROUILLON"
    BY <1>3, <2>1 DEF Refuse, IInv, TypeOK, RowType, RequestType
  <2> QED BY <1>3, <2>2 DEF Refuse, Validated, IInv, TypeOK, SameRow
<1>4. ASSUME NEW r \in Requests, Accept(r)
      PROVE  Ordered(m, lineup'[m].slots) \/ Excused(m)'
  <2>1. req[r] \in RequestType BY <1>4 DEF IInv, TypeOK, Accept, Idle
  <2>2. req[r].match \in Matches BY <2>1 DEF RequestType
  <2>3. CASE m # req[r].match
    <3>1. SameRow(m)
      BY <1>4, <2>2, <2>3 DEF Accept, IInv, TypeOK, SameRow
    <3> QED BY <1>1, <3>1
  <2>4. CASE m = req[r].match
    <3> DEFINE kept == IF req[r].justification = "absent" THEN lineup[m].justified
                       ELSE req[r].justification = "given"
    <3>1. lineup[m] \in RowType BY DEF IInv, TypeOK
    <3>2. /\ lineup'[m].slots = lineup[m].slots
          /\ req[r].justification = "given" => Excused(m)'
          /\ stale'[m] = ~req[r].fresh
      BY <1>4, <2>1, <2>4, <3>1 DEF Accept, IInv, TypeOK, RowType, Excused
    <3>3. req[r].fresh BY <2>1, <3>2 DEF Validated, RequestType
    <3>4. lineup[m].slots = req[r].slots
      BY <1>4, <2>4, <3>3 DEF Accept, IInv, FreshInv
    <3> QED BY <1>4, <2>4, <3>2, <3>4 DEF Accept, OrderInv, AcceptedInv
  <2> QED BY <2>3, <2>4
<1>5. ASSUME NEW r \in Requests,
             Check(r) \/ Abandon(r) \/ \E n \in Matches, ask \in Asks : Ask(r, n, ask)
      PROVE  SameRow(m)
  BY <1>5 DEF Check, Abandon, Ask, SameRow
<1> QED BY <1>1, <1>2, <1>3, <1>4, <1>5 DEF Next

LEMMA OrderHolds == Spec => []OrderInv
<1>1. Init => OrderInv
  BY DEF Init, OrderInv, AcceptedInv, JustifiedInv, Validated, Idle
<1>2. IInv /\ OrderInv /\ [Next]_vars => OrderInv'
  <2>1. ASSUME IInv, OrderInv, Next PROVE OrderInv'
    BY <2>1, StepAccepted, StepJustified DEF OrderInv
  <2>2. ASSUME OrderInv, UNCHANGED vars PROVE OrderInv'
    <3>1. lineup' = lineup /\ req' = req /\ stale' = stale /\ excused' = excused
      BY <2>2 DEF vars
    <3>2. AcceptedInv'
      <4> SUFFICES ASSUME NEW r \in Requests, req'[r].pc = "accepted"
                   PROVE  \/ Ordered(req'[r].match, req'[r].slots)
                          \/ req'[r].justification = "given"
        BY DEF AcceptedInv, Ordered, Orders, Starters, OutOfOrder, Roster, TeamOf
      <4> QED BY <2>2, <3>1 DEF OrderInv, AcceptedInv
    <3>3. JustifiedInv'
      <4> SUFFICES ASSUME NEW m \in Matches, Validated(m)'
                   PROVE  Ordered(m, lineup'[m].slots) \/ Excused(m)'
        BY DEF JustifiedInv, Ordered, Orders, Starters, OutOfOrder, Roster, TeamOf
      <4> QED BY <2>2, <3>1 DEF OrderInv, JustifiedInv, Validated, Excused
    <3> QED BY <3>2, <3>3 DEF OrderInv
  <2> QED BY <2>1, <2>2
<1> QED BY <1>1, <1>2, LineupInvariant, PTL DEF Spec

\* A validated line-up of players of the force list stands by strength, or its
\* captain justified this validation (OrderOfForceRule, overrideWarnings).
THEOREM OrderOfForce == Spec => []OrderedOrJustified
<1>1. ASSUME IInv, OrderInv PROVE OrderedOrJustified
  <2>1. SUFFICES ASSUME NEW m \in Matches, Validated(m), ~Excused(m),
                        Players(lineup[m].slots) \subseteq DOMAIN Roster(m)
                 PROVE  Descends(m)
    BY DEF OrderedOrJustified, Excused
  <2>2. lineup[m].slots \in SlotSets BY <1>1 DEF IInv, TypeOK, RowType
  <2>3. Ordered(m, lineup[m].slots) BY <1>1, <2>1 DEF OrderInv, JustifiedInv
  <2> QED BY <2>1, <2>2, <2>3, OrderedDescends DEF Descends
<1> QED BY <1>1, LineupInvariant, OrderHolds, PTL
===============================================================================
