--------------------------- MODULE CaptainLineup ---------------------------
(***************************************************************************)
(* The line-ups of a club's captains in tabt-rest.  A captain saves a      *)
(* draft and asks for its validation.  The validation reads the draft,     *)
(* then the club's other line-ups of the same week, applies the federal    *)
(* rules, and writes the verdict in a statement of its own: between the    *)
(* reads and the write, any captain of the club may save.                  *)
(*                                                                         *)
(* What TabT publishes (matches, teams, force list) is constant here: a    *)
(* request reads it again, but it changes once a week at most.  The rule   *)
(* MAX_DOUBLE_AFFILIATION is left out: the roster never carries its flag.  *)
(***************************************************************************)
EXTENDS Integers, FiniteSets, Sequences, FiniteSetsExt

CONSTANTS
  Matches,    \* the club's matches
  Week,       \* the interclubs week of each match
  Division,   \* the division each match is played in
  Teams,      \* the club's teams as TabT lists them, a sequence of records
  ForceList,  \* the reference index of each player of a category's roster
  Drafts,     \* the slots that a captain may save for each match
  Asks,       \* <<overrideWarnings, justification>> of a validation's body
  Requests    \* the validation requests that may run at once

Roles == {"TITULAIRE", "BANC"}
Statuses == {"A_FAIRE", "BROUILLON", "VALIDEE"}
Justifications == {"absent", "empty", "given"}
None == {}

ASSUME ForceListAssumption ==
  \A c \in DOMAIN ForceList : \A p \in DOMAIN ForceList[c] :
    ForceList[c][p] \in Nat
ASSUME TeamsAssumption ==
  /\ DOMAIN Teams = 1 .. Len(Teams) /\ Len(Teams) \in Nat
  /\ \A i \in DOMAIN Teams :
       /\ Teams[i].rank \in Nat /\ Teams[i].size \in Nat
       /\ Teams[i].category \in DOMAIN ForceList
\* A match of another division is answered with 404.
ASSUME MatchesAssumption ==
  \A m \in Matches : \E i \in DOMAIN Teams : Teams[i].division = Division[m]
ASSUME DraftsAssumption ==
  \A m \in Matches : \A d \in Drafts[m] :
    /\ IsFiniteSet(d)
    /\ \A s \in d : s.role \in Roles /\ s.pos \in Nat
ASSUME AsksAssumption == Asks \subseteq BOOLEAN \X Justifications

VARIABLES
  lineup,     \* the Lineup row of each match, with its slots
  req,        \* the validation requests
  stale,      \* history: a verdict was written over slots it had not seen
  excused     \* history: the verdict that stands was given a justification

vars == <<lineup, req, stale, excused>>

Idle == [pc |-> "idle"]

(***************************************************************************)
(* The team of a match is the first one of the club in the match's         *)
(* division.                                                               *)
(***************************************************************************)
TeamOf(m) ==
  LET here == {i \in DOMAIN Teams : Teams[i].division = Division[m]}
  IN Teams[CHOOSE i \in here : \A j \in here : i <= j]

Roster(m) == ForceList[TeamOf(m).category]

(***************************************************************************)
(* The rules.                                                              *)
(***************************************************************************)
Starters(slots) == {s \in slots : s.role = "TITULAIRE" /\ s.pos <= 100}

Players(slots) == {s.player : s \in Starters(slots)}

ContinuousPlace(team, s) == (team.rank - 1) * team.size + s.pos

TeamSize(m, slots) == Cardinality(Starters(slots)) = TeamOf(m).size

BelowPlace(m, slots) ==
  \E s \in Starters(slots) :
    /\ s.player \in DOMAIN Roster(m)
    /\ ContinuousPlace(TeamOf(m), s) > Roster(m)[s.player]

\* The club's other line-ups of the week and category, drafts among them.
\* Mutant: the validated ones alone.
SiblingsValidated(m) ==
  {n \in Matches \ {m} :
     /\ lineup[n].status = "VALIDEE"
     /\ Week[n] = Week[m]
     /\ TeamOf(n).category = TeamOf(m).category}

Siblings(m) ==
  {n \in Matches \ {m} :
     /\ lineup[n].status \in {"BROUILLON", "VALIDEE"}
     /\ Week[n] = Week[m]
     /\ TeamOf(n).category = TeamOf(m).category}

DoubleAlignment(m, slots) ==
  \E n \in Siblings(m) :
    /\ TeamOf(n).id # TeamOf(m).id
    /\ Players(slots) \cap Players(lineup[n].slots) # {}

\* What blocks a validation.  Mutant: the rule on places is forgotten.
HasErrorsNoPlace(m, slots) ==
  ~TeamSize(m, slots) \/ DoubleAlignment(m, slots)

HasErrors(m, slots) ==
  ~TeamSize(m, slots) \/ BelowPlace(m, slots) \/ DoubleAlignment(m, slots)

\* Players of one place come in the order the database returned them.
Orders(slots) ==
  LET S == Starters(slots)
      N == 1 .. Cardinality(S)
  IN {f \in [N -> S] : \A i, j \in N : i < j => /\ f[i] # f[j]
                                                /\ f[i].pos <= f[j].pos}

OutOfOrder(m, order) ==
  \E i \in DOMAIN order \ {1} :
    /\ {order[i - 1].player, order[i].player} \subseteq DOMAIN Roster(m)
    /\ Roster(m)[order[i - 1].player] > Roster(m)[order[i].player]

\* The starters of the team above that the warning is about: those of one of
\* its validated line-ups, the last that the query returned.
Higher(m) ==
  LET above == {n \in Siblings(m) : /\ TeamOf(n).rank = TeamOf(m).rank - 1
                                    /\ lineup[n].status = "VALIDEE"}
      starters(n) == Players(lineup[n].slots) \cap DOMAIN Roster(m)
  IN IF above = {} THEN {{}} ELSE {starters(n) : n \in above}

\* The first player is stronger than the third of the team above (women: the
\* second; when it has fewer, its last).
FirstTooStrong(m, order, higher) ==
  LET rank == IF TeamOf(m).category = "WOMEN" THEN 2 ELSE 3
      first == order[1].player
  IN /\ higher # {}
     /\ DOMAIN order # {}
     /\ first \in DOMAIN Roster(m)
     /\ Cardinality({p \in higher : Roster(m)[p] <= Roster(m)[first]})
          < Min({rank, Cardinality(higher)})

HasWarnings(m, order, higher) ==
  OutOfOrder(m, order) \/ FirstTooStrong(m, order, higher)

(***************************************************************************)
(* saveLineup: one upsert, refused when a player is on two slots (the      *)
(* unique key of LineupSlot).                                              *)
(***************************************************************************)
Saved(row, slots) == [row EXCEPT !.status = "BROUILLON", !.slots = slots]

OnePerPlayer(slots) == \A s, t \in slots : s.player = t.player => s = t

Save(m, slots) ==
  /\ OnePerPlayer(slots)
  /\ lineup' = [lineup EXCEPT ![m] = Saved(@, slots)]
  /\ req' = [r \in Requests |->
       IF req[r].pc # "idle" /\ req[r].match = m
         THEN [req[r] EXCEPT !.fresh = FALSE]
         ELSE req[r]]
  /\ UNCHANGED <<stale, excused>>

(***************************************************************************)
(* validateLineup.                                                         *)
(***************************************************************************)
\* The row and its slots are read; nothing to validate is a 404.
Ask(r, m, ask) ==
  /\ req[r].pc = "idle"
  /\ lineup[m].status # "A_FAIRE"
  /\ req' = [req EXCEPT ![r] =
       [pc |-> "asked", match |-> m, slots |-> lineup[m].slots, fresh |-> TRUE,
        override |-> ask[1], justification |-> ask[2]]]
  /\ UNCHANGED <<lineup, stale, excused>>

\* The siblings are read and the rules decide.  Errors refuse, warnings too
\* unless overridden; an override without a justification is a 400 (mutant:
\* it passes).
Refused(q, errors, warned) == errors \/ (warned /\ ~q.override)

UnjustifiedNever(q, warned) == FALSE

Unjustified(q, warned) == warned /\ q.override /\ q.justification # "given"

Decide(r, errors, warned) ==
  \/ /\ Refused(req[r], errors, warned)
     /\ req' = [req EXCEPT ![r].pc = "refused"]
  \/ /\ ~Refused(req[r], errors, warned)
     /\ Unjustified(req[r], warned)
     /\ req' = [req EXCEPT ![r] = Idle]
  \/ /\ ~Refused(req[r], errors, warned)
     /\ ~Unjustified(req[r], warned)
     /\ req' = [req EXCEPT ![r].pc = "accepted"]

Check(r) ==
  /\ req[r].pc = "asked"
  /\ LET m == req[r].match
         slots == req[r].slots
     IN \E order \in Orders(slots), higher \in Higher(m) :
          Decide(r, HasErrors(m, slots), HasWarnings(m, order, higher))
  /\ UNCHANGED <<lineup, stale, excused>>

\* persistValidation: the status falls back, what an earlier
\* validation stored beside it stays.
Refuse(r) ==
  /\ req[r].pc = "refused"
  /\ lineup' = [lineup EXCEPT ![req[r].match].status = "BROUILLON"]
  /\ req' = [req EXCEPT ![r] = Idle]
  /\ UNCHANGED <<stale, excused>>

\* The snapshot is of the slots that were read.
Snapshot(q) == q.slots

\* A request without a justification leaves the one of an earlier validation.
Accept(r) ==
  /\ req[r].pc = "accepted"
  /\ lineup' = [lineup EXCEPT
       ![req[r].match].status = "VALIDEE",
       ![req[r].match].snapshot = Snapshot(req[r]),
       ![req[r].match].justified = IF req[r].justification = "absent"
                                     THEN @
                                     ELSE req[r].justification = "given"]
  /\ stale' = [stale EXCEPT ![req[r].match] = ~req[r].fresh]
  /\ excused' = [excused EXCEPT ![req[r].match] = req[r].justification = "given"]
  /\ req' = [req EXCEPT ![r] = Idle]

\* A call of the request fails before its write, or the process dies.
Abandon(r) ==
  /\ req[r].pc # "idle"
  /\ req' = [req EXCEPT ![r] = Idle]
  /\ UNCHANGED <<lineup, stale, excused>>

Init ==
  /\ lineup = [m \in Matches |->
       [status |-> "A_FAIRE", slots |-> None,
        justified |-> FALSE, snapshot |-> None]]
  /\ req = [r \in Requests |-> Idle]
  /\ stale = [m \in Matches |-> FALSE]
  /\ excused = [m \in Matches |-> FALSE]

Next ==
  \/ \E m \in Matches : \E d \in Drafts[m] : Save(m, d)
  \/ \E r \in Requests, m \in Matches, ask \in Asks : Ask(r, m, ask)
  \/ \E r \in Requests : Check(r)
  \/ \E r \in Requests : Refuse(r)
  \/ \E r \in Requests : Accept(r)
  \/ \E r \in Requests : Abandon(r)

Spec == Init /\ [][Next]_vars

(***************************************************************************)
(* Properties.                                                             *)
(***************************************************************************)
\* The rows and the requests are well formed.
SlotSets == (UNION {Drafts[m] : m \in Matches}) \cup {None}

RowType ==
  [status : Statuses, slots : SlotSets, justified : BOOLEAN,
   snapshot : SlotSets]

RequestType ==
  [pc : {"asked", "refused", "accepted"}, match : Matches,
   slots : SlotSets, fresh : BOOLEAN,
   override : BOOLEAN, justification : Justifications]

TypeOK ==
  /\ lineup \in [Matches -> RowType]
  /\ req \in [Requests -> RequestType \cup {Idle}]
  /\ stale \in [Matches -> BOOLEAN]
  /\ excused \in [Matches -> BOOLEAN]

\* Validated, and the verdict was about the slots it now has.
Validated(m) == lineup[m].status = "VALIDEE" /\ ~stale[m]

\* Two matches of one week and category whose teams are not the same.
Rivals(m, n) ==
  /\ Week[m] = Week[n]
  /\ TeamOf(m).category = TeamOf(n).category
  /\ TeamOf(m).id # TeamOf(n).id

\* However the captains of a club save and validate at once, two line-ups of
\* a week validated for two teams never share a starter (DoubleAlignmentRule,
\* fed by sameWeekContext: what makes it hold is that drafts count too).
NoDoubleAlignment ==
  \A m, n \in Matches :
    Validated(m) /\ Validated(n) /\ Rivals(m, n)
      => Players(lineup[m].slots) \cap Players(lineup[n].slots) = {}

\* A validated line-up has the starters of its team, none below the place its
\* index allows, and the snapshot kept for audit is of its own slots
\* (validateLineup, TeamSizeRule, PlayerBelowPlaceRule, snapshot).
ValidatedIsLegal ==
  \A m \in Matches :
    Validated(m) =>
      /\ TeamSize(m, lineup[m].slots)
      /\ ~BelowPlace(m, lineup[m].slots)
      /\ lineup[m].snapshot = lineup[m].slots

Descends(m) ==
  \A s, t \in Starters(lineup[m].slots) :
    /\ {s.player, t.player} \subseteq DOMAIN Roster(m)
    /\ s.pos < t.pos
    => Roster(m)[s.player] <= Roster(m)[t.player]

\* In a validated line-up the listed players stand by strength, or a
\* justification was given for this very validation and is the one that is
\* kept, not one that an earlier validation left: as far as every starter is
\* on the force list (OrderOfForceRule, overrideWarnings).
OrderedOrJustified ==
  \A m \in Matches :
    /\ Validated(m)
    /\ Players(lineup[m].slots) \subseteq DOMAIN Roster(m)
    => Descends(m) \/ (excused[m] /\ lineup[m].justified)

\* A line-up that breaks a rule about itself is never a validated one.
\* "Blocking errors can never be validated." (captain-lineup.service.ts:200)
ErrorsNeverValidated ==
  \A m \in Matches :
    lineup[m].status = "VALIDEE" =>
      TeamSize(m, lineup[m].slots) /\ ~BelowPlace(m, lineup[m].slots)
=============================================================================
