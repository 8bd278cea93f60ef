-------------------------- MODULE BackOfficeProofs --------------------------
(***************************************************************************)
(* The back office, for any number of plans, editors, regions, orders,     *)
(* rules and backfills: what tariff edits leave, and the days orders get.  *)
(***************************************************************************)
EXTENDS MCBackOffice, AccountsProofs, SequenceTheorems, WellFoundedInduction

----------------------------------------------------------------------------
(* Tariff plans.                                                           *)

Present == {q \in Plans : plan[q] # Unset}
Own(c) == {r \in rates : r.plan = c.plan}

\* Rivals, of the edit itself.
RivalsOf(c) ==
  {q \in Plans \ {c.plan} :
     /\ plan[q] # Unset
     /\ plan[q].isDefault
     /\ plan[q].row.service = c.input.row.service
     /\ plan[q].row.owner = c.input.row.owner}

\* What is true of every edit: it is new as long as its plan is not there,
\* it demotes other plans that are there and clears bands of its own plan.
Sound(c) ==
  /\ c.new <=> plan[c.plan] = Unset
  /\ c.new => c.at \notin {"clear", "clearing"}
  /\ c.demoted \subseteq Present \ {c.plan}
  /\ \A r \in c.cleared : r.plan = c.plan
  /\ c.at = "clearing" => \A r \in c.seen : r.plan = c.plan
  /\ c.at # "write" => c.cleared = {}

\* What is also true of one that met no other: what it has seen is still so.
Undisturbed(c) ==
  /\ c.at = "demoting" => c.seen = RivalsOf(c)
  /\ c.at \in {"clear", "clearing", "write"} /\ c.input.row.isDefault => c.demoted = RivalsOf(c)
  /\ c.at = "clearing" => c.seen = Own(c)
  /\ c.at = "write" => c.cleared = Own(c)

\* Nobody else edits a plan that is being created.
Apart ==
  \A e, f \in Editing : edit[e].new /\ edit[e].plan = edit[f].plan => e = f

EditsFit ==
  \A e \in Editing : /\ Sound(edit[e])
                     /\ ~edit[e].met => Undisturbed(edit[e]) /\ Editing = {e}

TariffInv == TariffsTypeOK /\ Apart /\ EditsFit

\* An edit in progress, field by field.
LEMMA EditFields ==
  ASSUME TariffsTypeOK, NEW e \in Editing
  PROVE  /\ e \in Editors /\ edit[e] \in Edit
         /\ edit[e].plan \in Plans /\ edit[e].new \in BOOLEAN /\ edit[e].input \in PlanInputs
         /\ edit[e].demoted \subseteq Plans /\ edit[e].cleared \subseteq Rate
         /\ edit[e].seen \subseteq Plans \cup Rate /\ edit[e].met \in BOOLEAN
         /\ edit[e].at \in {"demote", "demoting", "clear", "clearing", "write"}
         /\ Rivals(e) = RivalsOf(edit[e])
<1>1. e \in Editors /\ edit[e] \in Edit
  BY DEF Editing, TariffsTypeOK
<1>2. Rivals(e) = RivalsOf(edit[e])
  BY DEF Rivals, RivalsOf
<1>. QED  BY <1>1, <1>2 DEF Edit

\* A statement of one edit that changes no row.
LEMMA EditMoves ==
  ASSUME TariffInv, NEW e \in Editing, NEW next \in Edit,
         next.plan = edit[e].plan, next.new = edit[e].new, next.met = edit[e].met,
         Sound(next), ~next.met => Undisturbed(next),
         edit' = [edit EXCEPT ![e] = next],
         UNCHANGED <<plan, rates, edits>>
  PROVE  TariffInv'
<1>1. e \in Editors /\ edit \in [Editors -> Edit \cup {Unset}] /\ next # Unset
  <2>1. next # Unset
    BY TariffNullAssumption
  <2>2. edit \in [Editors -> Edit \cup {Unset}]
    BY DEF TariffInv, TariffsTypeOK
  <2>. QED  BY <2>1, <2>2 DEF Editing
<1>2. /\ edit' \in [Editors -> Edit \cup {Unset}] /\ edit'[e] = next
      /\ \A f \in Editors \ {e} : edit'[f] = edit[f]
  BY <1>1
<1>3. Editing' = Editing
  BY <1>1, <1>2 DEF Editing
<1>4. TariffsTypeOK'
  BY <1>2 DEF TariffInv, TariffsTypeOK, BandsOf
<1>5. Apart'
  <2>1. \A f \in Editing : edit'[f].new = edit[f].new /\ edit'[f].plan = edit[f].plan
    BY <1>2 DEF Editing
  <2>. QED  BY <1>3, <2>1 DEF TariffInv, Apart
<1>6. \A c : (Sound(c) => Sound(c)') /\ (Undisturbed(c) => Undisturbed(c)')
  BY DEF Sound, Undisturbed, Present, RivalsOf, Own
<1>7. ASSUME NEW f \in Editing, NEW c, c = edit'[f]
      PROVE  Sound(c)' /\ (~c.met => Undisturbed(c)' /\ Editing = {f})
  <2>1. CASE f = e
    <3>1. c = next
      BY <1>2, <1>7, <2>1
    <3>2. Sound(c)' /\ (~c.met => Undisturbed(c)')
      BY <1>6, <3>1
    <3>3. ~c.met => Editing = {f}
      BY <2>1, <3>1 DEF TariffInv, EditsFit
    <3>. QED  BY <3>2, <3>3
  <2>2. CASE f # e
    <3>1. c = edit[f]
      BY <1>2, <1>7, <2>2 DEF Editing
    <3>. QED  BY <1>6, <3>1 DEF TariffInv, EditsFit
  <2>. QED  BY <2>1, <2>2
<1>8. EditsFit'
  <2>1. \A f \in Editing : /\ Sound(edit[f])'
                           /\ (~edit[f].met => Undisturbed(edit[f]))' /\ (~edit'[f].met => Editing = {f})
    BY <1>7 DEF Sound, Undisturbed, RivalsOf, Own, Present
  <2>. QED  BY <1>3, <2>1 DEF EditsFit
<1>. QED  BY <1>4, <1>5, <1>8 DEF TariffInv

\* A plan that is not there has no bands.
LEMMA NoBands ==
  ASSUME TariffsTypeOK, NEW p \in Plans, plan[p] = Unset
  PROVE  \A r \in rates : r.plan # p
BY DEF TariffsTypeOK, BandsOf

\* An edit begins.
LEMMA BeginKeeps ==
  ASSUME TariffInv, NEW e \in Editors, NEW p \in Plans, NEW input \in PlanInputs,
         BeginEdit(e, p, input)
  PROVE  TariffInv'
<1>. DEFINE new  == plan[p] = Unset
            next == [at |-> FirstOf(input, new), plan |-> p, new |-> new, input |-> input,
                     seen |-> {}, demoted |-> {}, cleared |-> {}, met |-> Editing # {}]
<1>1. next \in Edit
  BY DEF Edit, FirstOf, AfterDemote
<1>2. /\ next # Unset /\ e \notin Editing
      /\ edit \in [Editors -> Edit \cup {Unset}]
      /\ new => \A f \in Editing : edit[f].plan # p
      /\ UNCHANGED <<plan, rates, edits>>
  BY <1>1, TariffNullAssumption DEF BeginEdit, TariffInv, TariffsTypeOK, TariffNullAssumption, Editing
<1>3. edit' = [f \in Editors |-> IF f = e THEN next
                                 ELSE IF f \in Editing THEN [edit[f] EXCEPT !.met = TRUE]
                                 ELSE Unset]
  BY DEF BeginEdit
<1>4. \A f \in Editing : /\ [edit[f] EXCEPT !.met = TRUE] \in Edit
                         /\ [edit[f] EXCEPT !.met = TRUE] # Unset
                         /\ edit[f] \in Edit
  <2>1. \A f \in Editing : edit[f] \in Edit /\ [edit[f] EXCEPT !.met = TRUE] \in Edit
    BY DEF Editing, Edit, TariffInv, TariffsTypeOK
  <2>. QED  BY <2>1, TariffNullAssumption DEF TariffNullAssumption
<1>5. /\ new = (next.new) /\ next.plan = p /\ next.at = FirstOf(input, new) /\ next.input = input
      /\ next.seen = {} /\ next.demoted = {} /\ next.cleared = {} /\ next.met = (Editing # {})
  OBVIOUS
<1>. HIDE DEF next
<1>6. edit' \in [Editors -> Edit \cup {Unset}]
  BY <1>1, <1>3, <1>4
<1>7. Editing' = Editing \cup {e} /\ Editing \subseteq Editors /\ edit'[e] = next
      /\ \A f \in Editing : f # e /\ edit'[f] = [edit[f] EXCEPT !.met = TRUE]
  BY <1>2, <1>3, <1>4 DEF Editing
<1>8. TariffsTypeOK'
  BY <1>2, <1>6 DEF TariffInv, TariffsTypeOK, BandsOf
<1>9. \A f \in Editing : /\ edit'[f].met = TRUE /\ edit'[f].new = edit[f].new
                         /\ edit'[f].plan = edit[f].plan /\ edit'[f].at = edit[f].at
                         /\ edit'[f].seen = edit[f].seen /\ edit'[f].demoted = edit[f].demoted
                         /\ edit'[f].cleared = edit[f].cleared
  <2>. TAKE f \in Editing
  <2>1. edit[f] \in Edit /\ edit'[f] = [edit[f] EXCEPT !.met = TRUE]
    BY <1>4, <1>7
  <2>. QED  BY <2>1, Zenon DEF Edit
<1>10. Apart'
  <2>1. ASSUME NEW f \in Editing, edit[f].new PROVE edit[f].plan # p
    <3>1. edit[f].new <=> plan[edit[f].plan] = Unset
      BY DEF TariffInv, EditsFit, Sound
    <3>. QED  BY <1>2, <2>1, <3>1
  <2>2. ASSUME NEW f \in Editing, new PROVE edit[f].plan # p
    BY <1>2, <2>2
  <2>3. \A f, g \in Editing : edit'[f].new /\ edit'[f].plan = edit'[g].plan => f = g
    BY <1>9 DEF TariffInv, Apart
  <2>4. \A f \in Editing : /\ ~(edit'[f].new /\ edit'[f].plan = edit'[e].plan)
                           /\ ~(edit'[e].new /\ edit'[e].plan = edit'[f].plan)
    BY <1>5, <1>7, <1>9, <2>1, <2>2
  <2>. QED  BY <1>7, <2>3, <2>4 DEF Apart
<1>. PICK c : c = next
  OBVIOUS
<1>11. Sound(c)' /\ (~c.met => Undisturbed(c)')
  <2>1. new => Own(c) = {}
    BY <1>5, NoBands DEF Own, TariffInv
  <2>2. c.new <=> new
    BY <1>5
  <2>. QED  BY <1>2, <1>5, <2>1, <2>2 DEF Sound, Undisturbed, FirstOf, AfterDemote, Own
<1>12. ASSUME NEW f \in Editing PROVE Sound(edit[f])' /\ edit'[f].met = TRUE
  BY <1>2, <1>9 DEF TariffInv, EditsFit, Sound, Present
<1>13. Sound(edit[e])' /\ (~edit'[e].met => Undisturbed(edit[e])' /\ Editing' = {e})
  BY <1>5, <1>7, <1>11 DEF Sound, Undisturbed, Present, RivalsOf, Own
<1>14. EditsFit'
  BY <1>7, <1>12, <1>13 DEF EditsFit
<1>. QED  BY <1>8, <1>10, <1>14 DEF TariffInv

\* The statements of an edit before the last.
LEMMA StatementKeeps ==
  ASSUME TariffInv, NEW e \in Editors,
         BeginDemote(e) \/ Demote(e) \/ BeginClear(e) \/ Clear(e)
  PROVE  TariffInv'
<1>. DEFINE c == edit[e]
<1>1. e \in Editing
  BY DEF Editing, BeginDemote, Demote, BeginClear, Clear
<1>2. /\ c \in Edit /\ c.plan \in Plans /\ c.demoted \subseteq Plans /\ c.cleared \subseteq Rate
      /\ Rivals(e) = RivalsOf(c) /\ RivalsOf(c) \subseteq Present \ {c.plan}
      /\ rates \subseteq Rate /\ Own(c) \subseteq rates /\ Present \subseteq Plans
      /\ edit \in [Editors -> Edit \cup {Unset}]
  BY <1>1, EditFields DEF TariffInv, TariffsTypeOK, RivalsOf, Present, Own
<1>3. Sound(c) /\ (~c.met => Undisturbed(c))
  BY <1>1 DEF TariffInv, EditsFit
<1>4. CASE BeginDemote(e)
  <2>. DEFINE next == [c EXCEPT !.at = "demoting", !.seen = Rivals(e)]
  <2>1. edit' = [edit EXCEPT ![e] = next] /\ UNCHANGED <<plan, rates, edits>> /\ c.at = "demote"
    BY <1>4 DEF BeginDemote
  <2>2. /\ next \in Edit /\ next.plan = c.plan /\ next.new = c.new /\ next.met = c.met
        /\ next.input = c.input /\ next.at = "demoting" /\ next.seen = RivalsOf(c)
        /\ next.demoted = c.demoted /\ next.cleared = c.cleared
    BY <1>2 DEF Edit
  <2>. HIDE DEF next
  <2>3. Sound(next) /\ Undisturbed(next)
    BY <1>2, <1>3, <2>1, <2>2 DEF Sound, Undisturbed, RivalsOf
  <2>. QED  BY <1>1, <2>1, <2>2, <2>3, EditMoves
<1>5. CASE Demote(e)
  <2>. DEFINE next == [c EXCEPT !.at = AfterDemote(c.new), !.seen = {},
                                !.demoted = c.seen \cap Rivals(e)]
  <2>1. edit' = [edit EXCEPT ![e] = next] /\ UNCHANGED <<plan, rates, edits>> /\ c.at = "demoting"
    BY <1>5 DEF Demote
  <2>2. /\ next \in Edit /\ next.plan = c.plan /\ next.new = c.new /\ next.met = c.met
        /\ next.input = c.input /\ next.at = AfterDemote(c.new) /\ next.seen = {}
        /\ next.demoted = c.seen \cap RivalsOf(c) /\ next.cleared = c.cleared
    BY <1>2 DEF Edit, AfterDemote
  <2>. HIDE DEF next
  <2>3. c.new => Own(c) = {}
    BY <1>2, <1>3, NoBands DEF Own, Sound, TariffInv
  <2>4. Sound(next) /\ (~next.met => Undisturbed(next))
    BY <1>2, <1>3, <2>1, <2>2, <2>3 DEF Sound, Undisturbed, RivalsOf, AfterDemote, Own
  <2>. QED  BY <1>1, <2>1, <2>2, <2>4, EditMoves
<1>6. CASE BeginClear(e)
  <2>. DEFINE next == [c EXCEPT !.at = "clearing", !.seen = {r \in rates : r.plan = c.plan}]
  <2>1. edit' = [edit EXCEPT ![e] = next] /\ UNCHANGED <<plan, rates, edits>> /\ c.at = "clear"
    BY <1>6 DEF BeginClear
  <2>2. /\ next \in Edit /\ next.plan = c.plan /\ next.new = c.new /\ next.met = c.met
        /\ next.input = c.input /\ next.at = "clearing" /\ next.seen = Own(c)
        /\ next.demoted = c.demoted /\ next.cleared = c.cleared
    BY <1>2 DEF Edit, Own
  <2>. HIDE DEF next
  <2>3. Sound(next) /\ (~next.met => Undisturbed(next))
    BY <1>2, <1>3, <2>1, <2>2 DEF Sound, Undisturbed, RivalsOf, Own
  <2>. QED  BY <1>1, <2>1, <2>2, <2>3, EditMoves
<1>7. CASE Clear(e)
  <2>. DEFINE next == [c EXCEPT !.at = "write", !.seen = {}, !.cleared = c.seen \cap rates]
  <2>1. edit' = [edit EXCEPT ![e] = next] /\ UNCHANGED <<plan, rates, edits>> /\ c.at = "clearing"
    BY <1>7 DEF Clear
  <2>2. /\ next \in Edit /\ next.plan = c.plan /\ next.new = c.new /\ next.met = c.met
        /\ next.input = c.input /\ next.at = "write" /\ next.seen = {}
        /\ next.demoted = c.demoted /\ next.cleared = c.seen \cap rates
    BY <1>2 DEF Edit
  <2>. HIDE DEF next
  <2>3. Sound(next) /\ (~next.met => Undisturbed(next))
    BY <1>2, <1>3, <2>1, <2>2 DEF Sound, Undisturbed, RivalsOf, Own
  <2>. QED  BY <1>1, <2>1, <2>2, <2>3, EditMoves
<1>. QED  BY <1>4, <1>5, <1>6, <1>7
\* An edit is over and no row has changed.
LEMMA AbortKeeps ==
  ASSUME TariffInv, NEW e \in Editing, edit' = [edit EXCEPT ![e] = Unset],
         UNCHANGED <<plan, rates, edits>>
  PROVE  TariffInv'
<1>1. edit \in [Editors -> Edit \cup {Unset}] /\ e \in Editors
  BY DEF TariffInv, TariffsTypeOK, Editing
<1>2. /\ edit' \in [Editors -> Edit \cup {Unset}]
      /\ Editing' = Editing \ {e} /\ \A f \in Editing \ {e} : edit'[f] = edit[f]
  BY <1>1 DEF Editing
<1>3. TariffsTypeOK'
  BY <1>2 DEF TariffInv, TariffsTypeOK, BandsOf
<1>4. Apart'
  BY <1>2 DEF TariffInv, Apart
<1>5. ASSUME NEW f \in Editing \ {e} PROVE Sound(edit[f])' /\ edit'[f].met
  <2>1. f # e /\ edit[f].met \in BOOLEAN
    BY EditFields DEF TariffInv
  <2>. QED  BY <1>2, <2>1 DEF TariffInv, EditsFit, Sound, Present
<1>6. EditsFit'
  BY <1>2, <1>5 DEF EditsFit
<1>. QED  BY <1>3, <1>4, <1>6 DEF TariffInv

\* What a committed edit leaves: the rows and the bands.
LEMMA Written ==
  ASSUME TariffsAssumption, TariffInv, NEW e \in Editing, Write(e), edits' # edits
  PROVE  LET c == edit[e] IN
         /\ c.at = "write"
         /\ edits < MaxEdits /\ edits' = edits + 1
         /\ edit' = [edit EXCEPT ![e] = Unset]
         /\ \A r \in rates \ c.cleared : ~InTheWay(e, r)
         /\ plan' \in [Plans -> Plan \cup {Unset}]
         /\ plan'[c.plan] # Unset /\ plan'[c.plan].row = c.input.row
         /\ plan'[c.plan].isDefault = c.input.row.isDefault
         /\ \A q \in c.demoted : /\ plan'[q] \in Plan /\ plan'[q].isDefault = FALSE
                                 /\ plan'[q].row = plan[q].row
         /\ \A q \in Plans \ ({c.plan} \cup c.demoted) : plan'[q] = plan[q]
         /\ rates' = (rates \ c.cleared)
              \cup {[plan |-> c.plan, band |-> b, no |-> edits'] : b \in c.input.bands}
<1>. DEFINE c == edit[e]
<1>1. /\ c \in Edit /\ c.plan \in Plans /\ c.demoted \subseteq Present \ {c.plan}
      /\ c.input \in PlanInputs /\ c.input.row \in PlanRow /\ c.new \in BOOLEAN
      /\ c.new <=> plan[c.plan] = Unset
      /\ plan \in [Plans -> Plan \cup {Unset}] /\ edits \in 0..MaxEdits /\ MaxEdits \in Nat
  BY EditFields DEF TariffInv, EditsFit, Sound, TariffsTypeOK, TariffsAssumption
<1>2. /\ c.at = "write" /\ edits < MaxEdits /\ edits' = edits + 1
      /\ edit' = [edit EXCEPT ![e] = Unset]
      /\ \A r \in rates \ c.cleared : ~InTheWay(e, r)
      /\ rates' = (rates \ c.cleared)
           \cup {[plan |-> c.plan, band |-> b, no |-> edits'] : b \in c.input.bands}
  BY DEF Write
<1>3. plan' = [q \in Plans |->
        IF q = c.plan
        THEN [row |-> c.input.row, isDefault |-> c.input.row.isDefault,
              born |-> IF c.new THEN edits' ELSE plan[q].born]
        ELSE IF q \in c.demoted THEN [plan[q] EXCEPT !.isDefault = FALSE]
        ELSE plan[q]]
  BY DEF Write
<1>4. (IF c.new THEN edits' ELSE plan[c.plan].born) \in 1..MaxEdits
  <2>1. CASE c.new
    BY <1>1, <1>2, <2>1
  <2>2. CASE ~c.new
    BY <1>1, <2>2 DEF Plan
  <2>. QED  BY <2>1, <2>2
<1>5. /\ plan'[c.plan] \in Plan /\ plan'[c.plan].row = c.input.row
      /\ plan'[c.plan].isDefault = c.input.row.isDefault
  <2>. PICK row, d, i : row = c.input.row /\ d = c.input.row.isDefault
                       /\ i = IF c.new THEN edits' ELSE plan[c.plan].born
    OBVIOUS
  <2>1. plan'[c.plan] = [row |-> row, isDefault |-> d, born |-> i]
    BY <1>1, <1>3
  <2>2. d \in BOOLEAN /\ row \in {input.row : input \in PlanInputs} /\ i \in 1..MaxEdits
    BY <1>1, <1>4 DEF PlanRow
  <2>3. plan'[c.plan] \in Plan
    BY <2>1, <2>2 DEF Plan
  <2>. QED  BY <2>1, <2>3
<1>6. ASSUME NEW q \in c.demoted
      PROVE  plan'[q] \in Plan /\ plan'[q].isDefault = FALSE /\ plan'[q].row = plan[q].row
  <2>1. plan[q] \in Plan /\ q \in Plans /\ q # c.plan
    BY <1>1 DEF Present
  <2>2. plan'[q] = [plan[q] EXCEPT !.isDefault = FALSE]
    BY <1>3, <2>1
  <2>. QED  BY <2>1, <2>2 DEF Plan
<1>7. ASSUME NEW q \in Plans \ ({c.plan} \cup c.demoted) PROVE plan'[q] = plan[q]
  BY <1>3
<1>8. plan'[c.plan] # Unset
  BY <1>5, TariffNullAssumption DEF TariffNullAssumption
<1>9. plan' \in [Plans -> Plan \cup {Unset}]
  <2>1. \A q \in Plans : plan'[q] \in Plan \cup {Unset}
    BY <1>1, <1>5, <1>6, <1>7
  <2>. QED  BY <1>3, <2>1
<1>. QED  BY <1>2, <1>5, <1>6, <1>7, <1>8, <1>9

\* A committed edit leaves the rest as it should be.
LEMMA WriteKeeps ==
  ASSUME TariffsAssumption, TariffInv, NEW e \in Editors, Write(e)
  PROVE  TariffInv'
<1>0. e \in Editing
  BY DEF Write, Editing
<1>1. CASE edits' = edits
  <2>1. edits \in Nat
    BY DEF TariffInv, TariffsTypeOK, TariffsAssumption
  <2>2. edit' = [edit EXCEPT ![e] = Unset] /\ UNCHANGED <<plan, rates, edits>>
    BY <1>1, <2>1 DEF Write
  <2>. QED  BY <1>0, <2>2, AbortKeeps
<1>2. CASE edits' # edits
  <2>. DEFINE c == edit[e]
              news == {[plan |-> c.plan, band |-> b, no |-> edits'] : b \in c.input.bands}
  <2>1. /\ edits < MaxEdits /\ edits' = edits + 1
        /\ edit' = [edit EXCEPT ![e] = Unset]
        /\ \A r \in rates \ c.cleared : ~InTheWay(e, r)
        /\ plan' \in [Plans -> Plan \cup {Unset}]
        /\ plan'[c.plan] # Unset
        /\ \A q \in c.demoted : plan'[q] \in Plan
        /\ \A q \in Plans \ ({c.plan} \cup c.demoted) : plan'[q] = plan[q]
        /\ rates' = (rates \ c.cleared) \cup news
    BY <1>0, <1>2, Written
  <2>2. /\ c \in Edit /\ c.plan \in Plans /\ c.demoted \subseteq Present \ {c.plan}
        /\ c.input \in PlanInputs /\ \A r \in c.cleared : r.plan = c.plan
        /\ c.input.bands # {} /\ \A b, d \in c.input.bands : SameRange(b, d) => b = d
        /\ edits \in 0..MaxEdits /\ MaxEdits \in Nat
        /\ edit \in [Editors -> Edit \cup {Unset}] /\ rates \subseteq Rate
    BY <1>0, EditFields DEF TariffInv, EditsFit, Sound, TariffsTypeOK, TariffsAssumption, BandsOK
  <2>3. edits' \in 1..MaxEdits
    BY <2>1, <2>2
  <2>4. \A q \in Plans : plan'[q] # Unset <=> (plan[q] # Unset \/ q = c.plan)
    <3>1. \A q \in c.demoted : plan'[q] # Unset /\ plan[q] # Unset
      BY <2>1, <2>2, TariffNullAssumption DEF TariffNullAssumption, Present
    <3>. QED  BY <2>1, <3>1
  <2>5. rates' \subseteq Rate
    <3>1. c.input.bands \subseteq UNION {input.bands : input \in PlanInputs}
      BY <2>2
    <3>. HIDE DEF c
    <3>2. news \subseteq Rate
      BY <2>2, <2>3, <3>1 DEF Rate
    <3>. QED  BY <2>1, <2>2, <3>2
  <2>6. \A r \in news : r.plan = c.plan /\ r.band \in c.input.bands /\ r.no = edits'
    OBVIOUS
  <2>7. ASSUME NEW r \in rates', NEW s \in rates', r.plan = s.plan, SameRange(r.band, s.band)
        PROVE  r = s
    <3>1. CASE r \in news /\ s \in news
      <4>1. r.band = s.band
        BY <2>2, <2>6, <2>7, <3>1
      <4>. QED  BY <3>1, <4>1
    <3>2. CASE r \in rates \ c.cleared /\ s \in rates \ c.cleared
      BY <2>7, <3>2 DEF TariffInv, TariffsTypeOK
    <3>3. CASE r \in rates \ c.cleared /\ s \in news
      BY <2>1, <2>6, <2>7, <3>3 DEF InTheWay
    <3>4. CASE s \in rates \ c.cleared /\ r \in news
      BY <2>1, <2>6, <2>7, <3>4 DEF InTheWay, SameRange
    <3>. HIDE DEF news
    <3>. QED  BY <2>1, <3>1, <3>2, <3>3, <3>4
  <2>8. ASSUME NEW q \in Plans PROVE plan'[q] # Unset <=> BandsOf(q)' # {}
    <3>1. CASE q = c.plan
      <4>1. PICK b \in c.input.bands : TRUE
        BY <2>2
      <4>2. [plan |-> c.plan, band |-> b, no |-> edits'] \in news
        BY <4>1
      <4>3. \E r \in rates' : r.plan = q
        BY <2>1, <2>6, <3>1, <4>2
      <4>. QED  BY <2>1, <3>1, <4>3 DEF BandsOf
    <3>2. CASE q # c.plan
      <4>1. plan[q] # Unset <=> BandsOf(q) # {}
        BY DEF TariffInv, TariffsTypeOK
      <4>2. \A r : (r \in rates' /\ r.plan = q) <=> (r \in rates /\ r.plan = q)
        BY <2>1, <2>2, <2>6, <3>2
      <4>3. BandsOf(q)' = BandsOf(q)
        BY <4>2 DEF BandsOf
      <4>. QED  BY <2>4, <3>2, <4>1, <4>3
    <3>. QED  BY <3>1, <3>2
  <2>9. /\ edit' \in [Editors -> Edit \cup {Unset}]
        /\ Editing' = Editing \ {e} /\ \A f \in Editing \ {e} : edit'[f] = edit[f]
    BY <1>0, <2>1, <2>2 DEF Editing
  <2>. HIDE DEF c, news
  <2>10. TariffsTypeOK'
    BY <2>1, <2>2, <2>3, <2>5, <2>7, <2>8, <2>9 DEF TariffsTypeOK
  <2>11. Apart'
    BY <2>9 DEF TariffInv, Apart
  <2>12. ASSUME NEW f \in Editing \ {e} PROVE Sound(edit[f])' /\ edit'[f].met
    <3>. PICK d : d = edit[f]
      OBVIOUS
    <3>1. edit'[f] = d /\ d.met \in BOOLEAN /\ d.plan \in Plans /\ f \in Editing /\ f # e
      BY <2>9, EditFields DEF TariffInv
    <3>2. Sound(d) /\ d.met
      BY <1>0, <3>1 DEF TariffInv, EditsFit
    <3>3. d.new => d.plan # c.plan
      BY <1>0, <3>1 DEF TariffInv, Apart, c
    <3>4. Present \subseteq Present' /\ (d.new <=> plan'[d.plan] = Unset)
      <4>1. Present \subseteq Present'
        BY <2>4 DEF Present
      <4>2. CASE d.new
        BY <2>4, <3>1, <3>2, <3>3, <4>1, <4>2 DEF Sound
      <4>3. CASE ~d.new
        BY <2>4, <3>1, <3>2, <4>1, <4>3 DEF Sound
      <4>. QED  BY <4>1, <4>2, <4>3
    <3>. QED  BY <3>1, <3>2, <3>4 DEF Sound
  <2>13. EditsFit'
    BY <2>9, <2>12 DEF EditsFit
  <2>. QED  BY <2>10, <2>11, <2>13 DEF TariffInv
<1>. QED  BY <1>1, <1>2
\* Nobody edits, nothing is there.
LEMMA TariffInvInit == ASSUME TariffsAssumption, TariffsInit PROVE TariffInv
<1>1. Editing = {}
  BY DEF TariffsInit, Editing
<1>2. TariffsTypeOK
  BY DEF TariffsInit, TariffsTypeOK, TariffsAssumption, BandsOf
<1>. QED  BY <1>1, <1>2 DEF TariffInv, Apart, EditsFit

\* Every step of every edit.
LEMMA TariffInvNext ==
  ASSUME TariffsAssumption, TariffInv, [TariffsNext]_tariffVars
  PROVE  TariffInv'
<1>1. CASE UNCHANGED tariffVars
  <2>1. UNCHANGED <<plan, rates, edit, edits>>
    BY <1>1 DEF tariffVars
  <2>2. TariffsTypeOK' /\ Editing' = Editing
    BY <2>1 DEF TariffInv, TariffsTypeOK, BandsOf, Editing
  <2>3. \A e \in Editing : /\ Sound(edit[e])'
                           /\ (~edit'[e].met => Undisturbed(edit[e])')
    BY <2>1 DEF TariffInv, EditsFit, Sound, Undisturbed, Present, RivalsOf, Own
  <2>. QED  BY <2>1, <2>2, <2>3 DEF TariffInv, Apart, EditsFit
<1>2. ASSUME NEW e \in Editors, AbortEdit(e) PROVE TariffInv'
  <2>1. e \in Editing
    BY <1>2 DEF AbortEdit, Editing
  <2>. QED  BY <1>2, <2>1, AbortKeeps DEF AbortEdit
<1>. QED  BY <1>1, <1>2, BeginKeeps, StatementKeeps, WriteKeeps DEF TariffsNext

\* An active plan that is the only default of its service and customer is the
\* one that is quoted there: it comes before every other candidate because it
\* is the customer's own or because it is the default.
LEMMA DefaultIsQuoted ==
  ASSUME plan' \in [Plans -> Plan \cup {Unset}], TariffsAssumption,
         NEW p \in Plans, NEW input \in PlanInputs,
         plan'[p] # Unset, plan'[p].row = input.row, plan'[p].isDefault = TRUE,
         input.row.status = "active", OnlyDefault(p, input.row)'
  PROVE  PlanQuoted(input.row.service, input.row.owner)' = p
<1>. PICK row : row = input.row
  OBVIOUS
<1>. DEFINE cand == {q \in Plans : /\ plan'[q] # Unset
                                   /\ plan'[q].row.status = "active"
                                   /\ plan'[q].row.service = row.service
                                   /\ plan'[q].row.owner \in {row.owner, Unset}}
            own(q) == IF row.owner # Unset /\ plan'[q].row.owner = row.owner THEN 1 ELSE 0
            dft(q) == IF plan'[q].isDefault THEN 1 ELSE 0
            W(q) == <<own(q), dft(q), plan'[q].row.priority, plan'[q].born>>
            first(q) == \A r \in cand : ~Outranks(W(r), W(q))
<1>1. p \in cand
  OBVIOUS
<1>2. ASSUME NEW q \in cand, q # p
      PROVE  own(q) < own(p) \/ (own(q) = own(p) /\ dft(q) < dft(p))
  <2>1. ~(plan'[q].isDefault /\ plan'[q].row.owner = row.owner)
    BY <1>2 DEF OnlyDefault
  <2>2. plan'[q].row.owner = row.owner \/ (plan'[q].row.owner = Unset /\ row.owner # Unset)
    BY <1>2
  <2>3. CASE plan'[q].row.owner = row.owner
    <3>1. own(q) = own(p)
      BY <2>3
    <3>2. dft(q) = 0
      BY <2>1, <2>3
    <3>3. dft(p) = 1
      OBVIOUS
    <3>. QED  BY <3>1, <3>2, <3>3
  <2>4. CASE plan'[q].row.owner = Unset /\ row.owner # Unset
    <3>1. own(q) = 0 /\ own(p) = 1
      BY <2>4
    <3>. QED  BY <3>1
  <2>. QED  BY <2>2, <2>3, <2>4
<1>3. \A q \in cand : /\ own(q) \in 0..1 /\ dft(q) \in 0..1
                      /\ plan'[q].row.priority \in Nat /\ plan'[q].born \in Nat
  <2>. TAKE q \in cand
  <2>1. plan'[q] \in Plan
    OBVIOUS
  <2>2. plan'[q].row \in PlanRow /\ plan'[q].born \in Nat
    BY <2>1 DEF Plan, TariffsAssumption
  <2>. QED  BY <2>2 DEF PlanRow
<1>4. \A q \in cand : W(q) \in Nat \X Nat \X Nat \X Nat
  BY <1>3
<1>. HIDE DEF own, dft, W
<1>5. \A q \in cand \ {p} : Outranks(W(p), W(q))
  <2>. SUFFICES ASSUME NEW q \in cand \ {p} PROVE Outranks(W(p), W(q))
    OBVIOUS
  <2>1. W(p)[1] = own(p) /\ W(p)[2] = dft(p) /\ W(q)[1] = own(q) /\ W(q)[2] = dft(q)
    BY DEF W
  <2>2. CASE own(p) > own(q)
    BY <2>1, <2>2 DEF Outranks
  <2>3. CASE own(p) = own(q) /\ dft(p) > dft(q)
    BY <2>1, <2>3 DEF Outranks
  <2>. QED  BY <1>1, <1>2, <1>3, <2>2, <2>3
<1>6. \A v, w \in Nat \X Nat \X Nat \X Nat : Outranks(v, w) => ~Outranks(w, v)
  BY DEF Outranks
<1>7. first(p)
  <2>1. ~Outranks(W(p), W(p))
    BY <1>1, <1>4, <1>6
  <2>. QED  BY <1>1, <1>4, <1>5, <1>6, <2>1
<1>8. \A q \in cand : first(q) => q = p
  BY <1>1, <1>5
<1>9. (CHOOSE q \in cand : first(q)) = p
  BY <1>1, <1>7, <1>8
<1>10. PlanQuoted(row.service, row.owner)' =
         IF cand = {} THEN Unset ELSE CHOOSE q \in cand : first(q)
  BY DEF PlanQuoted, Candidates, Weight, W, own, dft
<1>. QED  BY <1>1, <1>9, <1>10

\* A committed edit that met no other leaves its bands and its default as sent.
LEMMA RestoredBy ==
  ASSUME TariffsAssumption, TariffInv, NEW e \in Editing, Write(e), edits' # edits,
         NEW c, c = edit[e], ~c.met
  PROVE  /\ BandsOf(c.plan)' = c.input.bands
         /\ c.input.row.isDefault =>
              /\ OnlyDefault(c.plan, c.input.row)'
              /\ c.input.row.status = "active" => QuotedAs(c.input)'
<1>0. /\ edit[e].at = "write" /\ plan' \in [Plans -> Plan \cup {Unset}]
      /\ plan'[edit[e].plan] # Unset /\ plan'[edit[e].plan].row = edit[e].input.row
      /\ plan'[edit[e].plan].isDefault = edit[e].input.row.isDefault
      /\ \A q \in edit[e].demoted : plan'[q].isDefault = FALSE
      /\ \A q \in Plans \ ({edit[e].plan} \cup edit[e].demoted) : plan'[q] = plan[q]
      /\ rates' = (rates \ edit[e].cleared)
           \cup {[plan |-> edit[e].plan, band |-> b, no |-> edits'] : b \in edit[e].input.bands}
  BY Written
<1>1. /\ c.at = "write" /\ plan' \in [Plans -> Plan \cup {Unset}]
      /\ plan'[c.plan] # Unset /\ plan'[c.plan].row = c.input.row
      /\ plan'[c.plan].isDefault = c.input.row.isDefault
      /\ \A q \in c.demoted : plan'[q].isDefault = FALSE
      /\ \A q \in Plans \ ({c.plan} \cup c.demoted) : plan'[q] = plan[q]
      /\ rates' = (rates \ c.cleared)
           \cup {[plan |-> c.plan, band |-> b, no |-> edits'] : b \in c.input.bands}
  BY <1>0
<1>2. /\ c.plan \in Plans /\ c.input \in PlanInputs
      /\ c.cleared = Own(c) /\ (c.input.row.isDefault => c.demoted = RivalsOf(c))
  BY <1>1, EditFields DEF TariffInv, EditsFit, Undisturbed
<1>3. BandsOf(c.plan)' = c.input.bands
  <2>1. \A b \in BandsOf(c.plan)' : b \in c.input.bands
    BY <1>1, <1>2 DEF BandsOf, Own
  <2>2. ASSUME NEW b \in c.input.bands PROVE b \in BandsOf(c.plan)'
    <3>. DEFINE r == [plan |-> c.plan, band |-> b, no |-> edits']
    <3>1. r \in rates' /\ r.plan = c.plan /\ r.band = b
      BY <1>1
    <3>. HIDE DEF r
    <3>. QED  BY <3>1 DEF BandsOf
  <2>. QED  BY <2>1, <2>2
<1>4. ASSUME c.input.row.isDefault PROVE OnlyDefault(c.plan, c.input.row)'
  <2>. SUFFICES ASSUME NEW q \in Plans \ {c.plan},
                       plan'[q] # Unset, plan'[q].isDefault,
                       plan'[q].row.service = c.input.row.service,
                       plan'[q].row.owner = c.input.row.owner
                PROVE  FALSE
    BY DEF OnlyDefault
  <2>1. q \notin c.demoted
    BY <1>1
  <2>2. plan'[q] = plan[q]
    BY <1>1, <2>1
  <2>3. q \in RivalsOf(c)
    BY <2>2 DEF RivalsOf
  <2>. QED  BY <1>2, <1>4, <2>1, <2>3
<1>5. ASSUME c.input.row.isDefault, c.input.row.status = "active" PROVE QuotedAs(c.input)'
  <2>1. plan'[c.plan].isDefault = TRUE
    <3>1. c.input.row.isDefault \in BOOLEAN
      BY <1>2 DEF TariffsAssumption, PlanRow
    <3>. QED  BY <1>1, <1>5, <3>1
  <2>2. PlanQuoted(c.input.row.service, c.input.row.owner)' = c.plan
    BY <1>1, <1>2, <1>4, <1>5, <2>1, DefaultIsQuoted
  <2>3. c.plan # Unset
    BY <1>2 DEF TariffsAssumption
  <2>. QED  BY <1>3, <2>2, <2>3 DEF QuotedAs, Quote
<1>. QED  BY <1>3, <1>4, <1>5

\* Plans, rates and edits stay well-formed: one row for a range and bands for
\* every plan, however the statements of edits interleave.
THEOREM TariffsTyping == TariffsSpec => []TariffsTypeOK
<1>1. TariffsInit => TariffInv
  BY TariffInvInit, TariffsAssumption
<1>2. TariffInv /\ [TariffsNext]_tariffVars => TariffInv'
  BY TariffInvNext, TariffsAssumption
<1>3. TariffInv => TariffsTypeOK
  BY DEF TariffInv
<1>. QED  BY <1>1, <1>2, <1>3, PTL DEF TariffsSpec

\* An edit that overlaps no other puts right what overlapping ones have left:
\* its plan has the bands sent, is the only default if sent as one, and if
\* active is what is quoted.
THEOREM EditsPutRight == TariffsSpec => EditRestores
<1>. DEFINE Restores ==
       \A e \in Editors, p \in Plans, input \in PlanInputs :
         (Commits(e, p, input) /\ ~edit[e].met) =>
           /\ BandsOf(p)' = input.bands
           /\ input.row.isDefault =>
                /\ OnlyDefault(p, input.row)'
                /\ input.row.status = "active" => QuotedAs(input)'
<1>1. TariffsInit => TariffInv
  BY TariffInvInit, TariffsAssumption
<1>2. TariffInv /\ [TariffsNext]_tariffVars => TariffInv'
  BY TariffInvNext, TariffsAssumption
<1>3. TariffInv /\ [TariffsNext]_tariffVars => [Restores]_tariffVars
  <2>. SUFFICES ASSUME TariffInv, [TariffsNext]_tariffVars,
                       NEW e \in Editors, NEW p \in Plans, NEW input \in PlanInputs,
                       Commits(e, p, input), ~edit[e].met
                PROVE  /\ BandsOf(p)' = input.bands
                       /\ input.row.isDefault =>
                            /\ OnlyDefault(p, input.row)'
                            /\ input.row.status = "active" => QuotedAs(input)'
    OBVIOUS
  <2>1. /\ e \in Editing /\ edit[e] # Unset /\ edit'[e] = Unset /\ edits' # edits
        /\ edit[e].plan = p /\ edit[e].input = input
    BY DEF Commits, Editing
  <2>2. PICK f \in Editors : Write(f)
    BY <2>1 DEF TariffsNext, tariffVars, BeginEdit, BeginDemote, Demote, BeginClear, Clear, AbortEdit
  <2>3. f = e
    <3>1. edit' = [edit EXCEPT ![f] = Unset] /\ edit \in [Editors -> Edit \cup {Unset}]
      BY <2>2 DEF Write, TariffInv, TariffsTypeOK
    <3>. QED  BY <2>1, <3>1
  <2>. PICK c : c = edit[e]
    OBVIOUS
  <2>4. /\ BandsOf(c.plan)' = c.input.bands
        /\ c.input.row.isDefault =>
             /\ OnlyDefault(c.plan, c.input.row)'
             /\ c.input.row.status = "active" => QuotedAs(c.input)'
    BY <2>1, <2>2, <2>3, RestoredBy, TariffsAssumption
  <2>. QED  BY <2>1, <2>4
<1>. QED  BY <1>1, <1>2, <1>3, PTL DEF TariffsSpec, EditRestores
----------------------------------------------------------------------------
(* Least and first elements: what the code finds by sorting.               *)

\* There is a least among natural numbers.
LEMMA LeastNat ==
  ASSUME NEW T \in SUBSET Nat, T # {}
  PROVE  \E n \in T : \A m \in T : n <= m
<1>. DEFINE R == OpToRel(<, Nat)
<1>1. IsWellFoundedOn(R, Nat)
  BY NatLessThanWellFounded
<1>2. \A m, n \in Nat : m < n => <<m, n>> \in R
  BY DEF OpToRel
<1>. HIDE DEF R
<1>3. PICK n \in T : \A m \in T : <<m, n>> \notin R
  BY <1>1, WFMin
<1>4. ASSUME NEW m \in T PROVE n <= m
  <2>1. m \in Nat /\ n \in Nat /\ ~(m < n)
    BY <1>2, <1>3
  <2>. QED  BY <2>1
<1>. QED  BY <1>4

\* The least of a set.
LEMMA MinIn == ASSUME NEW T \in SUBSET Nat, T # {} PROVE Min(T) \in T
BY LeastNat DEF Min

\* Among finitely many one comes before all others, if of any two one comes
\* before the other and coming before is transitive.
LEMMA OneBeforeAll ==
  ASSUME NEW N \in Nat, NEW C \in SUBSET (1..N), NEW G, C # {},
         \A i, j \in C : i # j => <<i, j>> \in G \/ <<j, i>> \in G,
         \A i, j, m \in C : <<i, j>> \in G /\ <<j, m>> \in G => <<i, m>> \in G
  PROVE  \E i \in C : \A j \in C \ {i} : <<i, j>> \in G
<1>. DEFINE Part(n) == {i \in C : i <= n}
            Led(n) == \E i \in Part(n) : \A j \in Part(n) \ {i} : <<i, j>> \in G
            Bad == {n \in 0..N : Part(n) # {} /\ ~Led(n)}
<1>0. \A i \in C : i \in Nat /\ 1 <= i /\ i <= N
  OBVIOUS
<1>1. Part(N) = C
  BY <1>0
<1>2. Bad = {}
  <2>. SUFFICES ASSUME Bad # {} PROVE FALSE
    OBVIOUS
  <2>1. Bad \in SUBSET Nat
    OBVIOUS
  <2>. HIDE DEF Bad
  <2>2. PICK n \in Bad : \A m \in Bad : n <= m
    BY <2>1, LeastNat
  <2>3. n \in 0..N /\ Part(n) # {} /\ ~Led(n)
    BY DEF Bad
  <2>4. n # 0 /\ n - 1 \in 0..N /\ n - 1 \notin Bad
    <3>. HIDE DEF Led
    <3>. PICK i \in C : i <= n
      BY <2>3
    <3>1. n # 0
      BY <1>0, <2>3
    <3>. HIDE DEF Part
    <3>2. n - 1 \in 0..N /\ ~(n <= n - 1)
      BY <2>3, <3>1
    <3>. QED  BY <2>2, <3>1, <3>2
  <2>5. Part(n - 1) = {} \/ Led(n - 1)
    BY <2>4 DEF Bad
  <2>6. \A i \in C : i <= n <=> (i <= n - 1 \/ i = n)
    BY <2>3
  <2>7. CASE n \notin C
    <3>1. Part(n) = Part(n - 1)
      BY <2>6, <2>7
    <3>. QED  BY <2>3, <2>5, <3>1
  <2>8. CASE n \in C /\ Part(n - 1) = {}
    <3>1. Part(n) = {n}
      BY <2>3, <2>6, <2>8
    <3>. QED  BY <2>3, <3>1
  <2>9. CASE n \in C /\ Led(n - 1)
    <3>1. n \in Part(n) /\ \A j \in Part(n) : j = n \/ j \in Part(n - 1)
      BY <2>3, <2>6, <2>9
    <3>2. PICK i \in Part(n - 1) : \A j \in Part(n - 1) \ {i} : <<i, j>> \in G
      BY <2>9
    <3>3. i \in C /\ i # n /\ i \in Part(n) /\ i <= n - 1 /\ Part(n - 1) \subseteq C
      BY <2>3, <2>6, <3>2
    <3>. HIDE DEF Part
    <3>4. CASE <<i, n>> \in G
      BY <2>3, <3>1, <3>2, <3>3, <3>4
    <3>5. CASE <<n, i>> \in G
      <4>1. \A j \in Part(n - 1) : <<n, j>> \in G
        BY <2>9, <3>2, <3>3, <3>5
      <4>. QED  BY <2>3, <3>1, <4>1
    <3>. QED  BY <2>9, <3>3, <3>4, <3>5
  <2>. QED  BY <2>5, <2>7, <2>8, <2>9
<1>3. N \notin Bad /\ N \in 0..N
  BY <1>2
<1>. QED  BY <1>1, <1>3

\* Of the active regions that go by a name, the first by order and name is
\* found: whichever comes before all others, and none only if there is none.
LEMMA FirstMatching ==
  ASSUME RoutesAssumption, RoutesTypeOK, NEW name
  PROVE  LET matches == {r \in Known : region[r].active /\ name \in region[r].names}
         IN  /\ Matching(name) \in Regions \cup {Unset}
             /\ matches = {} => Matching(name) = Unset
             /\ matches # {} => /\ Matching(name) \in matches
                                /\ \A s \in matches : ~Before(s, Matching(name))
<1>. DEFINE matches == {r \in Known : region[r].active /\ name \in region[r].names}
<1>1. \A r \in matches : r \in Regions /\ region[r].sortOrder \in Nat /\ ByName[r] \in Nat
  BY DEF Known, RoutesTypeOK, RoutesAssumption
<1>2. ASSUME matches # {} PROVE \E r \in matches : \A s \in matches : ~Before(s, r)
  <2>. HIDE DEF matches
  <2>. DEFINE orders == {region[r].sortOrder : r \in matches}
  <2>1. PICK n \in orders : \A m \in orders : n <= m
    <3>1. orders \in SUBSET Nat /\ orders # {}
      BY <1>1, <1>2
    <3>. HIDE DEF orders
    <3>. QED  BY <3>1, LeastNat
  <2>. DEFINE least == {r \in matches : region[r].sortOrder = n}
              places == {ByName[r] : r \in least}
  <2>2. PICK p \in places : \A m \in places : p <= m
    <3>1. places \in SUBSET Nat /\ places # {}
      BY <1>1, <2>1
    <3>. HIDE DEF places
    <3>. QED  BY <3>1, LeastNat
  <2>3. PICK r \in least : ByName[r] = p
    OBVIOUS
  <2>4. ASSUME NEW s \in matches PROVE ~Before(s, r)
    <3>1. n <= region[s].sortOrder /\ n = region[r].sortOrder /\ r \in matches
      BY <2>1, <2>3
    <3>2. region[s].sortOrder = n => p <= ByName[s]
      BY <2>2
    <3>. QED  BY <1>1, <2>3, <3>1, <3>2 DEF Before
  <2>. QED  BY <2>3, <2>4
<1>3. Matching(name) = IF matches = {} THEN Unset
                       ELSE CHOOSE r \in matches : \A s \in matches : ~Before(s, r)
  BY DEF Matching
<1>. HIDE DEF matches
<1>. QED  BY <1>1, <1>2, <1>3 DEF matches

\* What is looked up for two names is a route, ...
LEMMA RouteTyped ==
  ASSUME RoutesAssumption, RoutesTypeOK, NEW from, NEW to
  PROVE  RouteRegions(from, to) \in Route
<1>1. Matching(from) \in Regions \cup {Unset} /\ Matching(to) \in Regions \cup {Unset}
  BY FirstMatching
<1>. QED  BY <1>1 DEF RouteRegions, Route

\* ... and so it is with its zone.
LEMMA ZoneTyped ==
  ASSUME RoutesTypeOK, NEW route \in Route
  PROVE  WithZone(route) \in Route
<1>1. zone \in [Regions \X Regions -> Zones \cup {Unset}]
  BY DEF RoutesTypeOK
<1>2. /\ route.origin \in Regions \cup {Unset}
      /\ route.destination \in Regions \cup {Unset}
  BY DEF Route
<1>. QED  BY <1>1, <1>2 DEF WithZone, Route

\* Of the rules that apply, the best by rank, priority and age is picked, and
\* none only if none applies.
LEMMA BestApplicable ==
  ASSUME SlaAssumption, SlaTypeOK, NEW service, NEW route
  PROVE  LET i == BestRule(service, route) IN
         /\ Applicable(service, route) = {} => i = 0
         /\ Applicable(service, route) # {} =>
              /\ i \in Applicable(service, route)
              /\ \A j \in Applicable(service, route) \ {i} :
                   \/ Rank(rules[i], route) > Rank(rules[j], route)
                   \/ /\ Rank(rules[i], route) = Rank(rules[j], route)
                      /\ \/ rules[i].priority > rules[j].priority
                         \/ rules[i].priority = rules[j].priority /\ i > j
<1>. DEFINE C == Applicable(service, route)
            rank(i) == Rank(rules[i], route)
            Ahead(i, j) ==
              \/ rank(i) > rank(j)
              \/ /\ rank(i) = rank(j)
                 /\ \/ rules[i].priority > rules[j].priority
                    \/ rules[i].priority = rules[j].priority /\ i > j
            G == {p \in C \X C : Ahead(p[1], p[2])}
<1>1. Len(rules) \in Nat /\ C \in SUBSET (1..Len(rules))
      /\ \A i \in 1..Len(rules) : rules[i] \in RuleInputs
  <2>1. rules \in Seq(RuleInputs)
    BY DEF SlaTypeOK
  <2>2. DOMAIN rules = 1..Len(rules) /\ Len(rules) \in Nat
    BY <2>1, LenProperties
  <2>. QED  BY <2>1, <2>2, ElementOfSeq DEF Applicable
<1>2. \A i \in C : rank(i) \in Nat /\ rules[i].priority \in Nat /\ i \in Nat
  <2>1. \A rule : Rank(rule, route) \in Nat
    BY DEF Rank
  <2>. QED  BY <1>1, <2>1 DEF SlaAssumption, RuleOK
<1>. HIDE DEF C, rank
<1>3. \A i, j \in C : <<i, j>> \in G <=> Ahead(i, j)
  OBVIOUS
<1>4. \A i, j \in C : i # j => Ahead(i, j) \/ Ahead(j, i)
  BY <1>2
<1>5. \A i, j, m \in C : Ahead(i, j) /\ Ahead(j, m) => Ahead(i, m)
  BY <1>2
<1>6. C # {} => \E i \in C : \A j \in C \ {i} : Ahead(i, j)
  <2>. SUFFICES ASSUME C # {} PROVE \E i \in C : \A j \in C \ {i} : Ahead(i, j)
    OBVIOUS
  <2>. HIDE DEF Ahead, G
  <2>1. \E i \in C : \A j \in C \ {i} : <<i, j>> \in G
    <3>1. \A i, j \in C : i # j => <<i, j>> \in G \/ <<j, i>> \in G
      BY <1>3, <1>4
    <3>2. \A i, j, m \in C : <<i, j>> \in G /\ <<j, m>> \in G => <<i, m>> \in G
      BY <1>3, <1>5
    <3>3. Len(rules) \in Nat /\ C \in SUBSET (1..Len(rules))
      BY <1>1
    <3>. QED  BY <3>1, <3>2, <3>3, OneBeforeAll
  <2>. QED  BY <1>3, <2>1
<1>7. BestRule(service, route) =
        IF C = {} THEN 0 ELSE CHOOSE i \in C : \A j \in C \ {i} : Ahead(i, j)
  BY DEF BestRule, C, rank
<1>8. C # {} => /\ BestRule(service, route) \in C
                /\ \A j \in C \ {BestRule(service, route)} : Ahead(BestRule(service, route), j)
  <2>. HIDE DEF Ahead
  <2>. QED  BY <1>6, <1>7
<1>. QED  BY <1>7, <1>8 DEF C, rank
----------------------------------------------------------------------------
(* Expected days.                                                          *)

\* An order that was promised for a day has that day or none; any other never
\* has a promise's, and one by a rule only if it is of a service.
DayFits(input, day) ==
  /\ day = Promise => input.promised
  /\ day.source = "SLA_RULE" => ~input.promised /\ input.service # Unset

DaysFit == \A o \in DOMAIN order : DayFits(order[o].input, order[o].due)

\* What a backfill has in hand is of orders that are there and of a service;
\* the one it is at has no promise if a rule is looked up, and a day that fits
\* it if one is written.
Handles(c) ==
  \/ c = NotRunning
  \/ /\ c.left \subseteq DOMAIN order
     /\ \A o \in c.left : order[o].input.service # Unset
     /\ c.at \in {"route", "zone", "rules", "write"} => c.left # {}
     /\ c.at \in {"route", "zone", "rules"} => ~order[Min(c.left)].input.promised
     /\ c.at \in {"zone", "rules"} => c.route \in Route
     /\ c.at = "write" => /\ ~c.dry /\ c.day # NoDay
                          /\ DayFits(order[Min(c.left)].input, c.day)

SlaRows ==
  /\ order \in Seq(Order) /\ Len(order) <= MaxOrders
  /\ rules \in Seq(RuleInputs) /\ Len(rules) <= MaxRules
  /\ backfill \in [Backfills -> Backfill]
  /\ failed \in 0..MaxFailed

DaysInv ==
  /\ RoutesTypeOK /\ SlaRows /\ DaysFit
  /\ \A b \in Backfills : Handles(backfill[b])

\* The kinds of days.
LEMMA DayKinds ==
  /\ NoDay \in Day /\ Promise \in Day /\ NoDay # Promise
  /\ \A input : DayFits(input, NoDay) /\ (input.promised => DayFits(input, Promise))
  /\ \A i \in 1..MaxRules, n \in 1..365 :
       LET day == [source |-> "SLA_RULE", rule |-> i, days |-> n]
       IN  /\ day \in Day /\ day # NoDay /\ day # Promise
           /\ \A input : ~input.promised /\ input.service # Unset => DayFits(input, day)
<1>1. NoDay.source = "NONE" /\ Promise.source = "PROMISE_DATE"
  BY DEF NoDay, Promise
<1>2. NoDay \in Day /\ Promise \in Day /\ NoDay # Promise
  BY <1>1 DEF Day
<1>3. ASSUME NEW i \in 1..MaxRules, NEW n \in 1..365
      PROVE  LET day == [source |-> "SLA_RULE", rule |-> i, days |-> n]
             IN  /\ day \in Day /\ day # NoDay /\ day # Promise
                 /\ \A input : ~input.promised /\ input.service # Unset => DayFits(input, day)
  <2>. DEFINE day == [source |-> "SLA_RULE", rule |-> i, days |-> n]
  <2>1. day.source = "SLA_RULE" /\ day \in Day
    BY DEF Day
  <2>. HIDE DEF day
  <2>2. day # NoDay /\ day # Promise
    BY <1>1, <2>1
  <2>. QED  BY <2>1, <2>2 DEF DayFits, day
<1>. QED  BY <1>1, <1>2, <1>3 DEF DayFits

\* The invariant gives the types.
LEMMA DaysTyped == ASSUME DaysInv PROVE RoutesTypeOK /\ SlaTypeOK
<1>1. ASSUME NEW b \in Backfills, backfill[b].at \in {"route", "zone", "rules", "write"}
      PROVE  /\ backfill[b].left \subseteq DOMAIN order /\ backfill[b].left # {}
             /\ (backfill[b].at = "write") => (~backfill[b].dry /\ backfill[b].day # NoDay)
  BY <1>1 DEF DaysInv, Handles, NotRunning
<1>. QED  BY <1>1 DEF DaysInv, SlaRows, SlaTypeOK

\* The day by the rules is no promise and fits an order without one.
LEMMA RuleDay ==
  ASSUME SlaAssumption, DaysInv, NEW service, NEW route
  PROVE  /\ DayByRule(service, route) \in Day
         /\ \A input : ~input.promised /\ input.service # Unset
                         => DayFits(input, DayByRule(service, route))
<1>. DEFINE i == BestRule(service, route)
<1>1. i = 0 \/ i \in Applicable(service, route)
  BY BestApplicable, DaysTyped
<1>2. rules \in Seq(RuleInputs) /\ Len(rules) <= MaxRules /\ MaxRules \in Nat
  BY DEF DaysInv, SlaRows, SlaAssumption
<1>3. CASE i = 0
  BY <1>3, DayKinds DEF DayByRule
<1>4. CASE i # 0
  <2>1. i \in 1..Len(rules) /\ Len(rules) \in Nat
    BY <1>1, <1>2, <1>4, LenProperties DEF Applicable
  <2>2. i \in 1..MaxRules
    BY <1>2, <2>1
  <2>3. rules[i].days \in 1..365
    BY <1>2, <2>1, ElementOfSeq DEF SlaAssumption, RuleOK
  <2>4. DayByRule(service, route) = [source |-> "SLA_RULE", rule |-> i, days |-> rules[i].days]
    BY <1>4 DEF DayByRule
  <2>. HIDE DEF i
  <2>. QED  BY <2>2, <2>3, <2>4, DayKinds
<1>. QED  BY <1>3, <1>4

\* The day an order is placed with fits it.
LEMMA SnapshotFits ==
  ASSUME SlaAssumption, DaysInv, NEW input \in OrderInputs
  PROVE  Snapshot(input) \in Day /\ DayFits(input, Snapshot(input))
<1>1. CASE input.promised \/ input.service = Unset
  BY <1>1, DayKinds DEF Snapshot
<1>2. CASE ~input.promised /\ input.service # Unset
  BY <1>2, RuleDay DEF Snapshot
<1>. QED  BY <1>1, <1>2

\* Orders that are added or get days leave what backfills have in hand.
LEMMA OrdersKeep ==
  ASSUME DaysInv, DOMAIN order \subseteq DOMAIN order',
         \A o \in DOMAIN order : order'[o].input = order[o].input
  PROVE  \A b \in Backfills : Handles(backfill[b]) => \A c : c = backfill[b] => Handles(c)'
<1>. SUFFICES ASSUME NEW b \in Backfills, Handles(backfill[b]), NEW c, c = backfill[b]
              PROVE  Handles(c)'
  OBVIOUS
<1>1. CASE c = NotRunning
  BY <1>1 DEF Handles
<1>2. CASE c # NotRunning
  <2>1. DOMAIN order \subseteq Nat
    BY LenProperties DEF DaysInv, SlaRows
  <2>2. c.left \subseteq DOMAIN order
    BY <1>2 DEF Handles
  <2>3. c.left # {} => Min(c.left) \in DOMAIN order
    BY <2>1, <2>2, MinIn
  <2>. QED  BY <1>2, <2>2, <2>3 DEF Handles
<1>. QED  BY <1>1, <1>2

\* A step of one backfill, as far as the backfills go.
LEMMA BackfillMoves ==
  ASSUME NEW b \in Backfills, NEW next \in Backfill,
         backfill \in [Backfills -> Backfill],
         backfill' = [backfill EXCEPT ![b] = next],
         \A c : c = next => Handles(c)',
         \A d \in Backfills \ {b} : \A c : c = backfill[d] => Handles(c)'
  PROVE  /\ backfill' \in [Backfills -> Backfill]
         /\ \A d \in Backfills : Handles(backfill[d])'
<1>1. backfill' \in [Backfills -> Backfill] /\ backfill'[b] = next
      /\ \A d \in Backfills \ {b} : backfill'[d] = backfill[d]
  OBVIOUS
<1>2. ASSUME NEW d \in Backfills PROVE Handles(backfill[d])'
  <2>. PICK c : c = backfill'[d]
    OBVIOUS
  <2>1. Handles(c)'
    BY <1>1
  <2>. QED  BY <2>1 DEF Handles
<1>. QED  BY <1>1, <1>2
\* A step of one backfill that changes no row.
LEMMA BackfillReads ==
  ASSUME DaysInv, NEW b \in Backfills, NEW next \in Backfill, Handles(next),
         backfill' = [backfill EXCEPT ![b] = next],
         UNCHANGED <<routesVars, order, rules>>, failed' \in 0..MaxFailed
  PROVE  DaysInv'
<1>1. order' = order /\ rules' = rules /\ UNCHANGED <<region, zone, saves>>
  BY DEF routesVars
<1>2. \A c : Handles(c) => Handles(c)'
  BY <1>1 DEF Handles
<1>3. /\ backfill' \in [Backfills -> Backfill]
      /\ \A d \in Backfills : Handles(backfill[d])'
  BY <1>2, BackfillMoves DEF DaysInv, SlaRows
<1>. QED  BY <1>1, <1>3 DEF DaysInv, SlaRows, DaysFit, RoutesTypeOK, Known

\* What a backfill that is not off has in hand.
LEMMA InHand ==
  ASSUME SlaAssumption, DaysInv, NEW b \in Backfills, backfill[b] # NotRunning,
         backfill[b].left # {}
  PROVE  /\ backfill[b] \in [at : {"next", "route", "zone", "rules", "write"},
                             left : SUBSET (1..MaxOrders),
                             route : Route \cup {Unset}, day : Day, dry : BOOLEAN]
         /\ backfill[b].left \subseteq DOMAIN order
         /\ Current(b) \in backfill[b].left /\ Current(b) \in DOMAIN order
         /\ order[Current(b)] \in Order /\ Input(b) \in OrderInputs
         /\ Input(b).service # Unset
<1>1. /\ backfill[b] \in [at : {"next", "route", "zone", "rules", "write"}, left : SUBSET (1..MaxOrders),
                          route : Route \cup {Unset}, day : Day, dry : BOOLEAN]
      /\ backfill[b].left \subseteq DOMAIN order
      /\ \A o \in backfill[b].left : order[o].input.service # Unset
  BY DEF DaysInv, SlaRows, Backfill, Handles
<1>2. DOMAIN order = 1..Len(order) /\ Len(order) \in Nat
      /\ \A o \in 1..Len(order) : order[o] \in Order
  BY LenProperties, ElementOfSeq DEF DaysInv, SlaRows
<1>3. Current(b) \in backfill[b].left
  BY <1>1, <1>2, MinIn DEF Current
<1>. QED  BY <1>1, <1>2, <1>3 DEF Input, Order

\* Going on to the next order, or to writing a day that fits.
LEMMA GoingOn ==
  ASSUME SlaAssumption, DaysInv, NEW b \in Backfills, backfill[b] # NotRunning,
         backfill[b].left # {}
  PROVE  /\ Onward(b) \in Backfill /\ Handles(Onward(b))
         /\ Onward(b).left \subseteq backfill[b].left /\ Onward(b).at = "next"
         /\ Onward(b) # NotRunning
         /\ \A day \in Day : DayFits(Input(b), day)
              => WithDay(b, day) \in Backfill /\ Handles(WithDay(b, day))
<1>. PICK c : c = backfill[b]
  OBVIOUS
<1>1. /\ c \in [at : {"next", "route", "zone", "rules", "write"}, left : SUBSET (1..MaxOrders),
                route : Route \cup {Unset}, day : Day, dry : BOOLEAN]
      /\ c.left \subseteq DOMAIN order /\ c.left # {}
      /\ \A o \in c.left : order[o].input.service # Unset
  BY InHand DEF DaysInv, Handles
<1>. DEFINE on == [c EXCEPT !.at = "next", !.left = @ \ {Current(b)}, !.route = Unset, !.day = NoDay]
<1>2. /\ on \in [at : {"next", "route", "zone", "rules", "write"}, left : SUBSET (1..MaxOrders),
                 route : Route \cup {Unset}, day : Day, dry : BOOLEAN]
      /\ on.at = "next" /\ on.left \subseteq c.left
  <2>1. NoDay \in Day /\ Unset \in Route \cup {Unset}
        /\ c.left \ {Current(b)} \in SUBSET (1..MaxOrders)
    BY <1>1, DayKinds
  <2>. QED  BY <1>1, <2>1
<1>3. Onward(b) = on
  BY DEF Onward
<1>. HIDE DEF on
<1>4. on \in Backfill /\ Handles(on) /\ on # NotRunning
  BY <1>1, <1>2 DEF Backfill, Handles, NotRunning
<1>5. ASSUME NEW day \in Day, DayFits(Input(b), day)
      PROVE  WithDay(b, day) \in Backfill /\ Handles(WithDay(b, day))
  <2>1. CASE day = NoDay \/ c.dry
    BY <1>3, <1>4, <2>1 DEF WithDay
  <2>2. CASE day # NoDay /\ ~c.dry
    <3>. DEFINE next == [c EXCEPT !.at = "write", !.route = Unset, !.day = day]
    <3>1. WithDay(b, day) = next
      BY <2>2 DEF WithDay
    <3>2. /\ next \in [at : {"next", "route", "zone", "rules", "write"}, left : SUBSET (1..MaxOrders),
                       route : Route \cup {Unset}, day : Day, dry : BOOLEAN]
          /\ next.at = "write" /\ next.left = c.left /\ next.day = day /\ next.dry = c.dry
      BY <1>1
    <3>. HIDE DEF next
    <3>3. next \in Backfill /\ Handles(next)
      BY <1>1, <1>5, <2>2, <3>2 DEF Backfill, Handles, Input, Current
    <3>. QED  BY <3>1, <3>3
  <2>. QED  BY <2>1, <2>2
<1>. QED  BY <1>2, <1>3, <1>4, <1>5

\* The steps of a backfill that only read, and its end.
LEMMA BackfillKeeps ==
  ASSUME SlaAssumption, RoutesAssumption, DaysInv, NEW b \in Backfills,
         UNCHANGED routesVars,
         \/ \E dry \in BOOLEAN : Start(b, dry)
         \/ Consider(b) \/ ReadRoute(b) \/ ReadZone(b) \/ ReadRules(b) \/ Report(b) \/ BackfillFails(b)
  PROVE  DaysInv'
<1>0. failed \in 0..MaxFailed /\ MaxFailed \in Nat /\ NotRunning.at = "off"
  BY DEF DaysInv, SlaRows, SlaAssumption, NotRunning
<1>1. CASE \E dry \in BOOLEAN : Start(b, dry)
  <2>. PICK dry \in BOOLEAN : Start(b, dry)
    BY <1>1
  <2>. DEFINE next == [at |-> "next", left |-> Taken, route |-> Unset, day |-> NoDay, dry |-> dry]
  <2>1. Taken \subseteq DOMAIN order /\ \A o \in Taken : order[o].input.service # Unset
    BY DEF Taken, Waiting
  <2>2. Taken \subseteq 1..MaxOrders
    <3>1. DOMAIN order = 1..Len(order) /\ Len(order) \in Nat /\ Len(order) <= MaxOrders
      BY LenProperties DEF DaysInv, SlaRows
    <3>. QED  BY <2>1, <3>1 DEF SlaAssumption
  <2>3. next \in Backfill
    BY <2>2, DayKinds DEF Backfill
  <2>4. next.at = "next" /\ next.left = Taken
    OBVIOUS
  <2>5. backfill' = [backfill EXCEPT ![b] = next] /\ UNCHANGED <<order, rules, failed>>
    BY DEF Start
  <2>. HIDE DEF next
  <2>6. Handles(next)
    BY <2>1, <2>4 DEF Handles
  <2>. QED  BY <1>0, <2>3, <2>5, <2>6, BackfillReads
<1>2. CASE Consider(b)
  <2>1. backfill[b] # NotRunning /\ backfill[b].left # {} /\ backfill[b].at = "next"
    BY <1>0, <1>2 DEF Consider
  <2>2. CASE Input(b).promised
    <3>1. backfill' = [backfill EXCEPT ![b] = WithDay(b, Promise)] /\ UNCHANGED <<order, rules, failed>>
      BY <1>2, <2>2 DEF Consider
    <3>2. WithDay(b, Promise) \in Backfill /\ Handles(WithDay(b, Promise))
      BY <2>1, <2>2, DayKinds, GoingOn
    <3>. QED  BY <1>0, <3>1, <3>2, BackfillReads
  <2>3. CASE ~Input(b).promised
    <3>. DEFINE next == [backfill[b] EXCEPT !.at = "route"]
    <3>1. backfill' = [backfill EXCEPT ![b] = next] /\ UNCHANGED <<order, rules, failed>>
      BY <1>2, <2>3 DEF Consider
    <3>2. /\ next \in [at : {"next", "route", "zone", "rules", "write"}, left : SUBSET (1..MaxOrders),
                       route : Route \cup {Unset}, day : Day, dry : BOOLEAN]
          /\ next.at = "route" /\ next.left = backfill[b].left
      BY <2>1, InHand
    <3>. HIDE DEF next
    <3>3. next \in Backfill /\ Handles(next)
      BY <2>1, <2>3, <3>2 DEF DaysInv, Backfill, Handles, Input, Current
    <3>. QED  BY <1>0, <3>1, <3>3, BackfillReads
  <2>. QED  BY <2>2, <2>3
<1>3. CASE ReadRoute(b)
  <2>. PICK route : route = RouteRegions(Input(b).from, Input(b).to)
    OBVIOUS
  <2>1. backfill[b] # NotRunning /\ backfill[b].at = "route" /\ Handles(backfill[b])
    BY <1>0, <1>3 DEF ReadRoute, DaysInv
  <2>2. backfill[b].left # {}
    BY <2>1 DEF Handles
  <2>3. route \in Route
    BY RouteTyped DEF DaysInv
  <2>. PICK at \in {"zone", "rules"} :
         /\ backfill' = [backfill EXCEPT ![b].at = at, ![b].route = route]
         /\ UNCHANGED <<order, rules, failed>>
    BY <1>3 DEF ReadRoute
  <2>. DEFINE next == [backfill[b] EXCEPT !.at = at, !.route = route]
  <2>4. backfill' = [backfill EXCEPT ![b] = next]
    OBVIOUS
  <2>5. /\ next \in [at : {"next", "route", "zone", "rules", "write"}, left : SUBSET (1..MaxOrders),
                     route : Route \cup {Unset}, day : Day, dry : BOOLEAN]
        /\ next.at = at /\ next.left = backfill[b].left /\ next.route = route
    BY <2>1, <2>2, <2>3, InHand
  <2>. HIDE DEF next
  <2>6. next \in Backfill /\ Handles(next)
    BY <2>1, <2>3, <2>5 DEF Backfill, Handles
  <2>. QED  BY <1>0, <2>4, <2>6, BackfillReads
<1>6. CASE ReadZone(b)
  <2>. PICK route : route = WithZone(backfill[b].route)
    OBVIOUS
  <2>1. backfill[b] # NotRunning /\ backfill[b].at = "zone" /\ Handles(backfill[b])
    BY <1>0, <1>6 DEF ReadZone, DaysInv
  <2>2. backfill[b].left # {} /\ backfill[b].route \in Route
    BY <2>1 DEF Handles
  <2>3. route \in Route
    BY <2>2, ZoneTyped DEF DaysInv
  <2>. DEFINE next == [backfill[b] EXCEPT !.at = "rules", !.route = route]
  <2>4. backfill' = [backfill EXCEPT ![b] = next] /\ UNCHANGED <<order, rules, failed>>
    BY <1>6 DEF ReadZone
  <2>5. /\ next \in [at : {"next", "route", "zone", "rules", "write"}, left : SUBSET (1..MaxOrders),
                     route : Route \cup {Unset}, day : Day, dry : BOOLEAN]
        /\ next.at = "rules" /\ next.left = backfill[b].left /\ next.route = route
    BY <2>1, <2>2, <2>3, InHand
  <2>. HIDE DEF next
  <2>6. next \in Backfill /\ Handles(next)
    BY <2>1, <2>3, <2>5 DEF Backfill, Handles
  <2>. QED  BY <1>0, <2>4, <2>6, BackfillReads
<1>4. CASE ReadRules(b)
  <2>. PICK day : day = DayByRule(Input(b).service, backfill[b].route)
    OBVIOUS
  <2>1. backfill[b] # NotRunning /\ backfill[b].at = "rules" /\ Handles(backfill[b])
    BY <1>0, <1>4 DEF ReadRules, DaysInv
  <2>2. backfill[b].left # {} /\ ~Input(b).promised
    BY <2>1 DEF Handles, Input, Current
  <2>3. Input(b).service # Unset
    BY <2>1, <2>2, InHand
  <2>4. day \in Day /\ DayFits(Input(b), day)
    BY <2>2, <2>3, RuleDay
  <2>5. WithDay(b, day) \in Backfill /\ Handles(WithDay(b, day))
    BY <2>1, <2>2, <2>4, GoingOn
  <2>6. backfill' = [backfill EXCEPT ![b] = WithDay(b, day)] /\ UNCHANGED <<order, rules, failed>>
    BY <1>4 DEF ReadRules
  <2>. QED  BY <1>0, <2>5, <2>6, BackfillReads
<1>5. CASE Report(b) \/ BackfillFails(b)
  <2>1. backfill' = [backfill EXCEPT ![b] = NotRunning] /\ UNCHANGED <<order, rules>>
    BY <1>5 DEF Report, BackfillFails
  <2>2. failed' \in 0..MaxFailed
    BY <1>0, <1>5 DEF Report, BackfillFails
  <2>3. NotRunning \in Backfill /\ Handles(NotRunning)
    BY DEF Backfill, Handles
  <2>. QED  BY <2>1, <2>2, <2>3, BackfillReads
<1>. QED  BY <1>1, <1>2, <1>3, <1>4, <1>5, <1>6

\* A field of one order changes, to what fits.
LEMMA OrderWritten ==
  ASSUME DaysInv, NEW o \in DOMAIN order, NEW row \in Order,
         order' = [order EXCEPT ![o] = row],
         row.input = order[o].input, DayFits(row.input, row.due)
  PROVE  /\ order' \in Seq(Order) /\ Len(order') <= MaxOrders /\ DOMAIN order' = DOMAIN order
         /\ \A p \in DOMAIN order : order'[p] = IF p = o THEN row ELSE order[p]
         /\ \A p \in DOMAIN order : order'[p].input = order[p].input
         /\ DaysFit'
<1>1. order \in Seq(Order) /\ Len(order) <= MaxOrders /\ DOMAIN order = 1..Len(order)
      /\ Len(order) \in Nat
  BY LenProperties DEF DaysInv, SlaRows
<1>2. /\ order' \in Seq(Order) /\ Len(order') = Len(order)
      /\ \A p \in 1..Len(order) : order'[p] = IF p = o THEN row ELSE order[p]
  BY <1>1, ExceptSeq
<1>3. DOMAIN order' = DOMAIN order
  BY <1>1, <1>2, LenProperties
<1>4. DaysFit'
  BY <1>1, <1>2, <1>3 DEF DaysInv, DaysFit, DayFits
<1>. QED  BY <1>1, <1>2, <1>3, <1>4

\* An order is placed.
LEMMA OrderPlaced ==
  ASSUME SlaAssumption, DaysInv, NEW input \in OrderInputs, PlaceOrder(input)
  PROVE  /\ order' \in Seq(Order) /\ Len(order') <= MaxOrders /\ DOMAIN order \subseteq DOMAIN order'
         /\ \A p \in DOMAIN order : order'[p] = order[p]
         /\ DaysFit'
<1>. PICK day : day = Snapshot(input)
  OBVIOUS
<1>. DEFINE row == [input |-> input, active |-> TRUE, due |-> day]
<1>1. order \in Seq(Order) /\ Len(order) < MaxOrders /\ MaxOrders \in Nat
      /\ DOMAIN order = 1..Len(order) /\ Len(order) \in Nat
  BY LenProperties DEF DaysInv, SlaRows, PlaceOrder, SlaAssumption
<1>2. day \in Day /\ DayFits(input, day)
  BY SnapshotFits
<1>3. row \in Order /\ row.input = input /\ row.due = day
  BY <1>2 DEF Order
<1>4. order' = Append(order, row)
  BY DEF PlaceOrder
<1>. HIDE DEF row
<1>5. /\ order' \in Seq(Order) /\ Len(order') = Len(order) + 1
      /\ \A p \in 1..Len(order) : order'[p] = order[p]
      /\ order'[Len(order) + 1] = row
  BY <1>1, <1>3, <1>4, AppendProperties
<1>6. DOMAIN order' = 1..(Len(order) + 1)
  BY <1>5, LenProperties
<1>7. \A p \in DOMAIN order' : p \in DOMAIN order \/ p = Len(order) + 1
  BY <1>1, <1>6
<1>8. ASSUME NEW p \in DOMAIN order' PROVE DayFits(order'[p].input, order'[p].due)
  <2>1. CASE p \in DOMAIN order
    BY <1>1, <1>5, <2>1 DEF DaysInv, DaysFit
  <2>2. CASE p = Len(order) + 1
    BY <1>2, <1>3, <1>5, <2>2
  <2>. QED  BY <1>7, <2>1, <2>2
<1>9. DaysFit'
  BY <1>8 DEF DaysFit, DayFits
<1>. QED  BY <1>1, <1>5, <1>6, <1>9

\* Orders are placed and finished, and backfills write days.
LEMMA OrdersNextKeeps ==
  ASSUME SlaAssumption, RoutesAssumption, DaysInv, OrdersNext, UNCHANGED routesVars
  PROVE  DaysInv'
<1>0. UNCHANGED <<region, zone, saves>> /\ RoutesTypeOK'
  BY DEF routesVars, DaysInv, RoutesTypeOK, Known
<1>1. ASSUME NEW input \in OrderInputs, PlaceOrder(input) PROVE DaysInv'
  <2>1. /\ order' \in Seq(Order) /\ Len(order') <= MaxOrders /\ DOMAIN order \subseteq DOMAIN order'
        /\ \A p \in DOMAIN order : order'[p] = order[p]
        /\ DaysFit'
    BY <1>1, OrderPlaced
  <2>2. UNCHANGED <<rules, backfill, failed>>
    BY <1>1 DEF PlaceOrder
  <2>3. \A b \in Backfills : Handles(backfill[b])'
    BY <2>1, <2>2, OrdersKeep DEF DaysInv, Handles
  <2>. QED  BY <1>0, <2>1, <2>2, <2>3 DEF DaysInv, SlaRows
<1>2. ASSUME NEW o \in DOMAIN order, FinishOrder(o) PROVE DaysInv'
  <2>. DEFINE row == [order[o] EXCEPT !.active = FALSE]
  <2>1. order[o] \in Order
    BY LenProperties, ElementOfSeq DEF DaysInv, SlaRows
  <2>2. row \in Order /\ row.input = order[o].input /\ row.due = order[o].due
    BY <2>1 DEF Order
  <2>3. order' = [order EXCEPT ![o] = row] /\ UNCHANGED <<rules, backfill, failed>>
    BY <1>2 DEF FinishOrder
  <2>. HIDE DEF row
  <2>4. DayFits(row.input, row.due)
    BY <2>2 DEF DaysInv, DaysFit
  <2>5. /\ order' \in Seq(Order) /\ Len(order') <= MaxOrders /\ DOMAIN order' = DOMAIN order
        /\ \A p \in DOMAIN order : order'[p].input = order[p].input
        /\ DaysFit'
    BY <2>2, <2>3, <2>4, OrderWritten
  <2>6. \A b \in Backfills : Handles(backfill[b])'
    BY <2>3, <2>5, OrdersKeep DEF DaysInv, Handles
  <2>. QED  BY <1>0, <2>3, <2>5, <2>6 DEF DaysInv, SlaRows
<1>3. ASSUME NEW b \in Backfills, WriteDay(b) PROVE DaysInv'
  <2>. PICK c : c = backfill[b]
    OBVIOUS
  <2>1. /\ c.at = "write" /\ c # NotRunning /\ Handles(c)
        /\ backfill' = [backfill EXCEPT ![b] = Onward(b)] /\ UNCHANGED <<rules, failed>>
        /\ order' = [order EXCEPT ![Current(b)].due = c.day]
    BY <1>3 DEF WriteDay, DaysInv, NotRunning
  <2>2. c.left # {} /\ DayFits(Input(b), c.day)
    BY <2>1 DEF Handles, Input, Current
  <2>3. /\ c.day \in Day /\ Current(b) \in DOMAIN order /\ order[Current(b)] \in Order
    BY <2>1, <2>2, InHand
  <2>. PICK o \in DOMAIN order : o = Current(b)
    BY <2>3
  <2>. DEFINE row == [order[o] EXCEPT !.due = c.day]
  <2>4. row \in Order /\ row.input = order[o].input /\ row.due = c.day
    BY <2>3 DEF Order
  <2>5. order' = [order EXCEPT ![o] = row]
    BY <2>1
  <2>. HIDE DEF row
  <2>6. /\ order' \in Seq(Order) /\ Len(order') <= MaxOrders /\ DOMAIN order' = DOMAIN order
        /\ \A p \in DOMAIN order : order'[p].input = order[p].input
        /\ DaysFit'
    BY <2>2, <2>4, <2>5, OrderWritten DEF Input
  <2>. PICK on : on = Onward(b)
    OBVIOUS
  <2>7. /\ on \in Backfill /\ on.left \subseteq c.left /\ on.at = "next"
        /\ c.left \subseteq DOMAIN order /\ \A p \in c.left : order[p].input.service # Unset
    BY <2>1, <2>2, GoingOn DEF Handles
  <2>8. Handles(on)'
    BY <2>6, <2>7 DEF Handles
  <2>9. \A d \in Backfills : \A h : h = backfill[d] => Handles(h)'
    BY <2>6, OrdersKeep DEF DaysInv
  <2>10. /\ backfill' \in [Backfills -> Backfill]
         /\ \A d \in Backfills : Handles(backfill[d])'
    <3>1. backfill \in [Backfills -> Backfill] /\ backfill' = [backfill EXCEPT ![b] = on]
      BY <2>1 DEF DaysInv, SlaRows
    <3>. QED  BY <2>7, <2>8, <2>9, <3>1, BackfillMoves
  <2>. QED  BY <1>0, <2>1, <2>6, <2>10 DEF DaysInv, SlaRows
<1>. QED  BY <1>1, <1>2, <1>3, BackfillKeeps DEF OrdersNext, BackfillStep

\* Rules, regions and zones are saved.
LEMMA SavesKeep ==
  ASSUME SlaAssumption, RoutesAssumption, DaysInv, RulesNext \/ (RoutesNext /\ UNCHANGED slaVars)
  PROVE  DaysInv'
<1>0. saves \in 0..MaxSaves /\ MaxSaves \in Nat
      /\ region \in [Regions -> RegionInputs \cup {Unset}]
      /\ zone \in [Regions \X Regions -> Zones \cup {Unset}]
      /\ \A pair \in Regions \X Regions : zone[pair] # Unset => pair \in Known \X Known
  BY DEF DaysInv, RoutesTypeOK, RoutesAssumption
<1>1. Save => saves' \in 0..MaxSaves
  BY <1>0 DEF Save
<1>2. CASE RulesNext
  <2>1. /\ UNCHANGED <<region, zone, order, backfill, failed>> /\ saves' \in 0..MaxSaves
    BY <1>1, <1>2 DEF RulesNext, CreateRule, UpdateRule
  <2>2. rules \in Seq(RuleInputs) /\ Len(rules) <= MaxRules /\ MaxRules \in Nat
        /\ Len(rules) \in Nat /\ DOMAIN rules = 1..Len(rules)
    BY LenProperties DEF DaysInv, SlaRows, SlaAssumption
  <2>. PICK rule \in RuleInputs : CreateRule(rule) \/ \E i \in DOMAIN rules : UpdateRule(i, rule)
    BY <1>2 DEF RulesNext
  <2>3. rules' \in Seq(RuleInputs) /\ Len(rules') <= MaxRules
    <3>1. CASE CreateRule(rule)
      BY <2>2, <3>1, AppendProperties DEF CreateRule
    <3>2. ASSUME NEW i \in DOMAIN rules, UpdateRule(i, rule)
          PROVE  rules' \in Seq(RuleInputs) /\ Len(rules') <= MaxRules
      BY <2>2, <3>2, ExceptSeq DEF UpdateRule
    <3>. QED  BY <3>1, <3>2
  <2>4. RoutesTypeOK'
    BY <1>0, <2>1 DEF RoutesTypeOK, Known
  <2>. QED  BY <2>1, <2>3, <2>4 DEF DaysInv, SlaRows, DaysFit, Handles
<1>3. CASE RoutesNext /\ UNCHANGED slaVars
  <2>1. RoutesTypeOK'
    <3>1. ASSUME NEW r \in Regions, SaveRegion(r) PROVE RoutesTypeOK'
      <4>. PICK row \in RegionInputs : region' = [region EXCEPT ![r] = row]
        BY <3>1 DEF SaveRegion
      <4>1. region' \in [Regions -> RegionInputs \cup {Unset}] /\ Known \subseteq Known'
        BY <1>0 DEF Known, RoutesAssumption
      <4>. QED  BY <1>0, <1>1, <3>1, <4>1 DEF SaveRegion, RoutesTypeOK
    <3>2. ASSUME NEW entries \in SUBSET (Regions \X Regions), NEW z \in Zones, SaveZones(entries, z)
          PROVE  RoutesTypeOK'
      <4>1. zone' = [pair \in Regions \X Regions |-> IF pair \in entries THEN z ELSE zone[pair]]
            /\ entries \subseteq Known \X Known /\ region' = region /\ saves' \in 0..MaxSaves
        BY <1>1, <3>2 DEF SaveZones
      <4>2. Known' = Known
        BY <4>1 DEF Known
      <4>. QED  BY <1>0, <4>1, <4>2 DEF RoutesTypeOK
    <3>. QED  BY <1>3, <3>1, <3>2 DEF RoutesNext
  <2>2. UNCHANGED <<order, rules, backfill, failed>>
    BY <1>3 DEF slaVars
  <2>. QED  BY <2>1, <2>2 DEF DaysInv, SlaRows, DaysFit, Handles
<1>. QED  BY <1>2, <1>3

\* Legacy orders have no day, nothing runs.
LEMMA DaysInvInit ==
  ASSUME SlaAssumption, RoutesAssumption, RoutesInit, SlaInit
  PROVE  DaysInv
<1>. PICK old \in Legacy : order = [i \in DOMAIN old |-> [input |-> old[i], active |-> TRUE, due |-> NoDay]]
  BY DEF SlaInit
<1>1. old \in Seq(OrderInputs) /\ Len(old) <= MaxOrders
  BY DEF SlaAssumption
<1>2. Len(old) \in Nat /\ DOMAIN old = 1..Len(old) /\ \A i \in 1..Len(old) : old[i] \in OrderInputs
  BY <1>1, LenProperties, ElementOfSeq
<1>3. \A i \in 1..Len(old) : order[i] \in Order /\ order[i].due = NoDay
  BY <1>2, DayKinds DEF Order
<1>4. order \in [1..Len(old) -> Order]
  BY <1>2, <1>3
<1>5. order \in Seq(Order) /\ Len(order) <= MaxOrders
  <2>1. order \in Seq(Order)
    BY <1>2, <1>4, SeqDef
  <2>2. Len(order) = Len(old)
    BY <1>2, <1>4, <2>1, LenProperties
  <2>. QED  BY <1>1, <2>1, <2>2
<1>6. DaysFit
  BY <1>2, <1>3, <1>4, DayKinds DEF DaysFit
<1>7. rules \in Seq(RuleInputs) /\ Len(rules) <= MaxRules
  <2>1. MaxRules \in Nat /\ 1 <= MaxRules
    BY DEF SlaAssumption
  <2>2. CASE rules = <<>>
    BY <2>1, <2>2, EmptySeq
  <2>3. CASE rules # <<>>
    <3>. PICK rule \in RuleInputs : rules = <<rule>>
      BY <2>3 DEF SlaInit
    <3>. QED  BY <2>1
  <2>. QED  BY <2>2, <2>3
<1>8. backfill \in [Backfills -> Backfill] /\ \A b \in Backfills : Handles(backfill[b])
  BY DEF SlaInit, Backfill, Handles
<1>9. failed \in 0..MaxFailed
  BY DEF SlaInit, SlaAssumption
<1>10. RoutesTypeOK
  BY DEF RoutesInit, RoutesTypeOK, RoutesAssumption
<1>. QED  BY <1>5, <1>6, <1>7, <1>8, <1>9, <1>10 DEF DaysInv, SlaRows

\* Every step.
LEMMA DaysInvNext ==
  ASSUME SlaAssumption, RoutesAssumption, DaysInv, [DaysNext]_<<routesVars, slaVars>>
  PROVE  DaysInv'
<1>1. CASE UNCHANGED <<routesVars, slaVars>>
  BY <1>1 DEF routesVars, slaVars, DaysInv, RoutesTypeOK, Known, SlaRows, DaysFit, Handles
<1>. QED  BY <1>1, OrdersNextKeeps, SavesKeep DEF DaysNext

\* What no step does to an order: change what it was placed with, or take away
\* a day it has.
DaysKept ==
  \A o \in DOMAIN order :
    /\ o \in DOMAIN order' /\ order'[o].input = order[o].input
    /\ order[o].due # NoDay => order'[o].due # NoDay
DaysStay == [][DaysKept]_slaVars

LEMMA DaysKeptNext ==
  ASSUME SlaAssumption, RoutesAssumption, DaysInv, [DaysNext]_<<routesVars, slaVars>>
  PROVE  DaysKept
<1>1. CASE order' = order
  BY <1>1 DEF DaysKept
<1>2. ASSUME NEW input \in OrderInputs, PlaceOrder(input) PROVE DaysKept
  BY <1>2, OrderPlaced DEF DaysKept
<1>3. ASSUME NEW o \in DOMAIN order, FinishOrder(o) PROVE DaysKept
  <2>. PICK row : row = [order[o] EXCEPT !.active = FALSE]
    OBVIOUS
  <2>1. order[o] \in Order /\ order \in Seq(Order) /\ DOMAIN order = 1..Len(order)
    BY LenProperties, ElementOfSeq DEF DaysInv, SlaRows
  <2>2. row \in Order /\ row.input = order[o].input /\ row.due = order[o].due
    BY <2>1 DEF Order
  <2>3. order' = [order EXCEPT ![o] = row]
    BY <1>3 DEF FinishOrder
  <2>4. DayFits(row.input, row.due)
    BY <2>2 DEF DaysInv, DaysFit
  <2>5. /\ DOMAIN order' = DOMAIN order
        /\ \A p \in DOMAIN order : order'[p] = IF p = o THEN row ELSE order[p]
    BY <2>2, <2>3, <2>4, OrderWritten
  <2>. QED  BY <2>2, <2>5 DEF DaysKept
<1>4. ASSUME NEW b \in Backfills, WriteDay(b) PROVE DaysKept
  <2>. PICK c : c = backfill[b]
    OBVIOUS
  <2>1. /\ c.at = "write" /\ c # NotRunning /\ Handles(c)
        /\ order' = [order EXCEPT ![Current(b)].due = c.day]
    BY <1>4 DEF WriteDay, DaysInv, NotRunning
  <2>2. c.left # {} /\ DayFits(Input(b), c.day) /\ c.day # NoDay
    BY <2>1 DEF Handles, Input, Current
  <2>3. /\ c.day \in Day /\ Current(b) \in DOMAIN order /\ order[Current(b)] \in Order
    BY <2>1, <2>2, InHand
  <2>. PICK o \in DOMAIN order : o = Current(b)
    BY <2>3
  <2>. PICK row : row = [order[o] EXCEPT !.due = c.day]
    OBVIOUS
  <2>4. row \in Order /\ row.input = order[o].input /\ row.due = c.day
    BY <2>3 DEF Order
  <2>5. order' = [order EXCEPT ![o] = row]
    BY <2>1
  <2>6. /\ DOMAIN order' = DOMAIN order
        /\ \A p \in DOMAIN order : order'[p] = IF p = o THEN row ELSE order[p]
    BY <2>2, <2>4, <2>5, OrderWritten DEF Input
  <2>. QED  BY <2>2, <2>4, <2>6 DEF DaysKept
<1>5. (\E b \in Backfills : \/ \E dry \in BOOLEAN : Start(b, dry)
                            \/ Consider(b) \/ ReadRoute(b) \/ ReadZone(b) \/ ReadRules(b) \/ Report(b)
                            \/ BackfillFails(b))
        => order' = order
  BY DEF Start, Consider, ReadRoute, ReadZone, ReadRules, Report, BackfillFails
<1>6. RulesNext \/ (RoutesNext /\ UNCHANGED slaVars) \/ UNCHANGED <<routesVars, slaVars>>
        => order' = order
  BY DEF RulesNext, CreateRule, UpdateRule, slaVars
<1>. QED  BY <1>1, <1>2, <1>3, <1>4, <1>5, <1>6 DEF DaysNext, OrdersNext, BackfillStep

\* Regions, zones, orders, rules and backfills stay well-formed while regions
\* and rules change under the backfills, and a backfill only comes to write
\* when it is for good and has a day.
THEOREM DaysTyping == DaysSpec => [](RoutesTypeOK /\ SlaTypeOK)
<1>1. RoutesInit /\ SlaInit => DaysInv
  BY DaysInvInit, SlaAssumption, RoutesAssumption
<1>2. DaysInv /\ [DaysNext]_<<routesVars, slaVars>> => DaysInv'
  BY DaysInvNext, SlaAssumption, RoutesAssumption
<1>3. DaysInv => RoutesTypeOK /\ SlaTypeOK
  BY DaysTyped
<1>. QED  BY <1>1, <1>2, <1>3, PTL DEF DaysSpec

\* An order has the day of a promise only if it was placed with one, and the
\* day of a rule only if it was not: however backfills overlap and whatever
\* changed since they read it, no rule takes the place of a promise.
THEOREM DaysFitOrders == DaysSpec => []DaysFit
<1>1. RoutesInit /\ SlaInit => DaysInv
  BY DaysInvInit, SlaAssumption, RoutesAssumption
<1>2. DaysInv /\ [DaysNext]_<<routesVars, slaVars>> => DaysInv'
  BY DaysInvNext, SlaAssumption, RoutesAssumption
<1>3. DaysInv => DaysFit
  BY DEF DaysInv
<1>. QED  BY <1>1, <1>2, <1>3, PTL DEF DaysSpec

\* A day once given is never taken away: not by a backfill that found none
\* with the rules or the regions it read, nor by one that fails.
THEOREM DaysNeverTaken == DaysSpec => DaysStay
<1>1. RoutesInit /\ SlaInit => DaysInv
  BY DaysInvInit, SlaAssumption, RoutesAssumption
<1>2. DaysInv /\ [DaysNext]_<<routesVars, slaVars>> => DaysInv'
  BY DaysInvNext, SlaAssumption, RoutesAssumption
<1>3. DaysInv /\ [DaysNext]_<<routesVars, slaVars>> => [DaysKept]_slaVars
  BY DaysKeptNext, SlaAssumption, RoutesAssumption
<1>. QED  BY <1>1, <1>2, <1>3, PTL DEF DaysSpec, DaysStay

----------------------------------------------------------------------------
(* The three together.                                                     *)

\* Each step of the back office is a step of one of its parts, and the others
\* rest.
LEMMA BackOfficeParts == BackOfficeSpec => AccountsSpec /\ TariffsSpec /\ DaysSpec
<1>1. BackOfficeInit => AccountsInit /\ TariffsInit /\ RoutesInit /\ SlaInit
  BY DEF BackOfficeInit
<1>2. [BackOfficeNext]_backOfficeVars
        => /\ [AccountsNext]_accountsVars /\ [TariffsNext]_tariffVars
           /\ [DaysNext]_<<routesVars, slaVars>>
  BY DEF BackOfficeNext, backOfficeVars
<1>. QED  BY <1>1, <1>2, PTL DEF BackOfficeSpec, AccountsSpec, TariffsSpec, DaysSpec

\* Whichever part moves, accounts, plans and days stay well-formed.
THEOREM BackOfficeTyping == BackOfficeSpec => []TypeOK
BY BackOfficeParts, AccountsTyping, TariffsTyping, DaysTyping, PTL DEF TypeOK
=============================================================================
