---------------------------- MODULE LessonReview ----------------------------
(***************************************************************************)
(* The teacher's review of one ready lesson: the document and the review   *)
(* columns of its lesson_jobs row (api/store.py), and the edits of         *)
(* api/lesson.py. Browser tabs send requests built from the last document  *)
(* they were shown; each request is one BEGIN IMMEDIATE transaction.       *)
(*                                                                         *)
(* Abstractions. What an activity says is a number: equal numbers, equal   *)
(* content. Activity types, notes, titles, answer keys and timestamps are  *)
(* left out, and with them the schema check that only looks at those. A    *)
(* rejected entry is an activity or a notice. `mark', `quality' and the    *)
(* provenance become the flags warn, flagged and generated; the composer   *)
(* marks every block with external options `warn', so warn stands for both.*)
(***************************************************************************)
EXTENDS Naturals, Sequences, FiniteSets, SequencesExt

CONSTANTS
  Tabs,         (* the teacher's browser tabs                               *)
  Budget,       (* how many blocks of each phase are visible                *)
  Published,    (* the documents a bake may publish                         *)
  FirstFresh,   (* block ids and contents from here on are new              *)
  MaxFresh,     (* bound: ids and contents                                  *)
  MaxRevision   (* bound: revisions                                         *)

Phases == 1 .. 3
FocusId == 0    (* FOCUS_STATUS_ACK_ID: no block has it *)

Block == [id : Nat \ {FocusId}, phase : Phases, content : Nat, warn : BOOLEAN,
          flagged : BOOLEAN, edited : BOOLEAN, generated : BOOLEAN]
Entry == [kind : {"activity", "notice"}, content : Nat]
Document == [blocks : Seq(Block), rejected : Seq(Entry), accepted : BOOLEAN,
             focusSupported : BOOLEAN]

VARIABLES
  exists,            (* is the row there?                                   *)
  doc,               (* lesson_json                                         *)
  acks,              (* warning_acknowledgements_json                       *)
  accepted,          (* the accepted column                                 *)
  acceptedRevision,  (* accepted_revision, NoRevision for NULL              *)
  revision,
  view,              (* what each tab shows: a revision and its document    *)
  fresh,             (* the next unused block id and content                *)
  seen               (* <<id, content>> of every acknowledgement (no column)*)

reviewVars == <<doc, acks, accepted, acceptedRevision, revision, fresh, seen>>
lessonVars == <<exists, reviewVars, view>>
-----------------------------------------------------------------------------
(* Documents. *)

NoRevision == 0
Ids(d) == {d.blocks[i].id : i \in DOMAIN d.blocks}
IndexOf(d, id) == CHOOSE i \in DOMAIN d.blocks : d.blocks[i].id = id

InPhaseOrder(d) ==
  \A i, j \in DOMAIN d.blocks : i < j => d.blocks[i].phase <= d.blocks[j].phase

(* Everything the document holds, in its plan or in the rejected tray. *)
Held(d) ==
  {<<"activity", d.blocks[i].content>> : i \in DOMAIN d.blocks}
    \cup {<<d.rejected[i].kind, d.rejected[i].content>> : i \in DOMAIN d.rejected}

Distinct(d) ==
  /\ Cardinality(Ids(d)) = Len(d.blocks)
  /\ Cardinality(Held(d)) = Len(d.blocks) + Len(d.rejected)

ASSUME BudgetAssumption == Budget \in [Phases -> Nat]
ASSUME ReviewBoundsAssumption ==
  FirstFresh \in Nat \ {FocusId} /\ MaxFresh \in Nat /\ MaxRevision \in Nat
ASSUME PublishedAssumption ==
  \A d \in Published :
    /\ d \in Document
    /\ ~d.accepted
    /\ Distinct(d)
    /\ InPhaseOrder(d)
    /\ \A i \in DOMAIN d.blocks :
         d.blocks[i].id < FirstFresh /\ d.blocks[i].content < FirstFresh
    /\ \A i \in DOMAIN d.rejected : d.rejected[i].content < FirstFresh

(* split_review_blocks: the first blocks of a phase are visible, as many as  *)
(* its budget; the others are in reserve.                                    *)
IsVisible(d, i) ==
  Cardinality({j \in 1 .. i - 1 : d.blocks[j].phase = d.blocks[i].phase})
    < Budget[d.blocks[i].phase]

(* block_needs_review *)
NeedsReview(b) == b.warn \/ b.flagged

(* _visible_needs_review_ids *)
RequiredIds(d) ==
  {d.blocks[i].id : i \in {i \in DOMAIN d.blocks : IsVisible(d, i) /\ NeedsReview(d.blocks[i])}}
    \cup IF d.focusSupported THEN {} ELSE {FocusId}

PhaseStart_AtEnd(blocks, phase) ==
  LET same == {i \in DOMAIN blocks : blocks[i].phase = phase}
  IN  IF same # {} THEN Min(same) ELSE Len(blocks) + 1

(* _phase_start_index: before the first block of the phase, or after the     *)
(* last block of a lower one.                                                *)
PhaseStart(blocks, phase) ==
  LET same == {i \in DOMAIN blocks : blocks[i].phase = phase}
      lower == {i \in DOMAIN blocks : blocks[i].phase < phase}
  IN  IF same # {} THEN Min(same) ELSE IF lower # {} THEN Max(lower) + 1 ELSE 1
-----------------------------------------------------------------------------
(* Requests. *)

LessonInit ==
  /\ exists = TRUE
  /\ doc \in Published
  /\ acks = {}
  /\ accepted = FALSE
  /\ acceptedRevision = NoRevision
  /\ revision = 1
  /\ view = [t \in Tabs |-> [revision |-> NoRevision, doc |-> doc, acks |-> {}]]
  /\ fresh = FirstFresh
  /\ seen = {}

(* GET lesson: the tab shows the document as it is now. *)
Show(t) ==
  /\ exists
  /\ view' = [view EXCEPT ![t] = [revision |-> revision, doc |-> doc, acks |-> acks]]
  /\ UNCHANGED <<exists, reviewVars>>

(* _require_expected_revision and _require_ready *)
UpToDate(t) == exists /\ view[t].revision = revision

Advance == revision < MaxRevision /\ revision' = revision + 1

(* _mutate_review_lesson: an accepted lesson must return to draft first. *)
Mutate(t, newDoc, newAcks) ==
  /\ UpToDate(t)
  /\ ~accepted
  /\ Advance
  /\ doc' = newDoc
  /\ acks' = newAcks
  /\ UNCHANGED <<exists, accepted, acceptedRevision, view, seen>>

(* One step up or down: past a neighbour of the same phase, else into the    *)
(* next phase without changing places.                                       *)
Swapped(blocks, i, n) == [blocks EXCEPT ![i] = blocks[n], ![n] = blocks[i]]
MayEnter(phase) == phase \in Phases

Move(t, id, up) ==
  LET blocks == doc.blocks
      i == IndexOf(doc, id)
      n == IF up THEN i - 1 ELSE i + 1
      phase == IF up THEN blocks[i].phase - 1 ELSE blocks[i].phase + 1
  IN  /\ IF n \in DOMAIN blocks /\ blocks[n].phase = blocks[i].phase
         THEN Mutate(t, [doc EXCEPT !.blocks = Swapped(blocks, i, n)], acks)
         ELSE /\ MayEnter(phase)
              /\ Mutate(t, [doc EXCEPT !.blocks[i].phase = phase], acks)
      /\ UNCHANGED fresh

Tray_Dropped(d, b) == d.rejected

(* The rejected tray after block b was removed from the plan. *)
Tray(d, b) == Append(d.rejected, [kind |-> "activity", content |-> b.content])

RemoveBlock(t, id) ==
  LET i == IndexOf(doc, id)
  IN  /\ Mutate(t, [doc EXCEPT !.blocks = RemoveAt(doc.blocks, i),
                               !.rejected = Tray(doc, doc.blocks[i])],
                   acks \ {id})
      /\ UNCHANGED fresh

(* A reserve block becomes the first of its phase. *)
IncludeReserve(t, id) ==
  LET i == IndexOf(doc, id)
      b == doc.blocks[i]
      others == RemoveAt(doc.blocks, i)
  IN  /\ ~IsVisible(doc, i)
      /\ Mutate(t, [doc EXCEPT !.blocks = InsertAt(others, PhaseStart(others, b.phase), b)], acks)
      /\ UNCHANGED fresh

AcksAfterEdit_Kept(b) == acks

(* An edit is never an acknowledgement of a warning. *)
AcksAfterEdit(b) == IF b.warn THEN acks \ {b.id} ELSE acks

(* The teacher's own content is not what the engine flagged. *)
ReplaceActivity(t, id) ==
  LET i == IndexOf(doc, id)
      b == doc.blocks[i]
  IN  /\ fresh < MaxFresh
      /\ Mutate(t, [doc EXCEPT !.blocks[i] =
                      [b EXCEPT !.content = fresh, !.edited = TRUE, !.flagged = FALSE]],
                   AcksAfterEdit(b))
      /\ fresh' = fresh + 1

TrayWithout_Kept(d, i) == d.rejected
TrayWithout(d, i) == RemoveAt(d.rejected, i)

(* A rejected activity returns as a fresh warning block; a notice does not.  *)
Restore(t, i, phase) ==
  LET back == [id |-> fresh, phase |-> phase, content |-> doc.rejected[i].content,
               warn |-> TRUE, flagged |-> FALSE, edited |-> FALSE, generated |-> FALSE]
  IN  /\ doc.rejected[i].kind = "activity"
      /\ fresh < MaxFresh
      /\ Mutate(t, [doc EXCEPT !.blocks = InsertAt(@, PhaseStart(@, phase), back),
                               !.rejected = TrayWithout(doc, i)], acks)
      /\ fresh' = fresh + 1

Acknowledged(id) ==
  {<<id, doc.blocks[i].content>> : i \in {i \in DOMAIN doc.blocks : doc.blocks[i].id = id}}

(* acknowledge_warning: allowed on an accepted lesson too; a repeated        *)
(* acknowledgement changes nothing.                                          *)
Acknowledge(t, id) ==
  /\ UpToDate(t)
  /\ id \in RequiredIds(doc) \ acks
  /\ Advance
  /\ acks' = acks \cup {id}
  /\ seen' = seen \cup Acknowledged(id)
  /\ UNCHANGED <<exists, doc, accepted, acceptedRevision, view, fresh>>

Accept_AtOldRevision(t) ==
  /\ UpToDate(t)
  /\ ~accepted
  /\ RequiredIds(doc) \subseteq acks
  /\ Advance
  /\ accepted' = TRUE
  /\ acceptedRevision' = revision
  /\ doc' = [doc EXCEPT !.accepted = TRUE]
  /\ UNCHANGED <<exists, acks, view, fresh, seen>>

(* accept_lesson *)
Accept(t) ==
  /\ UpToDate(t)
  /\ ~accepted
  /\ RequiredIds(doc) \subseteq acks
  /\ Advance
  /\ accepted' = TRUE
  /\ acceptedRevision' = revision + 1
  /\ doc' = [doc EXCEPT !.accepted = TRUE]
  /\ UNCHANGED <<exists, acks, view, fresh, seen>>

(* return_to_draft *)
ReturnToDraft(t) ==
  /\ UpToDate(t)
  /\ accepted
  /\ Advance
  /\ accepted' = FALSE
  /\ acceptedRevision' = NoRevision
  /\ doc' = [doc EXCEPT !.accepted = FALSE]
  /\ UNCHANGED <<exists, acks, view, fresh, seen>>

(* delete_lesson: needs no revision, and a ready row is always quiescent. *)
DeleteLesson ==
  /\ exists
  /\ exists' = FALSE
  /\ UNCHANGED <<reviewVars, view>>

Edit(t) ==
  \/ \E id \in Ids(doc) :
       \/ \E up \in BOOLEAN : Move(t, id, up)
       \/ RemoveBlock(t, id) \/ IncludeReserve(t, id) \/ ReplaceActivity(t, id)
  \/ \E i \in DOMAIN doc.rejected, phase \in Phases : Restore(t, i, phase)

Review(t) ==
  \/ Show(t) \/ Edit(t) \/ Accept(t) \/ ReturnToDraft(t)
  \/ \E id \in Ids(doc) \cup {FocusId} : Acknowledge(t, id)

ReviewNext == DeleteLesson \/ \E t \in Tabs : Review(t)

ReviewSpec == LessonInit /\ [][ReviewNext]_lessonVars
-----------------------------------------------------------------------------
(* Type correctness. *)

(* Every variable has its type; in particular no move takes a block out of   *)
(* the three phases (lesson.py:120-137).                                     *)
ReviewTypeOK ==
  /\ exists \in BOOLEAN
  /\ doc \in Document
  /\ acks \subseteq Nat
  /\ accepted \in BOOLEAN
  /\ acceptedRevision \in Nat
  /\ revision \in Nat \ {NoRevision}
  /\ view \in [Tabs -> [revision : Nat, doc : Document, acks : SUBSET Nat]]
  /\ fresh \in Nat
  /\ seen \subseteq Nat \X Nat

(* Safety. *)

(* An accepted lesson was reviewed as it stands: for every visible block     *)
(* with a warning or a flag, the teacher acknowledged exactly the content it *)
(* has now, whatever was moved, edited, restored or regenerated in between;  *)
(* and an unsupported focus was acknowledged (accept_lesson).                *)
AcceptedIsReviewed ==
  exists /\ accepted =>
    /\ \A i \in DOMAIN doc.blocks :
         LET b == doc.blocks[i]
         IN  IsVisible(doc, i) /\ NeedsReview(b) => b.id \in acks /\ <<b.id, b.content>> \in seen
    /\ doc.focusSupported \/ FocusId \in acks

(* The acceptance columns, the flag inside the document and the revision     *)
(* agree: an accepted lesson is at the revision that accepted it, although   *)
(* acknowledge_warning and the regeneration worker never look at the column  *)
(* before they raise the revision.                                           *)
AcceptanceIsCurrent ==
  /\ doc.accepted = accepted
  /\ acceptedRevision = IF accepted THEN revision ELSE NoRevision

(* A revision stands for one document with its acknowledgements: a tab whose *)
(* expected_revision is accepted shows what the lesson is, so no request     *)
(* acts on content its sender has not seen.                                  *)
RevisionIdentifiesDocument ==
  \A t \in Tabs : UpToDate(t) => view[t].doc = doc /\ view[t].acks = acks

(* Block ids stay unique and no activity is held twice, in the plan and in   *)
(* the tray: acknowledgements and regeneration jobs name blocks by id.       *)
SlotsAreDistinct == Distinct(doc)

(* Nothing the lesson holds disappears from it: a step keeps every activity  *)
(* and notice, except the one whose content it replaces by a new one.        *)
ActivitiesAreKept ==
  [][LET lost == Held(doc) \ Held(doc')
         new == Held(doc') \ Held(doc)
     IN  Cardinality(lost) = Cardinality(new) /\ Cardinality(lost) <= 1]_lessonVars

(* Moves, inclusions and restorations keep the plan in the order of its      *)
(* phases, although each computes its place from a list in which another     *)
(* edit may have emptied or split the phase (_phase_start_index).            *)
BlocksInPhaseOrder == InPhaseOrder(doc)
=============================================================================
