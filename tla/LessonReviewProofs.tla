-------------------------- MODULE LessonReviewProofs --------------------------
(***************************************************************************)
(* What the edits of LessonReview do to a document, and the invariant of   *)
(* the review that they and the replacements of Regeneration share.        *)
(***************************************************************************)
EXTENDS LessonReview, SequenceTheorems, FiniteSetTheorems, WellFoundedInduction, TLAPS
-----------------------------------------------------------------------------
(* Sequences. *)

(* The sequence without its i-th element. *)
LEMMA RemoveAtProperties ==
  ASSUME NEW S, NEW s \in Seq(S), NEW i \in 1 .. Len(s)
  PROVE  /\ RemoveAt(s, i) \in Seq(S)
         /\ Len(RemoveAt(s, i)) = Len(s) - 1
         /\ \A k \in 1 .. Len(s) - 1 : RemoveAt(s, i)[k] = IF k < i THEN s[k] ELSE s[k + 1]
<1> DEFINE a == SubSeq(s, 1, i - 1)
           b == SubSeq(s, i + 1, Len(s))
<1>1. Len(s) \in Nat /\ i \in Nat /\ i >= 1 /\ i <= Len(s)
  BY LenProperties
<1>2. \A k \in 1 .. i - 1 : s[k] \in S
  BY <1>1, ElementOfSeq
<1>3. /\ a \in Seq(S) /\ Len(a) = i - 1
      /\ \A k \in 1 .. i - 1 : a[k] = s[k]
  BY <1>1, <1>2, SubSeqProperties
<1>4. \A k \in i + 1 .. Len(s) : s[k] \in S
  BY <1>1, ElementOfSeq
<1>5. /\ b \in Seq(S) /\ Len(b) = Len(s) - i
      /\ \A k \in 1 .. Len(s) - i : b[k] = s[i + k]
  <2>1. /\ b \in Seq(S) /\ Len(b) = (IF i + 1 <= Len(s) THEN Len(s) - (i + 1) + 1 ELSE 0)
        /\ \A k \in 1 .. Len(s) - (i + 1) + 1 : b[k] = s[(i + 1) + k - 1]
    BY <1>1, <1>4, SubSeqProperties
  <2> HIDE DEF b
  <2> QED BY <1>1, <2>1
<1> HIDE DEF a, b
<1>6. /\ a \o b \in Seq(S) /\ Len(a \o b) = Len(s) - 1
      /\ \A k \in 1 .. Len(s) - 1 : (a \o b)[k] = IF k <= i - 1 THEN a[k] ELSE b[k - (i - 1)]
  <2>1. /\ a \o b \in Seq(S) /\ Len(a \o b) = Len(a) + Len(b)
        /\ \A k \in 1 .. Len(a) + Len(b) :
             (a \o b)[k] = IF k <= Len(a) THEN a[k] ELSE b[k - Len(a)]
    BY <1>3, <1>5, ConcatProperties
  <2>2. Len(a) + Len(b) = Len(s) - 1
    BY <1>1, <1>3, <1>5
  <2> QED BY <1>3, <2>1, <2>2
<1>7. ASSUME NEW k \in 1 .. Len(s) - 1
      PROVE  (a \o b)[k] = IF k < i THEN s[k] ELSE s[k + 1]
  <2>0. k \in Nat /\ (k < i \/ k >= i)
    BY <1>1
  <2>1. CASE k < i
    BY <1>1, <1>3, <1>6, <2>1
  <2>2. CASE k >= i
    <3>1. k - (i - 1) \in 1 .. Len(s) - i /\ i + (k - (i - 1)) = k + 1
      BY <1>1, <2>2
    <3>2. b[k - (i - 1)] = s[k + 1]
      BY <1>5, <3>1
    <3> QED BY <1>1, <1>6, <2>2, <3>2
  <2> QED BY <2>0, <2>1, <2>2
<1> QED BY <1>6, <1>7 DEF RemoveAt, a, b

(* The sequence with e before its i-th element. *)
LEMMA InsertAtProperties ==
  ASSUME NEW S, NEW s \in Seq(S), NEW i \in 1 .. Len(s) + 1, NEW e \in S
  PROVE  /\ InsertAt(s, i, e) \in Seq(S)
         /\ Len(InsertAt(s, i, e)) = Len(s) + 1
         /\ \A k \in 1 .. Len(s) + 1 :
              InsertAt(s, i, e)[k] = IF k < i THEN s[k] ELSE IF k = i THEN e ELSE s[k - 1]
<1> DEFINE a == SubSeq(s, 1, i - 1)
           b == SubSeq(s, i, Len(s))
           c == a \o <<e>>
<1>1. Len(s) \in Nat /\ i \in Nat /\ i >= 1 /\ i <= Len(s) + 1
  BY LenProperties
<1>2. \A k \in 1 .. i - 1 : s[k] \in S
  BY <1>1, ElementOfSeq
<1>3. /\ a \in Seq(S) /\ Len(a) = i - 1
      /\ \A k \in 1 .. i - 1 : a[k] = s[k]
  BY <1>1, <1>2, SubSeqProperties
<1>4. \A k \in i .. Len(s) : s[k] \in S
  BY <1>1, ElementOfSeq
<1>5. /\ b \in Seq(S) /\ Len(b) = Len(s) - i + 1
      /\ \A k \in 1 .. Len(s) - i + 1 : b[k] = s[i + k - 1]
  <2>1. /\ b \in Seq(S) /\ Len(b) = (IF i <= Len(s) THEN Len(s) - i + 1 ELSE 0)
        /\ \A k \in 1 .. Len(s) - i + 1 : b[k] = s[i + k - 1]
    BY <1>1, <1>4, SubSeqProperties
  <2> HIDE DEF b
  <2> QED BY <1>1, <2>1
<1>6. <<e>> \in Seq(S) /\ Len(<<e>>) = 1 /\ <<e>>[1] = e
  OBVIOUS
<1> HIDE DEF a, b
<1>7. /\ c \in Seq(S) /\ Len(c) = i
      /\ \A k \in 1 .. i : c[k] = IF k < i THEN s[k] ELSE e
  <2>1. /\ c \in Seq(S) /\ Len(c) = i
        /\ \A k \in 1 .. i : c[k] = IF k <= i - 1 THEN a[k] ELSE <<e>>[k - (i - 1)]
    BY <1>1, <1>3, <1>6, ConcatProperties
  <2> HIDE DEF c
  <2>2. ASSUME NEW k \in 1 .. i
        PROVE  c[k] = IF k < i THEN s[k] ELSE e
    <3>1. CASE k < i
      BY <1>1, <1>3, <2>1, <3>1
    <3>2. CASE k = i
      <4>1. k - (i - 1) = 1
        BY <1>1, <3>2
      <4> QED BY <1>1, <1>6, <2>1, <3>2, <4>1
    <3> QED BY <1>1, <3>1, <3>2
  <2> QED BY <2>1, <2>2
<1> HIDE DEF c
<1>8. /\ c \o b \in Seq(S) /\ Len(c \o b) = Len(s) + 1
      /\ \A k \in 1 .. Len(s) + 1 : (c \o b)[k] = IF k <= i THEN c[k] ELSE b[k - i]
  <2>1. /\ c \o b \in Seq(S) /\ Len(c \o b) = Len(c) + Len(b)
        /\ \A k \in 1 .. Len(c) + Len(b) :
             (c \o b)[k] = IF k <= Len(c) THEN c[k] ELSE b[k - Len(c)]
    BY <1>5, <1>7, ConcatProperties
  <2>2. Len(c) + Len(b) = Len(s) + 1
    BY <1>1, <1>5, <1>7
  <2> QED BY <1>7, <2>1, <2>2
<1>9. ASSUME NEW k \in 1 .. Len(s) + 1
      PROVE  (c \o b)[k] = IF k < i THEN s[k] ELSE IF k = i THEN e ELSE s[k - 1]
  <2>0. k \in Nat /\ (k <= i \/ k > i)
    BY <1>1
  <2>1. CASE k <= i
    BY <1>1, <1>7, <1>8, <2>1
  <2>2. CASE k > i
    <3>1. k - i \in 1 .. Len(s) - i + 1 /\ i + (k - i) - 1 = k - 1
      BY <1>1, <2>2
    <3>2. b[k - i] = s[k - 1]
      BY <1>5, <3>1
    <3> QED BY <1>1, <1>8, <2>2, <3>2
  <2> QED BY <2>0, <2>1, <2>2
<1>10. InsertAt(s, i, e) = c \o b
  BY DEF InsertAt, a, b, c
<1> QED BY <1>8, <1>9, <1>10

(* A set of numbers has a least element, and a greatest if it is bounded. *)
LEMMA LeastExists ==
  ASSUME NEW T \in SUBSET Nat, T # {}
  PROVE  Min(T) \in T /\ \A y \in T : Min(T) <= y
<1>1. PICK x \in T : \A y \in T : ~ (<<y, x>> \in OpToRel(<, Nat))
  BY NatLessThanWellFounded, WFMin
<1>2. \A y \in T : x <= y
  <2> SUFFICES ASSUME NEW y \in T PROVE x <= y
    OBVIOUS
  <2>1. ~ (y < x)
    BY <1>1 DEF OpToRel
  <2> QED BY <2>1
<1> QED BY <1>2 DEF Min

LEMMA GreatestExists ==
  ASSUME NEW n \in Nat, NEW T \in SUBSET (1 .. n), T # {}
  PROVE  Max(T) \in T /\ \A y \in T : y <= Max(T)
<1> DEFINE U == {n - x : x \in T}
<1>1. U \in SUBSET Nat /\ U # {}
  <2>1. \A x \in T : n - x \in Nat
    OBVIOUS
  <2> QED BY <2>1
<1>2. PICK u \in U : \A v \in U : u <= v
  BY <1>1, LeastExists
<1>3. PICK x \in T : u = n - x
  BY <1>2
<1>4. \A y \in T : y <= x
  <2> SUFFICES ASSUME NEW y \in T PROVE y <= x
    OBVIOUS
  <2>1. n - y \in U
    OBVIOUS
  <2>2. n - x <= n - y
    BY <1>2, <1>3, <2>1
  <2> QED BY <2>2
<1> QED BY <1>4 DEF Max
-----------------------------------------------------------------------------
(* Documents. *)

Blocks(d) == {d.blocks[i] : i \in DOMAIN d.blocks}

LEMMA DocumentFields ==
  ASSUME NEW d \in Document
  PROVE  /\ d.blocks \in Seq(Block) /\ d.rejected \in Seq(Entry)
         /\ d.accepted \in BOOLEAN /\ d.focusSupported \in BOOLEAN
         /\ Len(d.blocks) \in Nat /\ DOMAIN d.blocks = 1 .. Len(d.blocks)
         /\ Len(d.rejected) \in Nat /\ DOMAIN d.rejected = 1 .. Len(d.rejected)
         /\ \A i \in DOMAIN d.blocks : d.blocks[i] \in Block
         /\ \A i \in DOMAIN d.rejected : d.rejected[i] \in Entry
<1>1. d.blocks \in Seq(Block) /\ d.rejected \in Seq(Entry)
  BY DEF Document
<1> QED BY <1>1, LenProperties, ElementOfSeq DEF Document

LEMMA IndexOfFinds ==
  ASSUME NEW d \in Document, NEW id \in Ids(d)
  PROVE  /\ IndexOf(d, id) \in 1 .. Len(d.blocks)
         /\ d.blocks[IndexOf(d, id)] \in Block
         /\ d.blocks[IndexOf(d, id)].id = id
<1>1. \E i \in DOMAIN d.blocks : d.blocks[i].id = id
  BY DEF Ids
<1>2. IndexOf(d, id) \in DOMAIN d.blocks /\ d.blocks[IndexOf(d, id)].id = id
  BY <1>1 DEF IndexOf
<1> QED BY <1>2, DocumentFields

(* The new place of a block lies in the plan or right after it. *)
LEMMA PhaseStartFits ==
  ASSUME NEW blocks \in Seq(Block), NEW phase \in Nat
  PROVE  PhaseStart(blocks, phase) \in 1 .. Len(blocks) + 1
<1> DEFINE same == {i \in DOMAIN blocks : blocks[i].phase = phase}
           lower == {i \in DOMAIN blocks : blocks[i].phase < phase}
<1>1. Len(blocks) \in Nat /\ DOMAIN blocks = 1 .. Len(blocks)
  BY LenProperties
<1>2. same \in SUBSET Nat /\ same \subseteq 1 .. Len(blocks) /\ lower \in SUBSET (1 .. Len(blocks))
  BY <1>1
<1>3. PhaseStart(blocks, phase) =
        IF same # {} THEN Min(same) ELSE IF lower # {} THEN Max(lower) + 1 ELSE 1
  BY DEF PhaseStart
<1> HIDE DEF same, lower
<1>4. CASE same # {}
  <2>1. Min(same) \in 1 .. Len(blocks)
    BY <1>2, <1>4, LeastExists
  <2> QED BY <1>1, <1>3, <1>4, <2>1
<1>5. CASE same = {} /\ lower # {}
  <2>1. Max(lower) \in 1 .. Len(blocks)
    BY <1>1, <1>2, <1>5, GreatestExists
  <2> QED BY <1>1, <1>3, <1>5, <2>1
<1>6. CASE same = {} /\ lower = {}
  BY <1>1, <1>3, <1>6
<1> QED BY <1>4, <1>5, <1>6

(* Which ids must be acknowledged depends on the plan and the focus only. *)
LEMMA RequiredIdsOf ==
  ASSUME NEW d, NEW e, e.blocks = d.blocks, e.focusSupported = d.focusSupported
  PROVE  RequiredIds(e) = RequiredIds(d)
BY DEF RequiredIds, IsVisible
-----------------------------------------------------------------------------
(* The invariant of the review.                                             *)
(*                                                                          *)
(* AcceptedIsReviewed speaks of the moment, but what was acknowledged in    *)
(* the past must still be what the block says. So: an acknowledgement of a  *)
(* block that needs a review is one of its present content (AcksWereSeen),  *)
(* because an edit or a replacement that leaves the block in need of a      *)
(* review takes the acknowledgement away; and an accepted lesson has all    *)
(* the acknowledgements it needs (AcceptedIsCovered), which is also why no  *)
(* acknowledgement can raise the revision of an accepted lesson.            *)

IdsAreOld == FocusId < fresh /\ \A i \in DOMAIN doc.blocks : doc.blocks[i].id < fresh

AcksAreOld == \A id \in acks : id < fresh

AcksWereSeen ==
  \A i \in DOMAIN doc.blocks :
    NeedsReview(doc.blocks[i]) /\ doc.blocks[i].id \in acks
      => <<doc.blocks[i].id, doc.blocks[i].content>> \in seen

AcceptedIsCovered == accepted => RequiredIds(doc) \subseteq acks

ViewsAreOfThePast ==
  \A t \in Tabs :
    /\ view[t].revision <= revision
    /\ view[t].revision = revision => view[t].doc = doc /\ view[t].acks = acks

ReviewSafe ==
  /\ ReviewTypeOK
  /\ IdsAreOld
  /\ AcksAreOld
  /\ AcksWereSeen
  /\ AcceptedIsCovered
  /\ AcceptanceIsCurrent
  /\ ViewsAreOfThePast

LEMMA ReviewInitSafe == LessonInit => ReviewSafe
<1> SUFFICES ASSUME LessonInit PROVE ReviewSafe
  OBVIOUS
<1>1. /\ doc \in Document /\ ~doc.accepted
      /\ \A i \in DOMAIN doc.blocks : doc.blocks[i].id < FirstFresh
  BY PublishedAssumption DEF LessonInit
<1>2. FirstFresh \in Nat /\ FocusId < FirstFresh
  BY ReviewBoundsAssumption DEF FocusId
<1>3. view \in [Tabs -> [revision : Nat, doc : Document, acks : SUBSET Nat]]
  BY <1>1 DEF LessonInit, NoRevision
<1>4. ReviewTypeOK
  <2>1. exists \in BOOLEAN /\ accepted \in BOOLEAN /\ acceptedRevision \in Nat
    BY DEF LessonInit, NoRevision
  <2>2. acks \subseteq Nat /\ seen \subseteq Nat \X Nat
    BY DEF LessonInit
  <2>3. revision \in Nat \ {NoRevision} /\ fresh \in Nat
    BY <1>2 DEF LessonInit, NoRevision
  <2> QED BY <1>1, <1>3, <2>1, <2>2, <2>3 DEF ReviewTypeOK
<1>5. IdsAreOld /\ AcksAreOld
  BY <1>1, <1>2 DEF LessonInit, IdsAreOld, AcksAreOld
<1>6. AcksWereSeen /\ AcceptedIsCovered
  BY DEF LessonInit, AcksWereSeen, AcceptedIsCovered
<1>7. AcceptanceIsCurrent
  BY <1>1, DocumentFields DEF LessonInit, AcceptanceIsCurrent
<1>8. ViewsAreOfThePast
  BY DEF LessonInit, ViewsAreOfThePast, NoRevision
<1> QED BY <1>4, <1>5, <1>6, <1>7, <1>8 DEF ReviewSafe

(* A block of a rewritten plan: an old block, perhaps at another place or in *)
(* another phase; a restored one, with a new id; or one that keeps an old    *)
(* id and is acknowledged only if it needs no review.                        *)
Rewrites(b, newAcks, newFresh) ==
  \/ \E i \in DOMAIN doc.blocks :
       /\ b.id = doc.blocks[i].id
       /\ b.content = doc.blocks[i].content
       /\ NeedsReview(b) => NeedsReview(doc.blocks[i])
  \/ b.id = fresh /\ newFresh = fresh + 1
  \/ b.id \in Ids(doc) /\ (NeedsReview(b) => b.id \notin newAcks)

(* What an edit and a replacement have in common. *)
Rewritten ==
  /\ revision' = revision + 1
  /\ doc' \in Document
  /\ doc'.accepted = FALSE
  /\ accepted' = FALSE
  /\ acceptedRevision' = NoRevision
  /\ acks' \subseteq acks
  /\ fresh' \in {fresh, fresh + 1}
  /\ \A i \in DOMAIN doc'.blocks : Rewrites(doc'.blocks[i], acks', fresh')
  /\ UNCHANGED <<exists, view, seen>>

LEMMA RewrittenSafe ==
  ASSUME ReviewSafe, Rewritten
  PROVE  ReviewSafe'
<1>1. /\ fresh \in Nat /\ revision \in Nat \ {NoRevision}
      /\ view \in [Tabs -> [revision : Nat, doc : Document, acks : SUBSET Nat]]
  BY DEF ReviewSafe, ReviewTypeOK
<1>2. ReviewTypeOK'
  <2>1. exists' \in BOOLEAN /\ doc' \in Document /\ accepted' \in BOOLEAN /\ seen' \subseteq Nat \X Nat
    BY DEF Rewritten, ReviewSafe, ReviewTypeOK
  <2>2. acks' \subseteq Nat
    BY DEF Rewritten, ReviewSafe, ReviewTypeOK
  <2>3. acceptedRevision' \in Nat /\ revision' \in Nat \ {NoRevision} /\ fresh' \in Nat
    BY <1>1 DEF Rewritten, NoRevision
  <2>4. view' \in [Tabs -> [revision : Nat, doc : Document, acks : SUBSET Nat]]
    BY <1>1 DEF Rewritten
  <2> QED BY <2>1, <2>2, <2>3, <2>4 DEF ReviewTypeOK
<1>3. IdsAreOld'
  <2>1. fresh' \in Nat /\ fresh' >= fresh
    BY <1>1 DEF Rewritten
  <2>2. ASSUME NEW i \in DOMAIN doc'.blocks
        PROVE  doc'.blocks[i].id < fresh'
    <3> DEFINE b == doc'.blocks[i]
    <3>1. Rewrites(b, acks', fresh')
      BY <2>2 DEF Rewritten
    <3>2. \A id \in Ids(doc) : id < fresh
      BY DEF ReviewSafe, IdsAreOld, Ids
    <3>3. b.id \in Ids(doc) \/ (b.id = fresh /\ fresh' = fresh + 1)
      BY <3>1 DEF Rewrites, Ids
    <3>4. doc \in Document
      BY DEF ReviewSafe, ReviewTypeOK
    <3>5. \A id \in Ids(doc) : id \in Nat
      BY <3>4, DocumentFields DEF Ids, Block
    <3> HIDE DEF b
    <3>6. b.id < fresh'
      BY <1>1, <2>1, <3>2, <3>3, <3>5
    <3> QED BY <3>6 DEF b
  <2> QED BY <1>1, <2>1, <2>2 DEF IdsAreOld, ReviewSafe, FocusId
<1>4. AcksAreOld'
  BY <1>1 DEF Rewritten, ReviewSafe, ReviewTypeOK, AcksAreOld
<1>5. AcksWereSeen'
  <2> SUFFICES ASSUME NEW i \in DOMAIN doc'.blocks, NeedsReview(doc'.blocks[i]),
                      doc'.blocks[i].id \in acks'
               PROVE  <<doc'.blocks[i].id, doc'.blocks[i].content>> \in seen'
    BY DEF AcksWereSeen, NeedsReview
  <2>1. Rewrites(doc'.blocks[i], acks', fresh') /\ acks' \subseteq acks /\ seen' = seen
    BY DEF Rewritten
  <2>2. fresh \notin acks
    BY <1>1 DEF ReviewSafe, AcksAreOld
  <2>3. PICK k \in DOMAIN doc.blocks :
          /\ doc'.blocks[i].id = doc.blocks[k].id
          /\ doc'.blocks[i].content = doc.blocks[k].content
          /\ NeedsReview(doc.blocks[k])
    BY <2>1, <2>2 DEF Rewrites
  <2>4. <<doc.blocks[k].id, doc.blocks[k].content>> \in seen
    BY <2>1, <2>3 DEF ReviewSafe, AcksWereSeen
  <2> QED BY <2>1, <2>3, <2>4
<1>6. AcceptedIsCovered' /\ AcceptanceIsCurrent'
  BY DEF Rewritten, AcceptedIsCovered, AcceptanceIsCurrent
<1>7. ViewsAreOfThePast'
  BY <1>1 DEF Rewritten, ReviewSafe, ViewsAreOfThePast
<1> QED BY <1>2, <1>3, <1>4, <1>5, <1>6, <1>7 DEF ReviewSafe
-----------------------------------------------------------------------------
(* The edits. *)

LEMMA MutateRewrites ==
  ASSUME NEW t \in Tabs, NEW newDoc, NEW newAcks,
         ReviewSafe, Mutate(t, newDoc, newAcks), fresh' \in {fresh, fresh + 1},
         newDoc \in Document, newDoc.accepted = doc.accepted, newAcks \subseteq acks,
         \A i \in DOMAIN newDoc.blocks : Rewrites(newDoc.blocks[i], newAcks, fresh')
  PROVE  Rewritten
<1>1. ~accepted /\ accepted \in BOOLEAN /\ doc.accepted = accepted /\ acceptedRevision = NoRevision
  BY DEF Mutate, ReviewSafe, ReviewTypeOK, AcceptanceIsCurrent
<1>2. /\ doc' = newDoc /\ acks' = newAcks /\ revision' = revision + 1
      /\ UNCHANGED <<exists, accepted, acceptedRevision, view, seen>>
  BY DEF Mutate, Advance
<1> QED BY <1>1, <1>2 DEF Rewritten

(* Blocks that were there, whatever their place and phase. *)
LEMMA OldBlocksRewrite ==
  ASSUME NEW i \in DOMAIN doc.blocks, NEW b, NEW newAcks, NEW newFresh,
         b.id = doc.blocks[i].id, b.content = doc.blocks[i].content,
         b.warn = doc.blocks[i].warn, b.flagged = doc.blocks[i].flagged
  PROVE  Rewrites(b, newAcks, newFresh)
BY DEF Rewrites, NeedsReview

LEMMA MoveRewrites ==
  ASSUME NEW t \in Tabs, NEW id \in Ids(doc), NEW up \in BOOLEAN, ReviewSafe, Move(t, id, up)
  PROVE  Rewritten
<1> DEFINE blocks == doc.blocks
           i == IndexOf(doc, id)
           n == IF up THEN i - 1 ELSE i + 1
           phase == IF up THEN blocks[i].phase - 1 ELSE blocks[i].phase + 1
           swapped == [doc EXCEPT !.blocks = Swapped(blocks, i, n)]
           promoted == [doc EXCEPT !.blocks[i].phase = phase]
<1>1. doc \in Document
  BY DEF ReviewSafe, ReviewTypeOK
<1>2. i \in 1 .. Len(blocks) /\ blocks[i] \in Block /\ DOMAIN blocks = 1 .. Len(blocks)
      /\ blocks \in Seq(Block)
  BY <1>1, IndexOfFinds, DocumentFields
<1>3. fresh' = fresh
  BY DEF Move
<1>4. CASE n \in DOMAIN blocks /\ blocks[n].phase = blocks[i].phase
  <2>1. Mutate(t, swapped, acks)
    BY <1>4 DEF Move
  <2>2. Swapped(blocks, i, n) \in Seq(Block) /\ DOMAIN Swapped(blocks, i, n) = DOMAIN blocks
    <3>1. blocks[n] \in Block /\ n \in 1 .. Len(blocks)
      BY <1>1, <1>2, <1>4, DocumentFields
    <3>2. [blocks EXCEPT ![i] = blocks[n]] \in Seq(Block)
          /\ Len([blocks EXCEPT ![i] = blocks[n]]) = Len(blocks)
      BY <1>2, <3>1, ExceptSeq
    <3> QED BY <1>2, <3>1 DEF Swapped
  <2>3. swapped \in Document /\ swapped.accepted = doc.accepted
        /\ swapped.blocks = Swapped(blocks, i, n)
    BY <1>1, <2>2 DEF Document
  <2>4. ASSUME NEW k \in DOMAIN swapped.blocks
        PROVE  \E m \in DOMAIN blocks : swapped.blocks[k] = blocks[m]
    BY <1>2, <1>4, <2>2, <2>3 DEF Swapped
  <2> HIDE DEF i, n, phase, swapped, promoted
  <2>5. \A k \in DOMAIN swapped.blocks : Rewrites(swapped.blocks[k], acks, fresh')
    BY <2>4, OldBlocksRewrite
  <2> QED BY <1>3, <2>1, <2>3, <2>5, MutateRewrites
<1>5. CASE ~ (n \in DOMAIN blocks /\ blocks[n].phase = blocks[i].phase)
  <2>1. Mutate(t, promoted, acks) /\ phase \in Phases
    BY <1>5 DEF Move, MayEnter
  <2>2. [blocks[i] EXCEPT !.phase = phase] \in Block
    BY <1>2, <2>1 DEF Block
  <2>3. [blocks EXCEPT ![i].phase = phase] \in Seq(Block)
        /\ DOMAIN [blocks EXCEPT ![i].phase = phase] = DOMAIN blocks
    BY <1>2, <2>2
  <2>4. promoted \in Document /\ promoted.accepted = doc.accepted
        /\ promoted.blocks = [blocks EXCEPT ![i].phase = phase]
    BY <1>1, <2>3 DEF Document
  <2>5. ASSUME NEW k \in DOMAIN promoted.blocks
        PROVE  /\ k \in DOMAIN blocks
               /\ promoted.blocks[k].id = blocks[k].id
               /\ promoted.blocks[k].content = blocks[k].content
               /\ promoted.blocks[k].warn = blocks[k].warn
               /\ promoted.blocks[k].flagged = blocks[k].flagged
    <3>1. k \in DOMAIN blocks
      BY <2>3, <2>4
    <3>2. promoted.blocks[k] = IF k = i THEN [blocks[i] EXCEPT !.phase = phase] ELSE blocks[k]
      BY <2>4, <3>1
    <3> HIDE DEF i, phase, promoted
    <3> QED BY <1>2, <3>1, <3>2 DEF Block
  <2> HIDE DEF i, n, phase, swapped, promoted
  <2>6. \A k \in DOMAIN promoted.blocks : Rewrites(promoted.blocks[k], acks, fresh')
    BY <2>5, OldBlocksRewrite
  <2> QED BY <1>3, <2>1, <2>4, <2>6, MutateRewrites
<1> QED BY <1>4, <1>5

LEMMA RemoveRewrites ==
  ASSUME NEW t \in Tabs, NEW id \in Ids(doc), ReviewSafe, RemoveBlock(t, id)
  PROVE  Rewritten
<1> DEFINE blocks == doc.blocks
           i == IndexOf(doc, id)
           entry == [kind |-> "activity", content |-> blocks[i].content]
           newDoc == [doc EXCEPT !.blocks = RemoveAt(blocks, i),
                                 !.rejected = Append(doc.rejected, entry)]
<1>1. doc \in Document
  BY DEF ReviewSafe, ReviewTypeOK
<1>2. /\ i \in 1 .. Len(blocks) /\ blocks[i] \in Block /\ DOMAIN blocks = 1 .. Len(blocks)
      /\ blocks \in Seq(Block) /\ doc.rejected \in Seq(Entry) /\ Len(blocks) \in Nat
  BY <1>1, IndexOfFinds, DocumentFields
<1>3. fresh' = fresh /\ Mutate(t, newDoc, acks \ {id})
  BY DEF RemoveBlock, Tray
<1>4. entry \in Entry
  BY <1>2 DEF Entry, Block
<1>5. Append(doc.rejected, entry) \in Seq(Entry)
  BY <1>2, <1>4
<1>6. /\ RemoveAt(blocks, i) \in Seq(Block)
      /\ DOMAIN RemoveAt(blocks, i) = 1 .. Len(blocks) - 1
      /\ \A k \in 1 .. Len(blocks) - 1 :
           RemoveAt(blocks, i)[k] = IF k < i THEN blocks[k] ELSE blocks[k + 1]
  <2>1. /\ RemoveAt(blocks, i) \in Seq(Block) /\ Len(RemoveAt(blocks, i)) = Len(blocks) - 1
        /\ \A k \in 1 .. Len(blocks) - 1 :
             RemoveAt(blocks, i)[k] = IF k < i THEN blocks[k] ELSE blocks[k + 1]
    BY <1>2, RemoveAtProperties
  <2> QED BY <2>1, LenProperties
<1> HIDE DEF i, entry
<1>7. newDoc \in Document /\ newDoc.accepted = doc.accepted /\ newDoc.blocks = RemoveAt(blocks, i)
  BY <1>1, <1>5, <1>6 DEF Document
<1>8. ASSUME NEW k \in DOMAIN newDoc.blocks
      PROVE  \E m \in DOMAIN blocks : newDoc.blocks[k] = blocks[m]
  <2>1. k \in 1 .. Len(blocks) - 1 /\ newDoc.blocks[k] = RemoveAt(blocks, i)[k]
    BY <1>6, <1>7
  <2>2. k \in DOMAIN blocks /\ k + 1 \in DOMAIN blocks
    BY <1>2, <2>1
  <2> QED BY <1>6, <2>1, <2>2
<1> HIDE DEF newDoc
<1>9. \A k \in DOMAIN newDoc.blocks : Rewrites(newDoc.blocks[k], acks \ {id}, fresh')
  BY <1>8, OldBlocksRewrite
<1> QED BY <1>3, <1>7, <1>9, MutateRewrites

LEMMA IncludeRewrites ==
  ASSUME NEW t \in Tabs, NEW id \in Ids(doc), ReviewSafe, IncludeReserve(t, id)
  PROVE  Rewritten
<1> DEFINE blocks == doc.blocks
           i == IndexOf(doc, id)
           b == blocks[i]
           others == RemoveAt(blocks, i)
           at == PhaseStart(others, b.phase)
           newDoc == [doc EXCEPT !.blocks = InsertAt(others, at, b)]
<1>1. doc \in Document
  BY DEF ReviewSafe, ReviewTypeOK
<1>2. /\ i \in 1 .. Len(blocks) /\ b \in Block /\ DOMAIN blocks = 1 .. Len(blocks)
      /\ blocks \in Seq(Block) /\ Len(blocks) \in Nat
  BY <1>1, IndexOfFinds, DocumentFields
<1>3. fresh' = fresh /\ Mutate(t, newDoc, acks)
  BY DEF IncludeReserve
<1>4. /\ others \in Seq(Block) /\ Len(others) = Len(blocks) - 1
      /\ \A k \in 1 .. Len(blocks) - 1 :
           others[k] = IF k < i THEN blocks[k] ELSE blocks[k + 1]
  BY <1>2, RemoveAtProperties
<1>5. b.phase \in Nat
  BY <1>2 DEF Block, Phases
<1> HIDE DEF i, b, others
<1>6. at \in 1 .. Len(others) + 1
  BY <1>4, <1>5, PhaseStartFits
<1> HIDE DEF at
<1>7. /\ InsertAt(others, at, b) \in Seq(Block)
      /\ DOMAIN InsertAt(others, at, b) = 1 .. Len(others) + 1
      /\ \A k \in 1 .. Len(others) + 1 :
           InsertAt(others, at, b)[k] =
             IF k < at THEN others[k] ELSE IF k = at THEN b ELSE others[k - 1]
  BY <1>2, <1>4, <1>6, InsertAtProperties, LenProperties
<1>8. newDoc \in Document /\ newDoc.accepted = doc.accepted
      /\ newDoc.blocks = InsertAt(others, at, b)
  BY <1>1, <1>7 DEF Document
<1>9. \A k \in 1 .. Len(others) : \E m \in DOMAIN blocks : others[k] = blocks[m]
  BY <1>2, <1>4
<1>10. ASSUME NEW k \in DOMAIN newDoc.blocks
       PROVE  \E m \in DOMAIN blocks : newDoc.blocks[k] = blocks[m]
  <2>1. k \in 1 .. Len(others) + 1
    BY <1>7, <1>8
  <2>2. CASE k < at
    <3>1. k \in 1 .. Len(others) /\ newDoc.blocks[k] = others[k]
      BY <1>2, <1>4, <1>6, <1>7, <1>8, <2>1, <2>2
    <3> QED BY <1>9, <3>1
  <2>3. CASE k = at
    BY <1>2, <1>7, <1>8, <2>1, <2>3 DEF b
  <2>4. CASE k > at
    <3>1. k - 1 \in 1 .. Len(others) /\ newDoc.blocks[k] = others[k - 1]
      BY <1>2, <1>4, <1>6, <1>7, <1>8, <2>1, <2>4
    <3> QED BY <1>9, <3>1
  <2> QED BY <1>2, <1>4, <1>6, <2>1, <2>2, <2>3, <2>4
<1> HIDE DEF newDoc
<1>11. \A k \in DOMAIN newDoc.blocks : Rewrites(newDoc.blocks[k], acks, fresh')
  BY <1>10, OldBlocksRewrite
<1> QED BY <1>3, <1>8, <1>11, MutateRewrites

LEMMA ReplaceRewrites ==
  ASSUME NEW t \in Tabs, NEW id \in Ids(doc), ReviewSafe, ReplaceActivity(t, id)
  PROVE  Rewritten
<1> DEFINE blocks == doc.blocks
           i == IndexOf(doc, id)
           b == blocks[i]
           edited == [b EXCEPT !.content = fresh, !.edited = TRUE, !.flagged = FALSE]
           newDoc == [doc EXCEPT !.blocks[i] = edited]
           newAcks == AcksAfterEdit(b)
<1>1. doc \in Document /\ fresh \in Nat /\ acks \subseteq Nat
  BY DEF ReviewSafe, ReviewTypeOK
<1>2. /\ i \in 1 .. Len(blocks) /\ b \in Block /\ DOMAIN blocks = 1 .. Len(blocks)
      /\ blocks \in Seq(Block)
  BY <1>1, IndexOfFinds, DocumentFields
<1>3. fresh' = fresh + 1 /\ Mutate(t, newDoc, newAcks)
  BY DEF ReplaceActivity
<1>4. /\ edited \in Block /\ edited.id = b.id /\ edited.warn = b.warn /\ ~edited.flagged
  BY <1>1, <1>2 DEF Block
<1>5. b.warn => b.id \notin newAcks
  BY DEF AcksAfterEdit
<1>6. newAcks \subseteq acks
  BY DEF AcksAfterEdit
<1>7. Rewrites(edited, newAcks, fresh')
  <2>1. edited.id \in Ids(doc)
    BY <1>2, <1>4 DEF Ids
  <2>2. NeedsReview(edited) => edited.id \notin newAcks
    BY <1>4, <1>5 DEF NeedsReview
  <2> HIDE DEF edited, newAcks
  <2> QED BY <2>1, <2>2 DEF Rewrites
<1> HIDE DEF i, b, edited, newAcks
<1>8. [blocks EXCEPT ![i] = edited] \in Seq(Block)
      /\ DOMAIN [blocks EXCEPT ![i] = edited] = DOMAIN blocks
  BY <1>2, <1>4
<1>9. newDoc \in Document /\ newDoc.accepted = doc.accepted
      /\ newDoc.blocks = [blocks EXCEPT ![i] = edited]
  BY <1>1, <1>8 DEF Document
<1>10. ASSUME NEW k \in DOMAIN newDoc.blocks
       PROVE  k \in DOMAIN blocks /\ newDoc.blocks[k] = IF k = i THEN edited ELSE blocks[k]
  BY <1>8, <1>9
<1> HIDE DEF newDoc
<1>11. \A k \in DOMAIN newDoc.blocks : Rewrites(newDoc.blocks[k], newAcks, fresh')
  BY <1>7, <1>10, OldBlocksRewrite
<1> QED BY <1>3, <1>6, <1>9, <1>11, MutateRewrites

LEMMA RestoreRewrites ==
  ASSUME NEW t \in Tabs, NEW i \in DOMAIN doc.rejected, NEW phase \in Phases,
         ReviewSafe, Restore(t, i, phase)
  PROVE  Rewritten
<1> DEFINE blocks == doc.blocks
           back == [id |-> fresh, phase |-> phase, content |-> doc.rejected[i].content,
                    warn |-> TRUE, flagged |-> FALSE, edited |-> FALSE, generated |-> FALSE]
           at == PhaseStart(blocks, phase)
           newDoc == [doc EXCEPT !.blocks = InsertAt(blocks, at, back),
                                 !.rejected = RemoveAt(doc.rejected, i)]
<1>1. doc \in Document /\ fresh \in Nat /\ fresh # FocusId
  BY DEF ReviewSafe, ReviewTypeOK, IdsAreOld, FocusId
<1>2. /\ blocks \in Seq(Block) /\ DOMAIN blocks = 1 .. Len(blocks) /\ Len(blocks) \in Nat
      /\ doc.rejected \in Seq(Entry) /\ i \in 1 .. Len(doc.rejected) /\ doc.rejected[i] \in Entry
  BY <1>1, DocumentFields
<1>3. fresh' = fresh + 1 /\ Mutate(t, newDoc, acks)
  <2>1. [doc EXCEPT !.blocks = InsertAt(@, PhaseStart(@, phase), back),
                    !.rejected = TrayWithout(doc, i)] = newDoc
    BY <1>1 DEF TrayWithout, Document
  <2> QED BY <2>1 DEF Restore
<1>4. back \in Block /\ back.id = fresh
  BY <1>1, <1>2 DEF Block, Entry
<1>5. Rewrites(back, acks, fresh')
  BY <1>3, <1>4 DEF Rewrites
<1>6. RemoveAt(doc.rejected, i) \in Seq(Entry)
  BY <1>2, RemoveAtProperties
<1>7. at \in 1 .. Len(blocks) + 1
  <2>1. phase \in Nat
    BY DEF Phases
  <2> QED BY <1>2, <2>1, PhaseStartFits
<1> HIDE DEF at, back
<1>8. /\ InsertAt(blocks, at, back) \in Seq(Block)
      /\ DOMAIN InsertAt(blocks, at, back) = 1 .. Len(blocks) + 1
      /\ \A k \in 1 .. Len(blocks) + 1 :
           InsertAt(blocks, at, back)[k] =
             IF k < at THEN blocks[k] ELSE IF k = at THEN back ELSE blocks[k - 1]
  <2>1. /\ InsertAt(blocks, at, back) \in Seq(Block)
        /\ Len(InsertAt(blocks, at, back)) = Len(blocks) + 1
        /\ \A k \in 1 .. Len(blocks) + 1 :
             InsertAt(blocks, at, back)[k] =
               IF k < at THEN blocks[k] ELSE IF k = at THEN back ELSE blocks[k - 1]
    <3>1. blocks \in Seq(Block) /\ at \in 1 .. Len(blocks) + 1 /\ back \in Block
      BY <1>2, <1>4, <1>7
    <3> HIDE DEF blocks
    <3> QED BY <3>1, InsertAtProperties
  <2> QED BY <2>1, LenProperties
<1>9. newDoc \in Document /\ newDoc.accepted = doc.accepted
      /\ newDoc.blocks = InsertAt(blocks, at, back)
  BY <1>1, <1>6, <1>8 DEF Document
<1>10. ASSUME NEW k \in DOMAIN newDoc.blocks
       PROVE  newDoc.blocks[k] = back \/ \E m \in DOMAIN blocks : newDoc.blocks[k] = blocks[m]
  <2>1. k \in 1 .. Len(blocks) + 1 /\ newDoc.blocks[k] = InsertAt(blocks, at, back)[k]
    BY <1>8, <1>9
  <2>2. CASE k < at
    <3>1. k \in DOMAIN blocks
      BY <1>2, <1>7, <2>1, <2>2
    <3> QED BY <1>8, <2>1, <2>2, <3>1
  <2>3. CASE k = at
    BY <1>8, <2>1, <2>3
  <2>4. CASE k > at
    <3>1. k - 1 \in DOMAIN blocks /\ ~ (k < at) /\ k # at
      BY <1>2, <1>7, <2>1, <2>4
    <3> QED BY <1>8, <2>1, <3>1
  <2> QED BY <1>2, <1>7, <2>1, <2>2, <2>3, <2>4
<1> HIDE DEF newDoc
<1>11. \A k \in DOMAIN newDoc.blocks : Rewrites(newDoc.blocks[k], acks, fresh')
  BY <1>5, <1>10, OldBlocksRewrite
<1> QED BY <1>3, <1>9, <1>11, MutateRewrites

LEMMA EditRewrites ==
  ASSUME NEW t \in Tabs, ReviewSafe, Edit(t)
  PROVE  Rewritten
BY MoveRewrites, RemoveRewrites, IncludeRewrites, ReplaceRewrites, RestoreRewrites DEF Edit
-----------------------------------------------------------------------------
(* The other requests. *)

LEMMA ShowSafe ==
  ASSUME NEW t \in Tabs, ReviewSafe, Show(t)
  PROVE  ReviewSafe'
<1>1. /\ view' = [view EXCEPT ![t] = [revision |-> revision, doc |-> doc, acks |-> acks]]
      /\ UNCHANGED <<exists, doc, acks, accepted, acceptedRevision, revision, fresh, seen>>
  BY DEF Show, reviewVars
<1>2. /\ view \in [Tabs -> [revision : Nat, doc : Document, acks : SUBSET Nat]]
      /\ revision \in Nat /\ doc \in Document /\ acks \in SUBSET Nat
  BY DEF ReviewSafe, ReviewTypeOK
<1>3. view' \in [Tabs -> [revision : Nat, doc : Document, acks : SUBSET Nat]]
  BY <1>1, <1>2
<1>4. ReviewTypeOK'
  BY <1>1, <1>3 DEF ReviewSafe, ReviewTypeOK
<1>5. (IdsAreOld /\ AcksAreOld)'
  BY <1>1 DEF ReviewSafe, IdsAreOld, AcksAreOld
<1>6. AcksWereSeen'
  BY <1>1 DEF ReviewSafe, AcksWereSeen, NeedsReview
<1>7. (AcceptedIsCovered /\ AcceptanceIsCurrent)'
  BY <1>1, RequiredIdsOf DEF ReviewSafe, AcceptedIsCovered, AcceptanceIsCurrent
<1>8. ViewsAreOfThePast'
  BY <1>1, <1>2 DEF ReviewSafe, ViewsAreOfThePast
<1> QED BY <1>4, <1>5, <1>6, <1>7, <1>8 DEF ReviewSafe

LEMMA RequiredIdsAreIds ==
  ASSUME NEW d
  PROVE  RequiredIds(d) \subseteq Ids(d) \cup {FocusId}
BY DEF RequiredIds, Ids

LEMMA AcknowledgeSafe ==
  ASSUME NEW t \in Tabs, NEW id, ReviewSafe, Acknowledge(t, id)
  PROVE  ReviewSafe'
<1>1. /\ id \in RequiredIds(doc) /\ id \notin acks
      /\ revision' = revision + 1 /\ acks' = acks \cup {id}
      /\ seen' = seen \cup Acknowledged(id)
      /\ UNCHANGED <<exists, doc, accepted, acceptedRevision, view, fresh>>
  BY DEF Acknowledge, Advance
<1>2. /\ doc \in Document /\ revision \in Nat /\ revision # NoRevision /\ acks \subseteq Nat
      /\ fresh \in Nat /\ seen \subseteq Nat \X Nat
      /\ view \in [Tabs -> [revision : Nat, doc : Document, acks : SUBSET Nat]]
  BY DEF ReviewSafe, ReviewTypeOK
<1>3. accepted = FALSE
  BY <1>1 DEF ReviewSafe, ReviewTypeOK, AcceptedIsCovered
<1>4. /\ \A i \in DOMAIN doc.blocks : doc.blocks[i] \in Block
      /\ id \in Ids(doc) \cup {FocusId}
  BY <1>1, <1>2, DocumentFields, RequiredIdsAreIds
<1>5. id \in Nat /\ id < fresh
  BY <1>4 DEF Ids, Block, ReviewSafe, IdsAreOld, FocusId
<1>6. ReviewTypeOK'
  <2>1. Acknowledged(id) \subseteq Nat \X Nat
    BY <1>4, <1>5 DEF Acknowledged, Block
  <2>2. acks' \subseteq Nat /\ seen' \subseteq Nat \X Nat
    BY <1>1, <1>2, <1>5, <2>1
  <2>3. revision' \in Nat \ {NoRevision}
    BY <1>1, <1>2 DEF NoRevision
  <2> QED BY <1>1, <2>2, <2>3 DEF ReviewSafe, ReviewTypeOK
<1>7. (IdsAreOld /\ AcksAreOld)'
  BY <1>1, <1>5 DEF ReviewSafe, IdsAreOld, AcksAreOld
<1>8. AcksWereSeen'
  <2> SUFFICES ASSUME NEW i \in DOMAIN doc.blocks, NeedsReview(doc.blocks[i]),
                      doc.blocks[i].id \in acks'
               PROVE  <<doc.blocks[i].id, doc.blocks[i].content>> \in seen'
    BY <1>1 DEF AcksWereSeen, NeedsReview
  <2>1. CASE doc.blocks[i].id \in acks
    BY <1>1, <2>1 DEF ReviewSafe, AcksWereSeen
  <2>2. CASE doc.blocks[i].id = id
    <3>1. <<doc.blocks[i].id, doc.blocks[i].content>> \in Acknowledged(id)
      BY <2>2 DEF Acknowledged
    <3> QED BY <1>1, <3>1
  <2> QED BY <1>1, <2>1, <2>2
<1>9. (AcceptedIsCovered /\ AcceptanceIsCurrent)'
  BY <1>1, <1>3 DEF ReviewSafe, AcceptedIsCovered, AcceptanceIsCurrent
<1>10. ViewsAreOfThePast'
  BY <1>1, <1>2 DEF ReviewSafe, ViewsAreOfThePast
<1> QED BY <1>6, <1>7, <1>8, <1>9, <1>10 DEF ReviewSafe

(* Accepting and returning to draft change no block. *)
LEMMA StampSafe ==
  ASSUME NEW flag \in BOOLEAN, ReviewSafe, flag => RequiredIds(doc) \subseteq acks,
         accepted' = flag, doc' = [doc EXCEPT !.accepted = flag],
         acceptedRevision' = (IF flag THEN revision + 1 ELSE NoRevision),
         revision' = revision + 1,
         UNCHANGED <<exists, acks, view, fresh, seen>>
  PROVE  ReviewSafe'
<1>1. /\ doc \in Document /\ revision \in Nat /\ revision # NoRevision
      /\ view \in [Tabs -> [revision : Nat, doc : Document, acks : SUBSET Nat]]
  BY DEF ReviewSafe, ReviewTypeOK
<1>2. /\ doc' \in Document /\ doc'.blocks = doc.blocks /\ doc'.accepted = flag
      /\ doc'.focusSupported = doc.focusSupported
  BY <1>1 DEF Document
<1>3. ReviewTypeOK'
  <2>1. acceptedRevision' \in Nat /\ revision' \in Nat \ {NoRevision}
    BY <1>1 DEF NoRevision
  <2> QED BY <1>2, <2>1 DEF ReviewSafe, ReviewTypeOK
<1>4. (IdsAreOld /\ AcksAreOld)'
  BY <1>2 DEF ReviewSafe, IdsAreOld, AcksAreOld
<1>5. AcksWereSeen'
  BY <1>2 DEF ReviewSafe, AcksWereSeen, NeedsReview
<1>6. AcceptedIsCovered'
  <2>1. RequiredIds(doc') = RequiredIds(doc)
    BY <1>2, RequiredIdsOf
  <2> QED BY <2>1 DEF AcceptedIsCovered
<1>7. AcceptanceIsCurrent'
  BY <1>2 DEF AcceptanceIsCurrent
<1>8. ViewsAreOfThePast'
  BY <1>1 DEF ReviewSafe, ViewsAreOfThePast
<1> QED BY <1>3, <1>4, <1>5, <1>6, <1>7, <1>8 DEF ReviewSafe

(* Every request of a teacher keeps the invariant. *)
LEMMA ReviewKeepsSafe ==
  ASSUME NEW t \in Tabs, ReviewSafe, Review(t)
  PROVE  ReviewSafe'
<1>1. CASE Show(t)
  BY <1>1, ShowSafe
<1>2. CASE Edit(t)
  BY <1>2, EditRewrites, RewrittenSafe
<1>3. CASE Accept(t)
  BY <1>3, StampSafe DEF Accept, Advance
<1>4. CASE ReturnToDraft(t)
  BY <1>4, StampSafe DEF ReturnToDraft, Advance
<1>5. ASSUME NEW id, Acknowledge(t, id)
      PROVE  ReviewSafe'
  BY <1>5, AcknowledgeSafe
<1> QED BY <1>1, <1>2, <1>3, <1>4, <1>5 DEF Review

(* What the invariant needs to stay: the row may go, its columns do not change. *)
LEMMA SameColumnsSafe ==
  ASSUME ReviewSafe, exists' \in BOOLEAN, UNCHANGED <<reviewVars, view>>
  PROVE  ReviewSafe'
<1>1. UNCHANGED <<doc, acks, accepted, acceptedRevision, revision, fresh, seen, view>>
  BY DEF reviewVars
<1>2. ReviewTypeOK'
  BY <1>1 DEF ReviewSafe, ReviewTypeOK
<1>3. (IdsAreOld /\ AcksAreOld)'
  BY <1>1 DEF ReviewSafe, IdsAreOld, AcksAreOld
<1>4. AcksWereSeen'
  BY <1>1 DEF ReviewSafe, AcksWereSeen, NeedsReview
<1>5. (AcceptedIsCovered /\ AcceptanceIsCurrent)'
  BY <1>1, RequiredIdsOf DEF ReviewSafe, AcceptedIsCovered, AcceptanceIsCurrent
<1>6. ViewsAreOfThePast'
  BY <1>1 DEF ReviewSafe, ViewsAreOfThePast
<1> QED BY <1>2, <1>3, <1>4, <1>5, <1>6 DEF ReviewSafe
-----------------------------------------------------------------------------
(* What the invariant says of the properties. *)

LEMMA SafeIsReviewed ==
  ASSUME ReviewSafe
  PROVE  AcceptedIsReviewed /\ AcceptanceIsCurrent /\ RevisionIdentifiesDocument
<1>1. AcceptedIsReviewed
  <2> SUFFICES ASSUME accepted
               PROVE  /\ \A i \in DOMAIN doc.blocks :
                           IsVisible(doc, i) /\ NeedsReview(doc.blocks[i])
                             => /\ doc.blocks[i].id \in acks
                                /\ <<doc.blocks[i].id, doc.blocks[i].content>> \in seen
                      /\ doc.focusSupported \/ FocusId \in acks
    BY DEF AcceptedIsReviewed
  <2>1. RequiredIds(doc) \subseteq acks
    BY DEF ReviewSafe, AcceptedIsCovered
  <2>2. ASSUME NEW i \in DOMAIN doc.blocks, IsVisible(doc, i), NeedsReview(doc.blocks[i])
        PROVE  doc.blocks[i].id \in acks
    <3>1. doc.blocks[i].id \in RequiredIds(doc)
      BY <2>2 DEF RequiredIds
    <3> QED BY <2>1, <3>1
  <2>3. doc.focusSupported \/ FocusId \in acks
    <3>1. ~doc.focusSupported => FocusId \in RequiredIds(doc)
      BY DEF RequiredIds
    <3> QED BY <2>1, <3>1
  <2> QED BY <2>2, <2>3 DEF ReviewSafe, AcksWereSeen
<1>2. AcceptanceIsCurrent
  BY DEF ReviewSafe
<1>3. RevisionIdentifiesDocument
  BY DEF ReviewSafe, ViewsAreOfThePast, RevisionIdentifiesDocument, UpToDate
<1> QED BY <1>1, <1>2, <1>3
-----------------------------------------------------------------------------
(* The review on its own. *)

LEMMA ReviewStepSafe ==
  ASSUME ReviewSafe, [ReviewNext]_lessonVars
  PROVE  ReviewSafe'
<1>1. CASE DeleteLesson
  BY <1>1, SameColumnsSafe DEF DeleteLesson
<1>2. ASSUME NEW t \in Tabs, Review(t)
      PROVE  ReviewSafe'
  BY <1>2, ReviewKeepsSafe
<1>3. CASE UNCHANGED lessonVars
  <2>1. UNCHANGED <<reviewVars, view>> /\ exists' \in BOOLEAN
    BY <1>3 DEF lessonVars, ReviewSafe, ReviewTypeOK
  <2> QED BY <2>1, SameColumnsSafe
<1> QED BY <1>1, <1>2, <1>3 DEF ReviewNext
-----------------------------------------------------------------------------
(* The order of the plan. *)

Ordered(blocks) ==
  \A i, j \in DOMAIN blocks : i < j => blocks[i].phase <= blocks[j].phase

LEMMA BlocksHavePhases ==
  ASSUME NEW blocks \in Seq(Block)
  PROVE  /\ Len(blocks) \in Nat /\ DOMAIN blocks = 1 .. Len(blocks)
         /\ \A i \in DOMAIN blocks : blocks[i].phase \in Nat
<1>1. Len(blocks) \in Nat /\ DOMAIN blocks = 1 .. Len(blocks)
  BY LenProperties
<1>2. \A i \in DOMAIN blocks : blocks[i] \in Block
  BY <1>1, ElementOfSeq
<1> QED BY <1>1, <1>2 DEF Block, Phases

(* In an ordered plan, what comes before the start of a phase is of that     *)
(* phase or a lower one, and what comes from there on is not of a lower one. *)
LEMMA PhaseStartSeparates ==
  ASSUME NEW blocks \in Seq(Block), NEW phase \in Nat, Ordered(blocks),
         NEW k \in DOMAIN blocks
  PROVE  /\ k < PhaseStart(blocks, phase) => blocks[k].phase <= phase
         /\ k >= PhaseStart(blocks, phase) => blocks[k].phase >= phase
<1> DEFINE same == {i \in DOMAIN blocks : blocks[i].phase = phase}
           lower == {i \in DOMAIN blocks : blocks[i].phase < phase}
<1>1. /\ Len(blocks) \in Nat /\ DOMAIN blocks = 1 .. Len(blocks)
      /\ \A i \in DOMAIN blocks : blocks[i].phase \in Nat
  BY BlocksHavePhases
<1>2. /\ same \in SUBSET Nat /\ same \subseteq DOMAIN blocks
      /\ lower \in SUBSET (1 .. Len(blocks)) /\ k \in Nat
      /\ \A i \in same : blocks[i].phase = phase
      /\ \A i \in lower : blocks[i].phase < phase
      /\ k \in lower <=> blocks[k].phase < phase
  BY <1>1
<1>3. PhaseStart(blocks, phase) =
        IF same # {} THEN Min(same) ELSE IF lower # {} THEN Max(lower) + 1 ELSE 1
  BY DEF PhaseStart
<1> HIDE DEF same, lower
<1>4. CASE same # {}
  <2>1. Min(same) \in same
    BY <1>2, <1>4, LeastExists
  <2>2. Min(same) \in DOMAIN blocks /\ blocks[Min(same)].phase = phase /\ Min(same) \in Nat
    BY <1>2, <2>1
  <2>3. CASE k < Min(same)
    BY <1>1, <1>3, <1>4, <2>2, <2>3 DEF Ordered
  <2>4. CASE k = Min(same)
    BY <1>1, <1>3, <1>4, <2>2, <2>4
  <2>5. CASE k > Min(same)
    BY <1>1, <1>3, <1>4, <2>2, <2>5 DEF Ordered
  <2> QED BY <1>2, <2>2, <2>3, <2>4, <2>5
<1>5. CASE same = {} /\ lower # {}
  <2>1. Max(lower) \in lower /\ \A y \in lower : y <= Max(lower)
    BY <1>1, <1>2, <1>5, GreatestExists
  <2>2. Max(lower) \in DOMAIN blocks /\ blocks[Max(lower)].phase < phase /\ Max(lower) \in Nat
    <3>1. Max(lower) \in 1 .. Len(blocks)
      BY <1>2, <2>1
    <3>2. blocks[Max(lower)].phase < phase
      BY <1>2, <2>1
    <3> QED BY <1>1, <3>1, <3>2
  <2>3. CASE k <= Max(lower)
    <3>1. blocks[k].phase <= blocks[Max(lower)].phase
      BY <1>1, <1>2, <2>2, <2>3 DEF Ordered
    <3> QED BY <1>1, <1>2, <1>3, <1>5, <2>2, <2>3, <3>1
  <2>4. CASE k > Max(lower)
    <3>1. k \notin lower
      BY <1>2, <2>1, <2>2, <2>4
    <3> QED BY <1>1, <1>2, <1>3, <1>5, <2>2, <2>4, <3>1
  <2> QED BY <1>2, <2>2, <2>3, <2>4
<1>6. CASE same = {} /\ lower = {}
  BY <1>1, <1>2, <1>3, <1>6
<1> QED BY <1>4, <1>5, <1>6

(* A block put at the start of its phase leaves an ordered plan ordered. *)
LEMMA InsertionIsOrdered ==
  ASSUME NEW blocks \in Seq(Block), Ordered(blocks), NEW b \in Block
  PROVE  Ordered(InsertAt(blocks, PhaseStart(blocks, b.phase), b))
<1> DEFINE at == PhaseStart(blocks, b.phase)
           new == InsertAt(blocks, at, b)
<1>1. b.phase \in Nat
  BY DEF Block, Phases
<1>2. at \in 1 .. Len(blocks) + 1
  BY <1>1, PhaseStartFits
<1>3. /\ \A k \in DOMAIN blocks : k < at => blocks[k].phase <= b.phase
      /\ \A k \in DOMAIN blocks : k >= at => blocks[k].phase >= b.phase
  BY <1>1, PhaseStartSeparates
<1> HIDE DEF at
<1>4. /\ new \in Seq(Block) /\ Len(new) = Len(blocks) + 1
      /\ \A k \in 1 .. Len(blocks) + 1 :
           new[k] = IF k < at THEN blocks[k] ELSE IF k = at THEN b ELSE blocks[k - 1]
  <2> HIDE DEF new
  <2> DEFINE Fits(s, m, e) ==
        /\ InsertAt(s, m, e) \in Seq(Block) /\ Len(InsertAt(s, m, e)) = Len(s) + 1
        /\ \A k \in 1 .. Len(s) + 1 :
             InsertAt(s, m, e)[k] = IF k < m THEN s[k] ELSE IF k = m THEN e ELSE s[k - 1]
  <2>1. new = InsertAt(blocks, at, b)
    BY DEF new
  <2>2. \A s \in Seq(Block) : \A e \in Block : \A m \in 1 .. Len(s) + 1 : Fits(s, m, e)
    BY InsertAtProperties
  <2>3. Fits(blocks, at, b)
    <3> HIDE DEF Fits
    <3> QED BY <1>2, <2>2
  <2> QED BY <2>1, <2>3
<1>5. /\ Len(blocks) \in Nat /\ DOMAIN blocks = 1 .. Len(blocks)
      /\ \A k \in DOMAIN blocks : blocks[k].phase \in Nat
  BY BlocksHavePhases
<1> HIDE DEF new
<1>6. DOMAIN new = 1 .. Len(blocks) + 1
  BY <1>4, LenProperties
<1>7. ASSUME NEW i \in DOMAIN new, NEW j \in DOMAIN new, i < j
      PROVE  new[i].phase <= new[j].phase
  <2>1. i \in 1 .. Len(blocks) + 1 /\ j \in 1 .. Len(blocks) + 1 /\ at \in Nat
    BY <1>2, <1>5, <1>6
  <2>2. CASE j < at
    <3>1. i \in DOMAIN blocks /\ j \in DOMAIN blocks /\ new[i] = blocks[i] /\ new[j] = blocks[j]
      BY <1>2, <1>4, <1>5, <1>7, <2>1, <2>2
    <3> QED BY <1>7, <3>1 DEF Ordered
  <2>3. CASE j = at
    <3>1. i \in DOMAIN blocks /\ i < at /\ new[i] = blocks[i] /\ new[j] = b
      BY <1>2, <1>4, <1>5, <1>7, <2>1, <2>3
    <3> QED BY <1>3, <3>1
  <2>4. CASE j > at
    <3>1. j - 1 \in DOMAIN blocks /\ j - 1 >= at /\ new[j] = blocks[j - 1]
      BY <1>2, <1>4, <1>5, <2>1, <2>4
    <3>2. CASE i < at
      <4>1. i \in DOMAIN blocks /\ new[i] = blocks[i] /\ i < j - 1
        BY <1>2, <1>4, <1>5, <2>1, <2>4, <3>1, <3>2
      <4> QED BY <3>1, <4>1 DEF Ordered
    <3>3. CASE i = at
      <4>1. new[i] = b
        BY <1>4, <2>1, <3>3
      <4> QED BY <1>1, <1>3, <1>5, <3>1, <4>1
    <3>4. CASE i > at
      <4>1. i - 1 \in DOMAIN blocks /\ new[i] = blocks[i - 1] /\ i - 1 < j - 1
        BY <1>2, <1>4, <1>5, <1>7, <2>1, <3>1, <3>4
      <4> QED BY <3>1, <4>1 DEF Ordered
    <3> QED BY <2>1, <3>2, <3>3, <3>4
  <2> QED BY <2>1, <2>2, <2>3, <2>4
<1> QED BY <1>7 DEF Ordered, new, at

LEMMA RemovalIsOrdered ==
  ASSUME NEW blocks \in Seq(Block), Ordered(blocks), NEW i \in 1 .. Len(blocks)
  PROVE  RemoveAt(blocks, i) \in Seq(Block) /\ Ordered(RemoveAt(blocks, i))
<1> DEFINE new == RemoveAt(blocks, i)
<1>1. Len(blocks) \in Nat /\ DOMAIN blocks = 1 .. Len(blocks)
  BY LenProperties
<1>2. /\ new \in Seq(Block) /\ Len(new) = Len(blocks) - 1
      /\ \A k \in 1 .. Len(blocks) - 1 : new[k] = IF k < i THEN blocks[k] ELSE blocks[k + 1]
  BY RemoveAtProperties
<1> HIDE DEF new
<1>3. DOMAIN new = 1 .. Len(blocks) - 1
  BY <1>2, LenProperties
<1>4. ASSUME NEW k \in DOMAIN new, NEW m \in DOMAIN new, k < m
      PROVE  new[k].phase <= new[m].phase
  <2>1. /\ k \in 1 .. Len(blocks) - 1 /\ m \in 1 .. Len(blocks) - 1
        /\ k \in DOMAIN blocks /\ k + 1 \in DOMAIN blocks
        /\ m \in DOMAIN blocks /\ m + 1 \in DOMAIN blocks
    BY <1>1, <1>3
  <2>2. CASE m < i
    <3>1. new[k] = blocks[k] /\ new[m] = blocks[m]
      BY <1>2, <1>4, <2>1, <2>2
    <3> QED BY <1>4, <2>1, <3>1 DEF Ordered
  <2>3. CASE k < i /\ m >= i
    <3>1. new[k] = blocks[k] /\ new[m] = blocks[m + 1] /\ k < m + 1
      BY <1>2, <1>4, <2>1, <2>3
    <3> QED BY <2>1, <3>1 DEF Ordered
  <2>4. CASE k >= i
    <3>1. new[k] = blocks[k + 1] /\ new[m] = blocks[m + 1] /\ k + 1 < m + 1
      BY <1>2, <1>4, <2>1, <2>4
    <3> QED BY <2>1, <3>1 DEF Ordered
  <2> QED BY <2>1, <2>2, <2>3, <2>4
<1> QED BY <1>2, <1>4 DEF Ordered, new

(* A phase changes only at the edge of the block's phase. *)
LEMMA MoveIsOrdered ==
  ASSUME NEW t \in Tabs, NEW id \in Ids(doc), NEW up \in BOOLEAN, doc \in Document,
         Ordered(doc.blocks), Move(t, id, up)
  PROVE  Ordered(doc'.blocks)
<1> DEFINE blocks == doc.blocks
           i == IndexOf(doc, id)
           n == IF up THEN i - 1 ELSE i + 1
           phase == IF up THEN blocks[i].phase - 1 ELSE blocks[i].phase + 1
<1>1. /\ i \in 1 .. Len(blocks) /\ DOMAIN blocks = 1 .. Len(blocks) /\ Len(blocks) \in Nat
      /\ \A k \in DOMAIN blocks : blocks[k] \in Block /\ blocks[k].phase \in Nat
  BY IndexOfFinds, DocumentFields DEF Block, Phases
<1>2. CASE n \in DOMAIN blocks /\ blocks[n].phase = blocks[i].phase
  <2>1. doc' = [doc EXCEPT !.blocks = Swapped(blocks, i, n)]
    BY <1>2 DEF Move, Mutate
  <2>2. doc'.blocks = Swapped(blocks, i, n)
    BY <2>1 DEF Document
  <2>3. DOMAIN doc'.blocks = DOMAIN blocks
        /\ \A k \in DOMAIN blocks : doc'.blocks[k].phase = blocks[k].phase
    BY <1>1, <1>2, <2>2 DEF Swapped
  <2> QED BY <2>3 DEF Ordered
<1>3. CASE ~ (n \in DOMAIN blocks /\ blocks[n].phase = blocks[i].phase)
  <2>1. doc' = [doc EXCEPT !.blocks[i].phase = phase] /\ phase \in Phases
    BY <1>3 DEF Move, Mutate, MayEnter
  <2>2. doc'.blocks = [blocks EXCEPT ![i].phase = phase]
    BY <2>1 DEF Document
  <2>3. /\ DOMAIN doc'.blocks = DOMAIN blocks
        /\ \A k \in DOMAIN blocks :
             doc'.blocks[k].phase = IF k = i THEN phase ELSE blocks[k].phase
    BY <1>1, <2>2 DEF Block
  <2>4. /\ \A k \in DOMAIN blocks : k < i => blocks[k].phase <= phase
        /\ \A k \in DOMAIN blocks : k > i => blocks[k].phase >= phase
    <3>1. CASE up
      <4>1. ASSUME NEW k \in DOMAIN blocks, k < i
            PROVE  blocks[k].phase <= phase
        <5>1. i - 1 \in DOMAIN blocks /\ n = i - 1 /\ k <= i - 1
          BY <1>1, <3>1, <4>1
        <5>2. blocks[k].phase <= blocks[i - 1].phase
          BY <1>1, <4>1, <5>1 DEF Ordered
        <5>3. blocks[i - 1].phase <= blocks[i].phase
          BY <1>1, <5>1 DEF Ordered
        <5> QED BY <1>1, <1>3, <3>1, <5>1, <5>2, <5>3
      <4>2. ASSUME NEW k \in DOMAIN blocks, k > i
            PROVE  blocks[k].phase >= phase
        <5>1. blocks[k].phase >= blocks[i].phase
          BY <1>1, <4>2 DEF Ordered
        <5> QED BY <1>1, <3>1, <5>1
      <4> QED BY <4>1, <4>2
    <3>2. CASE ~up
      <4>1. ASSUME NEW k \in DOMAIN blocks, k > i
            PROVE  blocks[k].phase >= phase
        <5>1. i + 1 \in DOMAIN blocks /\ n = i + 1 /\ k >= i + 1
          BY <1>1, <3>2, <4>1
        <5>2. blocks[k].phase >= blocks[i + 1].phase
          BY <1>1, <4>1, <5>1 DEF Ordered
        <5>3. blocks[i + 1].phase >= blocks[i].phase
          BY <1>1, <5>1 DEF Ordered
        <5> QED BY <1>1, <1>3, <3>2, <5>1, <5>2, <5>3
      <4>2. ASSUME NEW k \in DOMAIN blocks, k < i
            PROVE  blocks[k].phase <= phase
        <5>1. blocks[k].phase <= blocks[i].phase
          BY <1>1, <4>2 DEF Ordered
        <5> QED BY <1>1, <3>2, <5>1
      <4> QED BY <4>1, <4>2
    <3> QED BY <3>1, <3>2
  <2>5. i \in Nat /\ DOMAIN blocks \subseteq Nat
    BY <1>1
  <2> HIDE DEF i, n, phase
  <2> QED BY <1>1, <2>3, <2>4, <2>5 DEF Ordered
<1> QED BY <1>2, <1>3

LEMMA EditIsOrdered ==
  ASSUME NEW t \in Tabs, ReviewSafe, Ordered(doc.blocks), Edit(t)
  PROVE  Ordered(doc'.blocks)
<1>1. /\ doc \in Document /\ doc.blocks \in Seq(Block) /\ fresh \in Nat /\ fresh # FocusId
      /\ doc.rejected \in Seq(Entry)
  BY DocumentFields DEF ReviewSafe, ReviewTypeOK, IdsAreOld, FocusId
<1>2. ASSUME NEW id \in Ids(doc), RemoveBlock(t, id)
      PROVE  Ordered(doc'.blocks)
  <2> DEFINE i == IndexOf(doc, id)
  <2>1. i \in 1 .. Len(doc.blocks)
    BY <1>1, IndexOfFinds
  <2>2. doc'.blocks = RemoveAt(doc.blocks, i)
    BY <1>1, <1>2 DEF RemoveBlock, Mutate, Document
  <2> QED BY <1>1, <2>1, <2>2, RemovalIsOrdered
<1>3. ASSUME NEW id \in Ids(doc), IncludeReserve(t, id)
      PROVE  Ordered(doc'.blocks)
  <2> DEFINE i == IndexOf(doc, id)
             b == doc.blocks[i]
             others == RemoveAt(doc.blocks, i)
  <2>1. i \in 1 .. Len(doc.blocks) /\ b \in Block
    BY <1>1, IndexOfFinds
  <2>2. doc'.blocks = InsertAt(others, PhaseStart(others, b.phase), b)
    BY <1>1, <1>3 DEF IncludeReserve, Mutate, Document
  <2>3. others \in Seq(Block) /\ Ordered(others)
    BY <1>1, <2>1, RemovalIsOrdered
  <2> HIDE DEF i, b, others
  <2> QED BY <2>1, <2>2, <2>3, InsertionIsOrdered
<1>4. ASSUME NEW id \in Ids(doc), ReplaceActivity(t, id)
      PROVE  Ordered(doc'.blocks)
  <2> DEFINE i == IndexOf(doc, id)
             b == doc.blocks[i]
             edited == [b EXCEPT !.content = fresh, !.edited = TRUE, !.flagged = FALSE]
  <2>1. /\ i \in 1 .. Len(doc.blocks) /\ b \in Block
        /\ DOMAIN doc.blocks = 1 .. Len(doc.blocks)
    BY <1>1, IndexOfFinds, DocumentFields
  <2>2. doc'.blocks = [doc.blocks EXCEPT ![i] = edited]
    BY <1>1, <1>4 DEF ReplaceActivity, Mutate, Document
  <2>3. edited.phase = b.phase
    BY <2>1 DEF Block
  <2> HIDE DEF edited
  <2>4. DOMAIN doc'.blocks = DOMAIN doc.blocks
        /\ \A k \in DOMAIN doc.blocks : doc'.blocks[k].phase = doc.blocks[k].phase
    BY <2>1, <2>2, <2>3
  <2> QED BY <2>4 DEF Ordered
<1>5. ASSUME NEW i \in DOMAIN doc.rejected, NEW phase \in Phases, Restore(t, i, phase)
      PROVE  Ordered(doc'.blocks)
  <2> DEFINE back == [id |-> fresh, phase |-> phase, content |-> doc.rejected[i].content,
                      warn |-> TRUE, flagged |-> FALSE, edited |-> FALSE, generated |-> FALSE]
  <2>1. doc.rejected[i] \in Entry
    BY <1>1, DocumentFields
  <2>2. back \in Block /\ back.phase = phase
    BY <1>1, <2>1 DEF Block, Entry
  <2>3. doc'.blocks = InsertAt(doc.blocks, PhaseStart(doc.blocks, phase), back)
    BY <1>1, <1>5 DEF Restore, Mutate, Document
  <2> HIDE DEF back
  <2> QED BY <1>1, <2>2, <2>3, InsertionIsOrdered
<1> QED BY <1>1, <1>2, <1>3, <1>4, <1>5, MoveIsOrdered DEF Edit

LEMMA ReviewIsOrdered ==
  ASSUME ReviewSafe, BlocksInPhaseOrder, [ReviewNext]_lessonVars
  PROVE  BlocksInPhaseOrder'
<1>1. BlocksInPhaseOrder <=> Ordered(doc.blocks)
  BY DEF BlocksInPhaseOrder, InPhaseOrder, Ordered
<1>2. Ordered(doc'.blocks) => BlocksInPhaseOrder'
  BY DEF BlocksInPhaseOrder, InPhaseOrder, Ordered
<1>3. doc'.blocks = doc.blocks => BlocksInPhaseOrder'
  BY <1>1, <1>2
<1>4. CASE DeleteLesson \/ UNCHANGED lessonVars
  BY <1>3, <1>4 DEF DeleteLesson, lessonVars, reviewVars
<1>5. ASSUME NEW t \in Tabs, Review(t)
      PROVE  BlocksInPhaseOrder'
  <2>1. CASE Edit(t)
    BY <1>1, <1>2, <2>1, EditIsOrdered
  <2>2. CASE ~Edit(t)
    <3>1. doc \in Document
      BY DEF ReviewSafe, ReviewTypeOK
    <3>2. \A flag \in BOOLEAN : [doc EXCEPT !.accepted = flag].blocks = doc.blocks
      BY <3>1 DEF Document
    <3>3. CASE Show(t)
      BY <1>3, <3>3 DEF Show, reviewVars
    <3>4. CASE Accept(t)
      BY <1>3, <3>2, <3>4 DEF Accept
    <3>5. CASE ReturnToDraft(t)
      BY <1>3, <3>2, <3>5 DEF ReturnToDraft
    <3>6. ASSUME NEW id, Acknowledge(t, id) PROVE BlocksInPhaseOrder'
      BY <1>3, <3>6 DEF Acknowledge
    <3> QED BY <1>5, <2>2, <3>3, <3>4, <3>5, <3>6 DEF Review
  <2> QED BY <2>1, <2>2
<1> QED BY <1>4, <1>5 DEF ReviewNext

(* For every plan and every sequence of edits the blocks stay in the order   *)
(* of their phases: moves change a phase only at its edge, and inclusions    *)
(* and restorations insert where _phase_start_index says (lesson.py).        *)
THEOREM PlanStaysInOrder == ReviewSpec => []BlocksInPhaseOrder
<1>1. LessonInit => ReviewSafe /\ BlocksInPhaseOrder
  BY ReviewInitSafe, PublishedAssumption DEF LessonInit, BlocksInPhaseOrder
<1>2. (ReviewSafe /\ BlocksInPhaseOrder) /\ [ReviewNext]_lessonVars
        => (ReviewSafe /\ BlocksInPhaseOrder)'
  BY ReviewStepSafe, ReviewIsOrdered
<1> QED BY <1>1, <1>2, PTL DEF ReviewSpec
-----------------------------------------------------------------------------
(* Ids and activities.                                                       *)

Elements(s) == {s[k] : k \in DOMAIN s}
IdsOf(B) == {b.id : b \in B}
HeldOf(B, E) == {<<"activity", b.content>> : b \in B} \cup {<<e.kind, e.content>> : e \in E}

LEMMA HeldByElements ==
  ASSUME NEW d
  PROVE  /\ Ids(d) = IdsOf(Elements(d.blocks))
         /\ Held(d) = HeldOf(Elements(d.blocks), Elements(d.rejected))
<1>1. Ids(d) = IdsOf(Elements(d.blocks))
  BY DEF Ids, IdsOf, Elements
<1>2. {<<"activity", d.blocks[i].content>> : i \in DOMAIN d.blocks}
        = {<<"activity", b.content>> : b \in Elements(d.blocks)}
  BY DEF Elements
<1>3. {<<d.rejected[i].kind, d.rejected[i].content>> : i \in DOMAIN d.rejected}
        = {<<e.kind, e.content>> : e \in Elements(d.rejected)}
  BY DEF Elements
<1> QED BY <1>1, <1>2, <1>3 DEF Held, HeldOf

(* What is left without the i-th element, and the i-th element. *)
LEMMA RemoveAtElements ==
  ASSUME NEW S, NEW s \in Seq(S), NEW i \in 1 .. Len(s)
  PROVE  /\ Elements(s) = Elements(RemoveAt(s, i)) \cup {s[i]}
         /\ Elements(RemoveAt(s, i)) = {s[k] : k \in DOMAIN s \ {i}}
<1> DEFINE r == RemoveAt(s, i)
<1>1. /\ Len(s) \in Nat /\ DOMAIN s = 1 .. Len(s) /\ DOMAIN r = 1 .. Len(s) - 1
      /\ i \in Nat /\ 1 <= i /\ i <= Len(s)
      /\ \A k \in 1 .. Len(s) - 1 : r[k] = IF k < i THEN s[k] ELSE s[k + 1]
  <2>1. /\ r \in Seq(S) /\ Len(r) = Len(s) - 1
        /\ \A k \in 1 .. Len(s) - 1 : r[k] = IF k < i THEN s[k] ELSE s[k + 1]
    BY RemoveAtProperties
  <2> HIDE DEF r
  <2> QED BY <2>1, LenProperties
<1> HIDE DEF r
<1>2. ASSUME NEW k \in DOMAIN r
      PROVE  \E m \in DOMAIN s \ {i} : r[k] = s[m]
  <2>1. CASE k < i
    <3>1. k \in DOMAIN s \ {i} /\ r[k] = s[k]
      BY <1>1, <2>1
    <3> QED BY <3>1
  <2>2. CASE ~ (k < i)
    <3>1. k + 1 \in DOMAIN s \ {i} /\ r[k] = s[k + 1]
      BY <1>1, <2>2
    <3> QED BY <3>1
  <2> QED BY <2>1, <2>2
<1>3. ASSUME NEW m \in DOMAIN s \ {i}
      PROVE  \E k \in DOMAIN r : r[k] = s[m]
  <2>1. CASE m < i
    <3>1. m \in DOMAIN r /\ r[m] = s[m]
      BY <1>1, <2>1
    <3> QED BY <3>1
  <2>2. CASE m > i
    <3>1. m - 1 \in DOMAIN r /\ ~ (m - 1 < i) /\ m - 1 + 1 = m
      BY <1>1, <2>2
    <3>2. r[m - 1] = s[m]
      BY <1>1, <3>1
    <3> QED BY <3>1, <3>2
  <2> QED BY <1>1, <2>1, <2>2
<1>4. Elements(r) = {s[k] : k \in DOMAIN s \ {i}}
  BY <1>2, <1>3 DEF Elements
<1>5. Elements(s) = {s[k] : k \in DOMAIN s \ {i}} \cup {s[i]}
  BY <1>1 DEF Elements
<1> QED BY <1>4, <1>5 DEF r

LEMMA InsertAtElements ==
  ASSUME NEW S, NEW s \in Seq(S), NEW i \in 1 .. Len(s) + 1, NEW e \in S
  PROVE  Elements(InsertAt(s, i, e)) = Elements(s) \cup {e}
<1> DEFINE r == InsertAt(s, i, e)
<1>1. /\ Len(s) \in Nat /\ DOMAIN s = 1 .. Len(s) /\ DOMAIN r = 1 .. Len(s) + 1
      /\ i \in Nat /\ 1 <= i /\ i <= Len(s) + 1
      /\ \A k \in 1 .. Len(s) + 1 : r[k] = IF k < i THEN s[k] ELSE IF k = i THEN e ELSE s[k - 1]
  <2>1. /\ r \in Seq(S) /\ Len(r) = Len(s) + 1
        /\ \A k \in 1 .. Len(s) + 1 : r[k] = IF k < i THEN s[k] ELSE IF k = i THEN e ELSE s[k - 1]
    BY InsertAtProperties
  <2> HIDE DEF r
  <2> QED BY <2>1, LenProperties
<1> HIDE DEF r
<1>2. ASSUME NEW k \in DOMAIN r
      PROVE  r[k] = e \/ \E m \in DOMAIN s : r[k] = s[m]
  <2>1. CASE k < i
    <3>1. k \in DOMAIN s /\ r[k] = s[k]
      BY <1>1, <2>1
    <3> QED BY <3>1
  <2>2. CASE k = i
    BY <1>1, <2>2
  <2>3. CASE k > i
    <3>1. k - 1 \in DOMAIN s /\ r[k] = s[k - 1]
      BY <1>1, <2>3
    <3> QED BY <3>1
  <2> QED BY <1>1, <2>1, <2>2, <2>3
<1>3. ASSUME NEW m \in DOMAIN s
      PROVE  \E k \in DOMAIN r : r[k] = s[m]
  <2>1. CASE m < i
    <3>1. m \in DOMAIN r /\ r[m] = s[m]
      BY <1>1, <2>1
    <3> QED BY <3>1
  <2>2. CASE m >= i
    <3>1. m + 1 \in DOMAIN r /\ ~ (m + 1 < i) /\ m + 1 # i /\ m + 1 - 1 = m
      BY <1>1, <2>2
    <3>2. r[m + 1] = s[m]
      BY <1>1, <3>1
    <3> QED BY <3>1, <3>2
  <2> QED BY <1>1, <2>1, <2>2
<1>4. i \in DOMAIN r /\ r[i] = e
  BY <1>1
<1>5. Elements(r) = Elements(s) \cup {e}
  BY <1>2, <1>3, <1>4 DEF Elements
<1> QED BY <1>5 DEF r

LEMMA AppendElements ==
  ASSUME NEW S, NEW s \in Seq(S), NEW e \in S
  PROVE  Elements(Append(s, e)) = Elements(s) \cup {e}
<1> DEFINE r == Append(s, e)
<1>1. /\ Len(s) \in Nat /\ DOMAIN s = 1 .. Len(s) /\ DOMAIN r = 1 .. Len(s) + 1
      /\ \A k \in 1 .. Len(s) : r[k] = s[k]
      /\ r[Len(s) + 1] = e
  BY AppendProperties, LenProperties
<1> HIDE DEF r
<1>2. DOMAIN r = DOMAIN s \cup {Len(s) + 1}
  BY <1>1
<1>3. Elements(r) = Elements(s) \cup {e}
  BY <1>1, <1>2 DEF Elements
<1> QED BY <1>3 DEF r

(* As many values as places: no value is at two places. *)
LEMMA CountedOnce ==
  ASSUME NEW n \in Nat, NEW f, f = [k \in 1 .. n |-> f[k]]
  PROVE  /\ IsFiniteSet(Elements(f))
         /\ Cardinality(Elements(f)) = n <=> \A i, j \in 1 .. n : f[i] = f[j] => i = j
<1> DEFINE T == Elements(f)
<1>1. IsFiniteSet(1 .. n) /\ Cardinality(1 .. n) = n
  BY FS_Interval
<1>2. DOMAIN f = 1 .. n
  OBVIOUS
<1>3. f \in Surjection(1 .. n, T)
  BY <1>2 DEF Surjection, Elements
<1>4. /\ IsFiniteSet(T)
      /\ Cardinality(T) = Cardinality(1 .. n) <=> f \in Injection(1 .. n, T)
  BY <1>1, <1>3, FS_Surjection
<1>5. f \in Injection(1 .. n, T) <=> \A i, j \in 1 .. n : f[i] = f[j] => i = j
  BY <1>3 DEF Injection, Surjection, IsInjective
<1> QED BY <1>1, <1>4, <1>5

(* The k-th of the things a document holds: first its plan, then its tray. *)
Thing(d, k) ==
  IF k <= Len(d.blocks)
  THEN <<"activity", d.blocks[k].content>>
  ELSE <<d.rejected[k - Len(d.blocks)].kind, d.rejected[k - Len(d.blocks)].content>>

LEMMA IdsAreCounted ==
  ASSUME NEW d \in Document
  PROVE  /\ IsFiniteSet(Ids(d))
         /\ Cardinality(Ids(d)) = Len(d.blocks)
              <=> \A i, j \in DOMAIN d.blocks : d.blocks[i].id = d.blocks[j].id => i = j
<1> DEFINE n == Len(d.blocks)
           f == [k \in 1 .. n |-> d.blocks[k].id]
<1>1. n \in Nat /\ DOMAIN d.blocks = 1 .. n
  BY DocumentFields
<1>2. Elements(f) = Ids(d)
  BY <1>1 DEF Elements, Ids
<1>3. f = [k \in 1 .. n |-> f[k]] /\ \A k \in 1 .. n : f[k] = d.blocks[k].id
  OBVIOUS
<1> HIDE DEF f
<1>4. /\ IsFiniteSet(Ids(d))
      /\ Cardinality(Ids(d)) = n <=> \A i, j \in 1 .. n : f[i] = f[j] => i = j
  <2> HIDE DEF n
  <2> QED BY <1>1, <1>2, <1>3, CountedOnce
<1> QED BY <1>1, <1>3, <1>4

LEMMA ThingsAreHeld ==
  ASSUME NEW d \in Document
  PROVE  Held(d) = {Thing(d, k) : k \in 1 .. Len(d.blocks) + Len(d.rejected)}
<1> DEFINE n == Len(d.blocks)
           m == Len(d.rejected)
<1>1. /\ n \in Nat /\ DOMAIN d.blocks = 1 .. n
      /\ m \in Nat /\ DOMAIN d.rejected = 1 .. m
  BY DocumentFields
<1>2. \A k : Thing(d, k) = IF k <= n THEN <<"activity", d.blocks[k].content>>
                           ELSE <<d.rejected[k - n].kind, d.rejected[k - n].content>>
  BY DEF Thing
<1> HIDE DEF n, m
<1>3. ASSUME NEW i \in DOMAIN d.blocks
      PROVE  i \in 1 .. n + m /\ Thing(d, i) = <<"activity", d.blocks[i].content>>
  BY <1>1, <1>2
<1>4. ASSUME NEW i \in DOMAIN d.rejected
      PROVE  /\ n + i \in 1 .. n + m
             /\ Thing(d, n + i) = <<d.rejected[i].kind, d.rejected[i].content>>
  <2>1. n + i \in 1 .. n + m /\ ~ (n + i <= n) /\ (n + i) - n = i
    BY <1>1
  <2> QED BY <1>2, <2>1
<1>5. ASSUME NEW k \in 1 .. n + m
      PROVE  Thing(d, k) \in Held(d)
  <2>1. CASE k <= n
    <3>1. k \in DOMAIN d.blocks
      BY <1>1, <2>1
    <3> QED BY <1>2, <2>1, <3>1 DEF Held
  <2>2. CASE ~ (k <= n)
    <3>1. k - n \in DOMAIN d.rejected
      BY <1>1, <2>2
    <3> QED BY <1>2, <2>2, <3>1 DEF Held
  <2> QED BY <2>1, <2>2
<1>6. \A h \in Held(d) : h \in {Thing(d, k) : k \in 1 .. n + m}
  <2>1. ASSUME NEW i \in DOMAIN d.blocks
        PROVE  <<"activity", d.blocks[i].content>> \in {Thing(d, k) : k \in 1 .. n + m}
    BY <1>3
  <2>2. ASSUME NEW i \in DOMAIN d.rejected
        PROVE  <<d.rejected[i].kind, d.rejected[i].content>> \in {Thing(d, k) : k \in 1 .. n + m}
    BY <1>4
  <2> QED BY <2>1, <2>2 DEF Held
<1> QED BY <1>5, <1>6 DEF n, m

LEMMA ThingsAreCounted ==
  ASSUME NEW d \in Document
  PROVE  /\ IsFiniteSet(Held(d))
         /\ Cardinality(Held(d)) = Len(d.blocks) + Len(d.rejected)
              <=> \A i, j \in 1 .. Len(d.blocks) + Len(d.rejected) :
                    Thing(d, i) = Thing(d, j) => i = j
<1> DEFINE n == Len(d.blocks) + Len(d.rejected)
           f == [k \in 1 .. n |-> Thing(d, k)]
<1>1. n \in Nat
  <2>1. Len(d.blocks) \in Nat /\ Len(d.rejected) \in Nat
    BY DocumentFields
  <2>2. \A a, b \in Nat : a + b \in Nat
    OBVIOUS
  <2> QED BY <2>1, <2>2
<1>2. Elements(f) = Held(d)
  BY ThingsAreHeld DEF Elements
<1>3. f = [k \in 1 .. n |-> f[k]] /\ \A k \in 1 .. n : f[k] = Thing(d, k)
  OBVIOUS
<1> HIDE DEF f
<1>4. /\ IsFiniteSet(Held(d))
      /\ Cardinality(Held(d)) = n <=> \A i, j \in 1 .. n : f[i] = f[j] => i = j
  <2> HIDE DEF n
  <2> QED BY <1>1, <1>2, <1>3, CountedOnce
<1> QED BY <1>3, <1>4

(* Nothing enters or leaves the lesson. *)
Unmoved ==
  /\ doc' \in Document
  /\ Ids(doc') = Ids(doc) /\ Held(doc') = Held(doc)
  /\ Len(doc'.blocks) = Len(doc.blocks) /\ Len(doc'.rejected) = Len(doc.rejected)

LEMMA MoveKeepsThings ==
  ASSUME NEW t \in Tabs, NEW id \in Ids(doc), NEW up \in BOOLEAN, ReviewSafe, Move(t, id, up)
  PROVE  Unmoved
<1> DEFINE blocks == doc.blocks
           i == IndexOf(doc, id)
           n == IF up THEN i - 1 ELSE i + 1
           phase == IF up THEN blocks[i].phase - 1 ELSE blocks[i].phase + 1
           swapped == Swapped(blocks, i, n)
           promoted == [blocks EXCEPT ![i].phase = phase]
<1>1. doc \in Document
  BY DEF ReviewSafe, ReviewTypeOK
<1>2. /\ i \in DOMAIN blocks /\ blocks[i] \in Block /\ DOMAIN blocks = 1 .. Len(blocks)
      /\ blocks \in Seq(Block)
  BY <1>1, IndexOfFinds, DocumentFields
<1>3. doc' \in Document
  BY MoveRewrites DEF Rewritten
<1>4. CASE n \in DOMAIN blocks /\ blocks[n].phase = blocks[i].phase
  <2>1. doc'.blocks = swapped /\ doc'.rejected = doc.rejected
    BY <1>1, <1>4 DEF Move, Mutate, Document
  <2>2. DOMAIN swapped = DOMAIN blocks
        /\ \A k \in DOMAIN blocks :
             swapped[k] = IF k = n THEN blocks[i] ELSE IF k = i THEN blocks[n] ELSE blocks[k]
    BY <1>2, <1>4 DEF Swapped
  <2>3. Len(doc'.blocks) = Len(blocks)
    <3>1. /\ Len(blocks) \in Nat /\ Len(doc'.blocks) \in Nat
          /\ DOMAIN doc'.blocks = 1 .. Len(doc'.blocks)
      BY <1>1, <1>3, DocumentFields
    <3>2. 1 .. Len(doc'.blocks) = 1 .. Len(blocks)
      BY <1>2, <2>1, <2>2, <3>1
    <3> HIDE DEF blocks
    <3> QED BY <3>1, <3>2
  <2> HIDE DEF i, n, swapped
  <2>4. Elements(swapped) = Elements(blocks)
    BY <1>2, <1>4, <2>2 DEF Elements
  <2> QED BY <1>3, <2>1, <2>3, <2>4, HeldByElements DEF Unmoved
<1>5. CASE ~ (n \in DOMAIN blocks /\ blocks[n].phase = blocks[i].phase)
  <2>1. doc'.blocks = promoted /\ doc'.rejected = doc.rejected
    BY <1>1, <1>5 DEF Move, Mutate, Document
  <2>2. DOMAIN promoted = DOMAIN blocks
        /\ \A k \in DOMAIN blocks :
             promoted[k].id = blocks[k].id /\ promoted[k].content = blocks[k].content
    <3> HIDE DEF i, phase
    <3>1. \A k \in DOMAIN blocks :
            promoted[k] = IF k = i THEN [blocks[i] EXCEPT !.phase = phase] ELSE blocks[k]
      BY <1>2
    <3>2. /\ [blocks[i] EXCEPT !.phase = phase].id = blocks[i].id
          /\ [blocks[i] EXCEPT !.phase = phase].content = blocks[i].content
      BY <1>2 DEF Block
    <3> QED BY <3>1, <3>2
  <2>3. Len(doc'.blocks) = Len(blocks)
    <3>1. /\ Len(blocks) \in Nat /\ Len(doc'.blocks) \in Nat
          /\ DOMAIN doc'.blocks = 1 .. Len(doc'.blocks)
      BY <1>1, <1>3, DocumentFields
    <3>2. 1 .. Len(doc'.blocks) = 1 .. Len(blocks)
      BY <1>2, <2>1, <2>2, <3>1
    <3> HIDE DEF blocks
    <3> QED BY <3>1, <3>2
  <2> HIDE DEF i, n, phase, promoted
  <2>4. Ids(doc') = Ids(doc) /\ Held(doc') = Held(doc)
    BY <2>1, <2>2 DEF Ids, Held
  <2> QED BY <1>3, <2>1, <2>3, <2>4 DEF Unmoved
<1> QED BY <1>4, <1>5

LEMMA IncludeKeepsThings ==
  ASSUME NEW t \in Tabs, NEW id \in Ids(doc), ReviewSafe, IncludeReserve(t, id)
  PROVE  Unmoved
<1> DEFINE blocks == doc.blocks
           i == IndexOf(doc, id)
           b == blocks[i]
           others == RemoveAt(blocks, i)
           at == PhaseStart(others, b.phase)
<1>1. doc \in Document /\ doc' \in Document
  BY IncludeRewrites DEF ReviewSafe, ReviewTypeOK, Rewritten
<1>2. /\ i \in 1 .. Len(blocks) /\ b \in Block /\ blocks \in Seq(Block) /\ Len(blocks) \in Nat
  BY <1>1, IndexOfFinds, DocumentFields
<1>3. doc'.blocks = InsertAt(others, at, b) /\ doc'.rejected = doc.rejected
  BY <1>1 DEF IncludeReserve, Mutate, Document
<1>4. others \in Seq(Block) /\ Len(others) = Len(blocks) - 1
      /\ Elements(blocks) = Elements(others) \cup {b}
  BY <1>2, RemoveAtProperties, RemoveAtElements
<1>5. b.phase \in Nat
  BY <1>2 DEF Block, Phases
<1> HIDE DEF i, b, others
<1>6. at \in 1 .. Len(others) + 1
  BY <1>4, <1>5, PhaseStartFits
<1> HIDE DEF at
<1>7. /\ Elements(InsertAt(others, at, b)) = Elements(others) \cup {b}
      /\ Len(InsertAt(others, at, b)) = Len(others) + 1
  BY <1>2, <1>4, <1>6, InsertAtProperties, InsertAtElements
<1>8. Len(doc'.blocks) = Len(blocks)
  BY <1>2, <1>3, <1>4, <1>7
<1>9. Elements(doc'.blocks) = Elements(blocks)
  BY <1>3, <1>4, <1>7
<1> QED BY <1>1, <1>3, <1>8, <1>9, HeldByElements DEF Unmoved

LEMMA RemoveKeepsThings ==
  ASSUME NEW t \in Tabs, NEW id \in Ids(doc), ReviewSafe, SlotsAreDistinct, RemoveBlock(t, id)
  PROVE  /\ SlotsAreDistinct'
         /\ Held(doc') = Held(doc)
<1> DEFINE blocks == doc.blocks
           tray == doc.rejected
           i == IndexOf(doc, id)
           entry == [kind |-> "activity", content |-> blocks[i].content]
           others == RemoveAt(blocks, i)
<1>1. doc \in Document /\ doc' \in Document
  BY RemoveRewrites DEF ReviewSafe, ReviewTypeOK, Rewritten
<1>2. /\ i \in 1 .. Len(blocks) /\ blocks[i] \in Block /\ blocks[i].id = id
      /\ blocks \in Seq(Block) /\ DOMAIN blocks = 1 .. Len(blocks) /\ Len(blocks) \in Nat
      /\ tray \in Seq(Entry) /\ Len(tray) \in Nat
  BY <1>1, IndexOfFinds, DocumentFields
<1>3. doc'.blocks = others /\ doc'.rejected = Append(tray, entry)
  BY <1>1 DEF RemoveBlock, Mutate, Tray, Document
<1>4. /\ entry \in Entry
      /\ <<entry.kind, entry.content>> = <<"activity", blocks[i].content>>
  BY <1>2 DEF Entry, Block
<1>5. /\ Len(others) = Len(blocks) - 1
      /\ Elements(blocks) = Elements(others) \cup {blocks[i]}
      /\ Elements(others) = {blocks[k] : k \in DOMAIN blocks \ {i}}
  <2>1. Len(others) = Len(blocks) - 1
    BY <1>2, RemoveAtProperties
  <2>2. /\ Elements(blocks) = Elements(others) \cup {blocks[i]}
        /\ Elements(others) = {blocks[k] : k \in DOMAIN blocks \ {i}}
    <3> HIDE DEF blocks, i
    <3> QED BY <1>2, RemoveAtElements
  <2> QED BY <2>1, <2>2
<1>6. /\ Elements(Append(tray, entry)) = Elements(tray) \cup {entry}
      /\ Len(Append(tray, entry)) = Len(tray) + 1
  BY <1>2, <1>4, AppendElements, AppendProperties
<1>7. \A k \in DOMAIN blocks : blocks[k].id = id => k = i
  BY <1>1, <1>2, IdsAreCounted DEF SlotsAreDistinct, Distinct
<1> HIDE DEF i, entry, others
<1>8. IdsOf(Elements(others)) = IdsOf(Elements(blocks)) \ {id}
  <2>1. IdsOf(Elements(others)) = {blocks[k].id : k \in DOMAIN blocks \ {i}}
    BY <1>5 DEF IdsOf
  <2>2. IdsOf(Elements(blocks)) = {blocks[k].id : k \in DOMAIN blocks}
    BY DEF IdsOf, Elements
  <2>3. {blocks[k].id : k \in DOMAIN blocks \ {i}} = {blocks[k].id : k \in DOMAIN blocks} \ {id}
    BY <1>2, <1>7
  <2> QED BY <2>1, <2>2, <2>3
<1>9. HeldOf(Elements(others), Elements(tray) \cup {entry}) = HeldOf(Elements(blocks), Elements(tray))
  <2>1. {<<"activity", b.content>> : b \in Elements(blocks)}
          = {<<"activity", b.content>> : b \in Elements(others)} \cup {<<"activity", blocks[i].content>>}
    BY <1>5
  <2>2. {<<e.kind, e.content>> : e \in Elements(tray) \cup {entry}}
          = {<<e.kind, e.content>> : e \in Elements(tray)} \cup {<<"activity", blocks[i].content>>}
    BY <1>4
  <2> QED BY <2>1, <2>2 DEF HeldOf
<1>10. Ids(doc') = Ids(doc) \ {id} /\ Held(doc') = Held(doc)
  BY <1>3, <1>6, <1>8, <1>9, HeldByElements
<1>11. /\ Len(doc'.blocks) = Len(blocks) - 1
       /\ Len(doc'.blocks) + Len(doc'.rejected) = Len(blocks) + Len(tray)
  <2>1. Len(doc'.blocks) = Len(blocks) - 1 /\ Len(doc'.rejected) = Len(tray) + 1
    BY <1>3, <1>5, <1>6
  <2>2. \A a, b \in Nat : (a - 1) + (b + 1) = a + b
    OBVIOUS
  <2> QED BY <1>2, <2>1, <2>2
<1>12. Cardinality(Ids(doc')) = Cardinality(Ids(doc)) - 1
  BY <1>1, <1>10, IdsAreCounted, FS_RemoveElement
<1> QED BY <1>10, <1>11, <1>12 DEF SlotsAreDistinct, Distinct

LEMMA RestoreKeepsThings ==
  ASSUME NEW t \in Tabs, NEW i \in DOMAIN doc.rejected, NEW phase \in Phases,
         ReviewSafe, SlotsAreDistinct, Restore(t, i, phase)
  PROVE  /\ SlotsAreDistinct'
         /\ Held(doc') = Held(doc)
<1> DEFINE blocks == doc.blocks
           tray == doc.rejected
           back == [id |-> fresh, phase |-> phase, content |-> tray[i].content,
                    warn |-> TRUE, flagged |-> FALSE, edited |-> FALSE, generated |-> FALSE]
           at == PhaseStart(blocks, phase)
           left == RemoveAt(tray, i)
<1>1. doc \in Document /\ doc' \in Document /\ fresh \in Nat /\ fresh # FocusId
  <2>1. doc' \in Document
    BY RestoreRewrites DEF Rewritten
  <2> QED BY <2>1 DEF ReviewSafe, ReviewTypeOK, IdsAreOld, FocusId
<1>2. /\ blocks \in Seq(Block) /\ DOMAIN blocks = 1 .. Len(blocks) /\ Len(blocks) \in Nat
      /\ tray \in Seq(Entry) /\ i \in 1 .. Len(tray) /\ tray[i] \in Entry /\ Len(tray) \in Nat
  BY <1>1, DocumentFields
<1>3. doc'.blocks = InsertAt(blocks, at, back) /\ doc'.rejected = left
  BY <1>1 DEF Restore, Mutate, TrayWithout, Document
<1>4. /\ back \in Block /\ back.id = fresh
      /\ <<"activity", back.content>> = <<tray[i].kind, tray[i].content>>
  BY <1>1, <1>2 DEF Restore, Block, Entry
<1>5. at \in 1 .. Len(blocks) + 1
  <2>1. phase \in Nat
    BY DEF Phases
  <2> QED BY <1>2, <2>1, PhaseStartFits
<1>6. Len(left) = Len(tray) - 1 /\ Elements(tray) = Elements(left) \cup {tray[i]}
  BY <1>2, RemoveAtProperties, RemoveAtElements
<1> HIDE DEF back, at, left
<1>7. /\ Elements(InsertAt(blocks, at, back)) = Elements(blocks) \cup {back}
      /\ Len(InsertAt(blocks, at, back)) = Len(blocks) + 1
  <2> HIDE DEF blocks
  <2> QED BY <1>2, <1>4, <1>5, InsertAtElements, InsertAtProperties
<1>8. IdsOf(Elements(blocks) \cup {back}) = IdsOf(Elements(blocks)) \cup {fresh}
  BY <1>4 DEF IdsOf
<1>9. HeldOf(Elements(blocks) \cup {back}, Elements(left)) = HeldOf(Elements(blocks), Elements(tray))
  <2>1. {<<e.kind, e.content>> : e \in Elements(tray)}
          = {<<e.kind, e.content>> : e \in Elements(left)} \cup {<<tray[i].kind, tray[i].content>>}
    BY <1>6
  <2>2. {<<"activity", b.content>> : b \in Elements(blocks) \cup {back}}
          = {<<"activity", b.content>> : b \in Elements(blocks)}
              \cup {<<tray[i].kind, tray[i].content>>}
    BY <1>4
  <2> QED BY <2>1, <2>2 DEF HeldOf
<1>10. Ids(doc') = Ids(doc) \cup {fresh} /\ Held(doc') = Held(doc)
  BY <1>3, <1>7, <1>8, <1>9, HeldByElements
<1>11. /\ Len(doc'.blocks) = Len(blocks) + 1
       /\ Len(doc'.blocks) + Len(doc'.rejected) = Len(blocks) + Len(tray)
  <2>1. Len(doc'.blocks) = Len(blocks) + 1 /\ Len(doc'.rejected) = Len(tray) - 1
    BY <1>3, <1>6, <1>7
  <2>2. \A a, b \in Nat : (a + 1) + (b - 1) = a + b
    OBVIOUS
  <2> QED BY <1>2, <2>1, <2>2
<1>12. fresh \notin Ids(doc)
  <2>1. \A k \in DOMAIN blocks : blocks[k].id \in Nat /\ blocks[k].id < fresh
    BY <1>1, DocumentFields DEF ReviewSafe, IdsAreOld, Block
  <2> QED BY <1>1, <2>1 DEF Ids
<1>13. Cardinality(Ids(doc')) = Cardinality(Ids(doc)) + 1
  BY <1>1, <1>10, <1>12, IdsAreCounted, FS_AddElement
<1> QED BY <1>10, <1>11, <1>13 DEF SlotsAreDistinct, Distinct

(* Contents are numbered in the order in which they are written. *)
HeldIsOld == \A h \in Held(doc) : h[2] \in Nat /\ h[2] < fresh

(* One activity makes room for a new one. *)
Exchanged ==
  \E old \in Held(doc) : \E new :
    new \notin Held(doc) /\ Held(doc') = (Held(doc) \ {old}) \cup {new}

LEMMA ExchangeAt ==
  ASSUME doc \in Document, doc' \in Document, fresh \in Nat, SlotsAreDistinct, HeldIsOld,
         NEW i \in DOMAIN doc.blocks, NEW edited,
         edited.id = doc.blocks[i].id, edited.content = fresh,
         doc'.blocks = [doc.blocks EXCEPT ![i] = edited],
         doc'.rejected = doc.rejected,
         fresh' = fresh + 1
  PROVE  SlotsAreDistinct' /\ HeldIsOld' /\ Exchanged
<1> DEFINE blocks == doc.blocks
           old == <<"activity", blocks[i].content>>
           new == <<"activity", fresh>>
           Places == 1 .. Len(doc.blocks) + Len(doc.rejected)
<1>1. /\ i \in 1 .. Len(blocks) /\ blocks[i] \in Block /\ blocks \in Seq(Block)
      /\ DOMAIN blocks = 1 .. Len(blocks) /\ Len(blocks) \in Nat /\ Len(doc.rejected) \in Nat
  BY DocumentFields
<1>2. /\ DOMAIN doc'.blocks = DOMAIN blocks
      /\ \A k \in DOMAIN blocks : doc'.blocks[k] = IF k = i THEN edited ELSE blocks[k]
  BY <1>1
<1>3. Len(doc'.blocks) = Len(blocks)
  <2>1. Len(doc'.blocks) \in Nat /\ DOMAIN doc'.blocks = 1 .. Len(doc'.blocks)
    BY DocumentFields
  <2>2. 1 .. Len(doc'.blocks) = 1 .. Len(blocks)
    BY <1>1, <1>2, <2>1
  <2> HIDE DEF blocks
  <2> QED BY <1>1, <2>1, <2>2
<1>4. Ids(doc') = Ids(doc)
  BY <1>1, <1>2 DEF Ids
<1>5. i \in Places /\ Thing(doc, i) = old
  <2>1. \A a, b \in Nat : \A c \in 1 .. a : c \in 1 .. a + b /\ c <= a
    OBVIOUS
  <2>2. i \in Places /\ i <= Len(blocks)
    BY <1>1, <2>1
  <2> QED BY <2>2 DEF Thing
<1>6. ASSUME NEW k \in Places
      PROVE  Thing(doc', k) = IF k = i THEN new ELSE Thing(doc, k)
  <2>1. CASE k <= Len(blocks)
    <3>1. k \in DOMAIN blocks
      BY <1>1, <2>1
    <3>2. Thing(doc', k) = <<"activity", doc'.blocks[k].content>>
          /\ Thing(doc, k) = <<"activity", blocks[k].content>>
      BY <1>3, <2>1 DEF Thing
    <3> QED BY <1>2, <3>1, <3>2
  <2>2. CASE ~ (k <= Len(blocks))
    <3>1. k # i
      BY <1>1, <2>2
    <3> QED BY <1>3, <2>2, <3>1 DEF Thing
  <2> QED BY <2>1, <2>2
<1>7. Held(doc) = {Thing(doc, k) : k \in Places} /\ Held(doc') = {Thing(doc', k) : k \in Places}
  BY <1>3, ThingsAreHeld
<1>8. \A j, k \in Places : Thing(doc, j) = Thing(doc, k) => j = k
  BY ThingsAreCounted DEF SlotsAreDistinct, Distinct
<1>9. old \in Held(doc) /\ new \notin Held(doc)
  <2>1. new[2] = fresh
    OBVIOUS
  <2>2. old \in Held(doc)
    BY <1>5, <1>7
  <2>3. new \notin Held(doc)
    BY <2>1 DEF HeldIsOld
  <2> QED BY <2>2, <2>3
<1> HIDE DEF Places, old, new
<1>10. Held(doc') = (Held(doc) \ {old}) \cup {new}
  <2>1. ASSUME NEW h \in Held(doc')
        PROVE  h \in (Held(doc) \ {old}) \cup {new}
    BY <1>5, <1>6, <1>7, <1>8
  <2>2. ASSUME NEW h \in Held(doc) \ {old}
        PROVE  h \in Held(doc')
    <3>1. PICK k \in Places : h = Thing(doc, k)
      BY <1>7
    <3>2. k # i
      BY <1>5, <3>1
    <3> QED BY <1>6, <1>7, <3>1, <3>2
  <2>3. new \in Held(doc')
    BY <1>5, <1>6, <1>7
  <2> QED BY <2>1, <2>2, <2>3
<1>11. SlotsAreDistinct'
  <2>1. Cardinality(Held(doc')) = Cardinality(Held(doc))
    <3>1. /\ IsFiniteSet(Held(doc) \ {old})
          /\ Cardinality(Held(doc) \ {old}) = Cardinality(Held(doc)) - 1
      BY <1>9, ThingsAreCounted, FS_RemoveElement
    <3>2. Cardinality(Held(doc')) = Cardinality(Held(doc) \ {old}) + 1
      BY <1>9, <1>10, <3>1, FS_AddElement
    <3>3. Cardinality(Held(doc)) \in Nat
      BY ThingsAreCounted, FS_CardinalityType
    <3> QED BY <3>1, <3>2, <3>3
  <2> QED BY <1>3, <1>4, <2>1 DEF SlotsAreDistinct, Distinct
<1>12. HeldIsOld'
  <2>1. ASSUME NEW h \in Held(doc)
        PROVE  h[2] \in Nat /\ h[2] < fresh'
    BY DEF HeldIsOld
  <2>2. new[2] \in Nat /\ new[2] < fresh'
    BY DEF new
  <2> QED BY <1>10, <2>1, <2>2 DEF HeldIsOld
<1> QED BY <1>9, <1>10, <1>11, <1>12 DEF Exchanged

LEMMA ReplaceExchangesOne ==
  ASSUME NEW t \in Tabs, NEW id \in Ids(doc),
         ReviewSafe, SlotsAreDistinct, HeldIsOld, ReplaceActivity(t, id)
  PROVE  SlotsAreDistinct' /\ HeldIsOld' /\ Exchanged
<1> DEFINE i == IndexOf(doc, id)
           edited == [doc.blocks[i] EXCEPT !.content = fresh, !.edited = TRUE, !.flagged = FALSE]
<1>1. doc \in Document /\ fresh \in Nat
  BY DEF ReviewSafe, ReviewTypeOK
<1>2. doc' \in Document
  BY ReplaceRewrites DEF Rewritten
<1>3. i \in DOMAIN doc.blocks /\ doc.blocks[i] \in Block
  BY <1>1, IndexOfFinds, DocumentFields
<1>4. /\ doc'.blocks = [doc.blocks EXCEPT ![i] = edited]
      /\ doc'.rejected = doc.rejected
      /\ fresh' = fresh + 1
  BY <1>1 DEF ReplaceActivity, Mutate, Document
<1>5. edited.id = doc.blocks[i].id /\ edited.content = fresh
  BY <1>3 DEF Block
<1> HIDE DEF i, edited
<1> QED BY <1>1, <1>2, <1>3, <1>4, <1>5, ExchangeAt

LEMMA EditKeepsThings ==
  ASSUME NEW t \in Tabs, ReviewSafe, SlotsAreDistinct, HeldIsOld, Edit(t)
  PROVE  /\ SlotsAreDistinct' /\ HeldIsOld'
         /\ Held(doc') = Held(doc) \/ Exchanged
<1>1. fresh \in Nat /\ fresh' \in {fresh, fresh + 1}
  BY EditRewrites DEF ReviewSafe, ReviewTypeOK, Rewritten
<1>2. ASSUME Held(doc') = Held(doc)
      PROVE  HeldIsOld'
  <2>1. ASSUME NEW h \in Held(doc)
        PROVE  h[2] \in Nat /\ h[2] < fresh'
    BY <1>1 DEF HeldIsOld
  <2> QED BY <1>2, <2>1 DEF HeldIsOld
<1>3. ASSUME Unmoved
      PROVE  SlotsAreDistinct' /\ Held(doc') = Held(doc)
  BY <1>3 DEF Unmoved, SlotsAreDistinct, Distinct
<1>4. ASSUME NEW id \in Ids(doc), NEW up \in BOOLEAN, Move(t, id, up)
      PROVE  SlotsAreDistinct' /\ Held(doc') = Held(doc)
  BY <1>3, <1>4, MoveKeepsThings
<1>5. ASSUME NEW id \in Ids(doc), IncludeReserve(t, id)
      PROVE  SlotsAreDistinct' /\ Held(doc') = Held(doc)
  BY <1>3, <1>5, IncludeKeepsThings
<1> QED BY <1>2, <1>4, <1>5, RemoveKeepsThings, RestoreKeepsThings, ReplaceExchangesOne DEF Edit

LEMMA ReviewKeepsThings ==
  ASSUME ReviewSafe, SlotsAreDistinct, HeldIsOld, [ReviewNext]_lessonVars
  PROVE  /\ SlotsAreDistinct' /\ HeldIsOld'
         /\ Held(doc') = Held(doc) \/ Exchanged
<1>1. ASSUME doc'.blocks = doc.blocks, doc'.rejected = doc.rejected, fresh' = fresh
      PROVE  SlotsAreDistinct' /\ HeldIsOld' /\ Held(doc') = Held(doc)
  <2>1. Ids(doc') = Ids(doc) /\ Held(doc') = Held(doc)
    BY <1>1 DEF Ids, Held
  <2> QED BY <1>1, <2>1 DEF SlotsAreDistinct, Distinct, HeldIsOld
<1>2. CASE DeleteLesson \/ UNCHANGED lessonVars
  BY <1>1, <1>2 DEF DeleteLesson, lessonVars, reviewVars
<1>3. \A flag \in BOOLEAN : /\ [doc EXCEPT !.accepted = flag].blocks = doc.blocks
                            /\ [doc EXCEPT !.accepted = flag].rejected = doc.rejected
  BY DEF ReviewSafe, ReviewTypeOK, Document
<1>4. ASSUME NEW t \in Tabs, Show(t) \/ Accept(t) \/ ReturnToDraft(t) \/ \E id : Acknowledge(t, id)
      PROVE  doc'.blocks = doc.blocks /\ doc'.rejected = doc.rejected /\ fresh' = fresh
  <2>1. CASE Show(t) \/ \E id : Acknowledge(t, id)
    BY <2>1 DEF Show, Acknowledge, reviewVars
  <2>2. CASE Accept(t)
    BY <1>3, <2>2 DEF Accept
  <2>3. CASE ReturnToDraft(t)
    BY <1>3, <2>3 DEF ReturnToDraft
  <2> QED BY <1>4, <2>1, <2>2, <2>3
<1> QED BY <1>1, <1>2, <1>4, EditKeepsThings DEF ReviewNext, Review

LEMMA InitIsDistinct == LessonInit => SlotsAreDistinct /\ HeldIsOld
<1> SUFFICES ASSUME LessonInit PROVE SlotsAreDistinct /\ HeldIsOld
  OBVIOUS
<1>1. /\ doc \in Document /\ Distinct(doc) /\ fresh = FirstFresh
      /\ \A i \in DOMAIN doc.blocks : doc.blocks[i].content < FirstFresh
      /\ \A i \in DOMAIN doc.rejected : doc.rejected[i].content < FirstFresh
  BY PublishedAssumption DEF LessonInit
<1>2. ASSUME NEW i \in DOMAIN doc.blocks
      PROVE  doc.blocks[i].content \in Nat
  BY <1>1, DocumentFields DEF Block
<1>3. ASSUME NEW i \in DOMAIN doc.rejected
      PROVE  doc.rejected[i].content \in Nat
  BY <1>1, DocumentFields DEF Entry
<1> QED BY <1>1, <1>2, <1>3 DEF SlotsAreDistinct, HeldIsOld, Held

(* Through every sequence of edits from any number of tabs, block ids stay   *)
(* unique and no activity is held twice in the plan and the tray, although   *)
(* remove, restore and include (lesson.py) move activities between the two.  *)
THEOREM SlotsStayDistinct == ReviewSpec => []SlotsAreDistinct
<1>1. LessonInit => ReviewSafe /\ SlotsAreDistinct /\ HeldIsOld
  BY ReviewInitSafe, InitIsDistinct
<1>2. (ReviewSafe /\ SlotsAreDistinct /\ HeldIsOld) /\ [ReviewNext]_lessonVars
        => (ReviewSafe /\ SlotsAreDistinct /\ HeldIsOld)'
  BY ReviewStepSafe, ReviewKeepsThings
<1> QED BY <1>1, <1>2, PTL DEF ReviewSpec

LEMMA ExchangeIsOfOne ==
  ASSUME doc \in Document, Held(doc') = Held(doc) \/ Exchanged
  PROVE  LET lost == Held(doc) \ Held(doc')
             new == Held(doc') \ Held(doc)
         IN  Cardinality(lost) = Cardinality(new) /\ Cardinality(lost) <= 1
<1>1. CASE Held(doc') = Held(doc)
  <2>1. Held(doc) \ Held(doc') = {} /\ Held(doc') \ Held(doc) = {}
    BY <1>1
  <2> QED BY <2>1, FS_EmptySet
<1>2. CASE Exchanged
  <2>1. PICK old \in Held(doc) : \E new :
          new \notin Held(doc) /\ Held(doc') = (Held(doc) \ {old}) \cup {new}
    BY <1>2 DEF Exchanged
  <2>2. PICK new : new \notin Held(doc) /\ Held(doc') = (Held(doc) \ {old}) \cup {new}
    BY <2>1
  <2>3. Held(doc) \ Held(doc') = {old} /\ Held(doc') \ Held(doc) = {new}
    BY <2>2
  <2>4. Cardinality({old}) = 1 /\ Cardinality({new}) = 1
    BY FS_Singleton
  <2> QED BY <2>3, <2>4
<1> QED BY <1>1, <1>2

(* No edit loses an activity or a notice: a step keeps everything the plan   *)
(* and the tray hold, or puts one new activity in the place of one old.      *)
THEOREM NothingIsLost == ReviewSpec => ActivitiesAreKept
<1>1. LessonInit => ReviewSafe /\ SlotsAreDistinct /\ HeldIsOld
  BY ReviewInitSafe, InitIsDistinct
<1>2. (ReviewSafe /\ SlotsAreDistinct /\ HeldIsOld) /\ [ReviewNext]_lessonVars
        => (ReviewSafe /\ SlotsAreDistinct /\ HeldIsOld)'
  BY ReviewStepSafe, ReviewKeepsThings
<1>3. (ReviewSafe /\ SlotsAreDistinct /\ HeldIsOld) /\ [ReviewNext]_lessonVars
        => [LET lost == Held(doc) \ Held(doc')
                new == Held(doc') \ Held(doc)
            IN  Cardinality(lost) = Cardinality(new) /\ Cardinality(lost) <= 1]_lessonVars
  BY ReviewKeepsThings, ExchangeIsOfOne DEF ReviewSafe, ReviewTypeOK
<1> QED BY <1>1, <1>2, <1>3, PTL DEF ReviewSpec, ActivitiesAreKept
-----------------------------------------------------------------------------
(* What is accepted.                                                         *)

(* A lesson is accepted only as it was reviewed: every block that asks for   *)
(* it has been acknowledged with its present content (accept_lesson).        *)
THEOREM AcceptedWasReviewed == ReviewSpec => []AcceptedIsReviewed
<1>1. ReviewSafe => AcceptedIsReviewed
  BY SafeIsReviewed
<1> QED BY <1>1, ReviewInitSafe, ReviewStepSafe, PTL DEF ReviewSpec

(* The acceptance columns, the flag in the document and the revision agree   *)
(* after every edit: any change of the document withdraws the acceptance.    *)
THEOREM AcceptanceStaysCurrent == ReviewSpec => []AcceptanceIsCurrent
<1>1. ReviewSafe => AcceptanceIsCurrent
  BY DEF ReviewSafe
<1> QED BY <1>1, ReviewInitSafe, ReviewStepSafe, PTL DEF ReviewSpec
=============================================================================
