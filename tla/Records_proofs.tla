--------------------------- MODULE Records_proofs ---------------------------
(***************************************************************************)
(* Proofs about records that several requests or a migration rewrite: the  *)
(* category tree (module Categories), product reviews (module Reviews) and *)
(* the repair of the order items (module Repair).                          *)
(***************************************************************************)
EXTENDS Categories, Reviews, Repair, TLAPS

-----------------------------------------------------------------------------
(* Categories.  An undisturbed walk has seen every row above the chosen     *)
(* parent, and the edited category is not among them; so a cycle through a  *)
(* new edge would leave a smaller one among the rows seen.                  *)

\* What WalkInv says of one request.
WalkOf(r) ==
    /\ r.pc = "save" => r.at = NoCat \/ r.chosen = NoCat
    /\ r.pc = "walk" => r.at \in Cats
    /\ r.pc # "idle" /\ ~r.overtaken /\ r.chosen # NoCat =>
          /\ r.chosen \in r.visited \cup {r.at}
          /\ r.cat \notin r.visited
          /\ \A x \in r.visited :
                parent[x] \in r.visited \cup {r.at, NoCat, NoRow}
          /\ r.pc = "walk" => parent[r.at] \in {r.up, NoCat, NoRow}

LEMMA CategoryInitConsistent == CategoryInit => CategoriesConsistent
BY DEF CategoryInit, CategoriesConsistent, CategoryTypeOK, WalkInv, IdleEditor,
   EditorState

\* A step that leaves the tree and the other requests alone.
LEMMA EditorFrame ==
    ASSUME CategoriesConsistent, NEW e \in Editors, NEW r \in EditorState,
           UNCHANGED parent, editor' = [editor EXCEPT ![e] = r], WalkOf(r)
    PROVE  CategoriesConsistent'
<1> USE DEF CategoriesConsistent
<1>1. CategoryTypeOK'
  BY DEF CategoryTypeOK
<1>2. ASSUME NEW x \in Editors PROVE WalkOf(editor[x])'
  BY <1>2 DEF CategoryTypeOK, WalkInv, WalkOf
<1>3. QED
  BY <1>1, <1>2 DEF WalkInv, WalkOf

LEMMA EditorEnds ==
    ASSUME CategoriesConsistent, NEW e \in Editors, Refuse(e) \/ AbandonForm(e)
    PROVE  CategoriesConsistent'
<1>1. IdleEditor \in EditorState /\ WalkOf(IdleEditor)
  BY DEF IdleEditor, EditorState, WalkOf
<1>2. QED
  BY <1>1, EditorFrame DEF Refuse, AbandonForm

LEMMA SubmitCategoryStep ==
    ASSUME CategoriesConsistent, NEW e \in Editors,
           NEW c \in Cats \cup {NoCat}, NEW p \in Cats \cup {NoCat},
           SubmitCategory(e, c, p)
    PROVE  CategoriesConsistent'
<1> DEFINE r == [pc |-> IF p = NoCat THEN "save" ELSE "walk", cat |-> c,
                 chosen |-> p, at |-> p,
                 up |-> IF p = NoCat THEN NoCat ELSE parent[p],
                 visited |-> {}, overtaken |-> FALSE]
<1>1. /\ UNCHANGED parent
      /\ editor' = [editor EXCEPT ![e] = r]
  BY DEF SubmitCategory
<1>2. p # NoCat => p \in Cats /\ parent[p] \in Cats \cup {NoCat}
  BY DEF SubmitCategory, Exists, CategoriesConsistent, CategoryTypeOK
<1>3. r \in EditorState
  BY <1>2 DEF EditorState
<1>4. WalkOf(r)
  BY <1>2 DEF WalkOf
<1> HIDE DEF r
<1>5. QED
  BY <1>1, <1>3, <1>4, EditorFrame

\* The walk takes the row in hand among those it has seen.
LEMMA ClimbStep ==
    ASSUME CategoriesConsistent, NEW e \in Editors, Climb(e)
    PROVE  CategoriesConsistent'
<1> DEFINE old == editor[e]
           r == [old EXCEPT !.pc = IF old.up = NoCat THEN "save" ELSE "walk",
                            !.visited = old.visited \cup {old.at},
                            !.at = old.up,
                            !.up = IF old.up = NoCat THEN NoCat ELSE parent[old.up]]
<1>1. /\ UNCHANGED parent
      /\ editor' = [editor EXCEPT ![e] = r]
      /\ old.pc = "walk"
      /\ old.at # old.cat
      /\ old.up # NoCat => parent[old.up] # NoRow
  BY DEF Climb, Refused, Exists
<1>2. old \in EditorState /\ old.at \in Cats /\ WalkOf(old)
  BY <1>1 DEF CategoriesConsistent, CategoryTypeOK, WalkInv, WalkOf
<1>3. old.up # NoCat => old.up \in Cats /\ parent[old.up] \in Cats \cup {NoCat}
  BY <1>1, <1>2 DEF EditorState, CategoriesConsistent, CategoryTypeOK
<1>4. /\ r.pc = IF old.up = NoCat THEN "save" ELSE "walk"
      /\ r.visited = old.visited \cup {old.at}
      /\ r.at = old.up
      /\ r.up = IF old.up = NoCat THEN NoCat ELSE parent[old.up]
      /\ r.cat = old.cat /\ r.chosen = old.chosen /\ r.overtaken = old.overtaken
  BY <1>2 DEF EditorState
<1>5. r \in EditorState
  BY <1>2, <1>3 DEF EditorState
<1>6. WalkOf(r)
  <2> HIDE DEF r
  <2>1. ASSUME ~old.overtaken, old.chosen # NoCat
        PROVE  /\ r.chosen \in r.visited \cup {r.at}
               /\ r.cat \notin r.visited
               /\ \A x \in r.visited :
                     parent[x] \in r.visited \cup {r.at, NoCat, NoRow}
               /\ r.pc = "walk" => parent[r.at] \in {r.up, NoCat, NoRow}
    BY <1>1, <1>2, <1>4, <2>1 DEF WalkOf
  <2>2. QED
    BY <1>3, <1>4, <2>1 DEF WalkOf
<1> HIDE DEF r
<1>7. QED
  BY <1>1, <1>5, <1>6, EditorFrame

\* Deleting a category only ends chains; no walk is misled by it.
LEMMA DeleteCategoryStep ==
    ASSUME CategoriesConsistent, NEW c \in Cats, DeleteCategory(c)
    PROVE  CategoriesConsistent' /\ (Cyclic' => Cyclic)
<1> USE DEF CategoriesConsistent, DeleteCategory
<1>1. CategoryTypeOK'
  BY DEF CategoryTypeOK
<1>2. \A x \in Cats : parent'[x] \in {parent[x], NoCat, NoRow}
  BY DEF CategoryTypeOK
<1>3. WalkInv'
  <2> SUFFICES ASSUME NEW e \in Editors PROVE WalkOf(editor[e])'
    BY DEF WalkInv, WalkOf
  <2>1. WalkOf(editor[e]) /\ editor'[e] = editor[e] /\ editor[e].visited \subseteq Cats
    BY DEF WalkInv, WalkOf, CategoryTypeOK, EditorState
  <2>2. QED
    BY <1>2, <2>1 DEF WalkOf
<1>4. ASSUME NEW S \in SUBSET Cats, S # {}, \A x \in S : parent'[x] \in S
      PROVE  Cyclic
  BY <1>2, <1>4, CategoryConstants DEF Cyclic
<1>5. QED
  BY <1>1, <1>3, <1>4 DEF Cyclic

\* A save that nothing has overtaken closes no cycle.
LEMMA SaveKeepsTree ==
    ASSUME CategoriesConsistent, NEW e \in Editors, SaveCategory(e),
           ~editor[e].overtaken, Cyclic'
    PROVE  Cyclic
<1> DEFINE r == editor[e]
<1>1. PICK c \in Cats : /\ IF r.cat = NoCat THEN FreshCat(c) ELSE c = r.cat
                        /\ parent' = [parent EXCEPT ![c] = r.chosen]
  BY DEF SaveCategory
<1>2. PICK S \in SUBSET Cats : S # {} /\ \A x \in S : parent'[x] \in S
  BY DEF Cyclic
<1>3. /\ parent'[c] = r.chosen
      /\ \A x \in Cats : x # c => parent'[x] = parent[x]
      /\ r.pc = "save"
      /\ WalkOf(r) /\ r.visited \subseteq Cats
  BY <1>1 DEF CategoriesConsistent, CategoryTypeOK, EditorState, WalkInv, WalkOf,
     SaveCategory
<1>4. CASE c \notin S
  BY <1>2, <1>3, <1>4 DEF Cyclic
<1>5. CASE c \in S
  <2>1. r.chosen \in S /\ r.chosen # NoCat
    BY <1>2, <1>3, <1>5, CategoryConstants
  <2>2. /\ r.chosen \in r.visited
        /\ r.cat \notin r.visited
        /\ \A x \in r.visited : parent[x] \in r.visited \cup {NoCat, NoRow}
    BY <1>2, <1>3, <2>1, CategoryConstants DEF WalkOf
  <2>3. c \notin r.visited
    BY <1>1, <2>2 DEF FreshCat
  <2>4. \A x \in S \cap r.visited : parent[x] \in S \cap r.visited
    BY <1>2, <1>3, <2>2, <2>3, CategoryConstants
  <2>5. S \cap r.visited # {} /\ S \cap r.visited \in SUBSET Cats
    BY <1>2, <2>1, <2>2
  <2>6. QED
    BY <2>4, <2>5 DEF Cyclic
<1>6. QED
  BY <1>4, <1>5

LEMMA SaveCategoryStep ==
    ASSUME CategoriesConsistent, NEW e \in Editors, SaveCategory(e)
    PROVE  CategoriesConsistent'
<1> USE DEF CategoriesConsistent
<1>1. IdleEditor \in EditorState
  BY DEF IdleEditor, EditorState
<1>2. ASSUME NEW x \in Editors
      PROVE  /\ editor'[x] \in EditorState
             /\ WalkOf(editor[x])'
  <2>1. editor[x] \in EditorState /\ WalkOf(editor[x])
    BY DEF CategoryTypeOK, WalkInv, WalkOf
  <2>2. CASE x = e \/ editor[x].pc = "idle"
    <3>1. editor'[x] = IdleEditor
      BY <2>2 DEF SaveCategory
    <3>2. QED
      BY <1>1, <3>1 DEF WalkOf, IdleEditor
  <2>3. CASE ~(x = e \/ editor[x].pc = "idle")
    <3>1. editor'[x] = [editor[x] EXCEPT !.overtaken = TRUE]
      BY <2>3 DEF SaveCategory
    <3>2. editor'[x] \in EditorState
      BY <2>1, <3>1 DEF EditorState
    <3>3. WalkOf(editor[x])'
      BY <2>1, <3>1 DEF WalkOf, EditorState
    <3>4. QED
      BY <3>2, <3>3
  <2>4. QED
    BY <2>2, <2>3
<1>3. parent' \in [Cats -> Cats \cup {NoCat, NoRow}]
  BY DEF SaveCategory, CategoryTypeOK, EditorState
<1>4. CategoryTypeOK'
  BY <1>2, <1>3 DEF CategoryTypeOK, SaveCategory
<1>5. QED
  BY <1>2, <1>4 DEF WalkInv, WalkOf

LEMMA CategoryStep ==
    ASSUME CategoriesConsistent, [CategoryNext]_categoryVars
    PROVE  /\ CategoriesConsistent'
           /\ Cyclic' => \/ Cyclic
                         \/ \E e \in Editors : /\ editor[e].pc = "save"
                                               /\ editor[e].overtaken
                                               /\ editor'[e] = IdleEditor
<1>1. ASSUME NEW e \in Editors, NEW c \in Cats \cup {NoCat},
             NEW p \in Cats \cup {NoCat}, SubmitCategory(e, c, p)
      PROVE  CategoriesConsistent' /\ UNCHANGED parent
  BY <1>1, SubmitCategoryStep DEF SubmitCategory
<1>2. ASSUME NEW e \in Editors, Climb(e) \/ Refuse(e) \/ AbandonForm(e)
      PROVE  CategoriesConsistent' /\ UNCHANGED parent
  BY <1>2, ClimbStep, EditorEnds DEF Climb, Refuse, AbandonForm
<1>3. ASSUME NEW e \in Editors, SaveCategory(e)
      PROVE  /\ CategoriesConsistent'
             /\ editor[e].pc = "save" /\ editor'[e] = IdleEditor
             /\ ~editor[e].overtaken /\ Cyclic' => Cyclic
  BY <1>3, SaveCategoryStep, SaveKeepsTree DEF SaveCategory
<1>4. ASSUME NEW c \in Cats, DeleteCategory(c)
      PROVE  CategoriesConsistent' /\ (Cyclic' => Cyclic)
  BY <1>4, DeleteCategoryStep
<1>5. CASE UNCHANGED categoryVars
  BY <1>5 DEF categoryVars, CategoriesConsistent, CategoryTypeOK, WalkInv, Cyclic
<1>6. UNCHANGED parent => (Cyclic' => Cyclic)
  BY DEF Cyclic
<1>7. QED
  BY <1>1, <1>2, <1>3, <1>4, <1>5, <1>6 DEF CategoryNext

\* Types, and what the walks know, in every state.
THEOREM CategoriesAlwaysConsistent == CategorySpec => []CategoriesConsistent
BY CategoryInitConsistent, CategoryStep, PTL DEF CategorySpec

\* Only a save overtaken by another one can close a cycle.
THEOREM CyclesComeOfRaces == CategorySpec => CycleOnlyByRace
<1>1. CategoriesConsistent /\ [CategoryNext]_categoryVars =>
        [Cyclic' => \/ Cyclic
                    \/ \E e \in Editors : /\ editor[e].pc = "save"
                                          /\ editor[e].overtaken
                                          /\ editor'[e] = IdleEditor]_categoryVars
  BY CategoryStep
<1>2. QED
  BY <1>1, CategoriesAlwaysConsistent, PTL DEF CategorySpec, CycleOnlyByRace

(* Reviews.  Nothing but a staff request writes a published review, and it  *)
(* writes the one it holds.                                                 *)

Rows == [ReviewIds -> Review \cup {NoReview}]
DeskState == [at : {"closed", "list", "form", "save"}, page : Rows, write : Rows]

LEMMA DeskTypes == Blank \in Rows /\ ClosedDesk \in DeskState
BY DEF Blank, Rows, ClosedDesk, DeskState

LEMMA ReviewInitType == ReviewInit => ReviewTypeOK
BY DeskTypes DEF ReviewInit, ReviewTypeOK, Rows, DeskState

LEMMA Approve ==
    ASSUME NEW x \in Review, NEW b \in BOOLEAN
    PROVE  [x EXCEPT !.approved = b] \in Review
BY DEF Review

LEMMA Ticked ==
    ASSUME NEW x \in Review, NEW i, NEW ticked
    PROVE  [x EXCEPT !.approved = i \in ticked] \in Review
<1>1. (i \in ticked) \in BOOLEAN
  OBVIOUS
<1>2. QED
  BY <1>1, Approve, Zenon

\* What customers and the admin's deletion do.
LEMMA CustomerStep ==
    ASSUME ReviewTypeOK,
           \/ \E k \in Pairs, t \in Texts : SaveReview(k, t)
           \/ \E i \in ReviewIds : DeleteReview(i)
    PROVE  /\ ReviewTypeOK'
           /\ \A i \in ReviewIds : ~Published(i)
<1>1. ASSUME NEW k \in Pairs, NEW t \in Texts, SaveReview(k, t)
      PROVE  ReviewTypeOK' /\ \A i \in ReviewIds : ~Published(i)
  <2>1. PICK j \in ReviewIds :
           review' = [review EXCEPT ![j] = [of |-> k, text |-> t, approved |-> FALSE]]
    BY <1>1 DEF SaveReview
  <2>2. [of |-> k, text |-> t, approved |-> FALSE] \in Review
    BY DEF Review
  <2>3. ReviewTypeOK'
    BY <1>1, <2>1, <2>2 DEF ReviewTypeOK, SaveReview
  <2>4. \A i \in ReviewIds : i = j \/ review'[i] = review[i]
    BY <2>1 DEF ReviewTypeOK
  <2>5. ~review'[j].approved
    BY <2>1 DEF ReviewTypeOK
  <2>6. QED
    BY <2>3, <2>4, <2>5 DEF Published, Public, Listed
<1>2. ASSUME NEW j \in ReviewIds, DeleteReview(j)
      PROVE  ReviewTypeOK' /\ \A i \in ReviewIds : ~Published(i)
  BY <1>2 DEF DeleteReview, ReviewTypeOK, Published, Public, Listed
<1>3. QED
  BY <1>1, <1>2

\* What a staff page does before its save.
LEMMA PageStep ==
    ASSUME ReviewTypeOK, NEW s \in Desks,
           \/ OpenList(s)
           \/ \E i \in ReviewIds : OpenReview(s, i)
           \/ \E ticked \in SUBSET ReviewIds : SubmitList(s, ticked)
           \/ \E approved \in BOOLEAN : SubmitReview(s, approved)
           \/ CloseDesk(s)
    PROVE  /\ ReviewTypeOK'
           /\ \A i \in ReviewIds : ~Published(i)
<1>1. UNCHANGED review
  BY DEF OpenList, OpenReview, SubmitList, SubmitReview, CloseDesk
<1>2. review \in Rows /\ desk \in [Desks -> DeskState] /\ desk[s] \in DeskState
  BY DEF ReviewTypeOK, Rows, DeskState
<1>3. PICK d : desk' = [desk EXCEPT ![s] = d] /\ d \in DeskState
  <2>1. CASE OpenList(s)
    <3>1. [ClosedDesk EXCEPT !.at = "list", !.page = review] \in DeskState
      BY <1>2, DeskTypes DEF DeskState
    <3>2. QED
      BY <2>1, <3>1 DEF OpenList
  <2>2. ASSUME NEW i \in ReviewIds, OpenReview(s, i)
        PROVE  \E d : desk' = [desk EXCEPT ![s] = d] /\ d \in DeskState
    <3>1. [Blank EXCEPT ![i] = review[i]] \in Rows
      BY <1>2, DeskTypes DEF Rows
    <3>2. [ClosedDesk EXCEPT !.at = "form",
                             !.page = [Blank EXCEPT ![i] = review[i]]] \in DeskState
      BY <3>1, DeskTypes DEF DeskState
    <3>3. QED
      BY <2>2, <3>2 DEF OpenReview
  <2>3. ASSUME NEW w \in Rows
        PROVE  [desk[s] EXCEPT !.at = "save", !.write = w] \in DeskState
    BY <1>2 DEF DeskState
  <2>4. ASSUME NEW ticked \in SUBSET ReviewIds, SubmitList(s, ticked)
        PROVE  \E d : desk' = [desk EXCEPT ![s] = d] /\ d \in DeskState
    <3> DEFINE w == [i \in ReviewIds |->
              IF i \in Listed(desk[s].page) /\ review[i].approved # (i \in ticked)
              THEN [review[i] EXCEPT !.approved = i \in ticked] ELSE NoReview]
    <3>1. ASSUME NEW i \in ReviewIds, i \in Listed(desk[s].page)
          PROVE  [review[i] EXCEPT !.approved = i \in ticked] \in Review
      <4>1. review[i] \in Review
        BY <1>2, <2>4, <3>1 DEF SubmitList, Listed, Rows
      <4>2. QED
        BY <4>1, Ticked, Zenon
    <3>2. w \in Rows
      BY <3>1 DEF Rows
    <3>3. desk' = [desk EXCEPT ![s] = [desk[s] EXCEPT !.at = "save", !.write = w]]
      BY <1>2, <2>4 DEF SubmitList
    <3> HIDE DEF w
    <3>4. QED
      BY <2>3, <3>2, <3>3
  <2>5. ASSUME NEW approved \in BOOLEAN, SubmitReview(s, approved)
        PROVE  \E d : desk' = [desk EXCEPT ![s] = d] /\ d \in DeskState
    <3> DEFINE w == [i \in ReviewIds |->
              IF i \in Listed(desk[s].page)
              THEN [desk[s].page[i] EXCEPT !.approved = approved] ELSE NoReview]
    <3>1. ASSUME NEW i \in ReviewIds, i \in Listed(desk[s].page)
          PROVE  [desk[s].page[i] EXCEPT !.approved = approved] \in Review
      <4>1. desk[s].page[i] \in Review
        BY <1>2, <3>1 DEF Listed, Rows, DeskState
      <4>2. QED
        BY <4>1, Approve
    <3>2. w \in Rows
      BY <3>1 DEF Rows
    <3>3. desk' = [desk EXCEPT ![s] = [desk[s] EXCEPT !.at = "save", !.write = w]]
      BY <1>2, <2>5 DEF SubmitReview
    <3> HIDE DEF w
    <3>4. QED
      BY <2>3, <3>2, <3>3
  <2>6. CASE CloseDesk(s)
    BY <2>6, DeskTypes DEF CloseDesk
  <2>7. QED
    BY <2>1, <2>2, <2>4, <2>5, <2>6
<1>4. QED
  BY <1>1, <1>2, <1>3 DEF ReviewTypeOK, Rows, DeskState, Published, Public, Listed

LEMMA CommitDeskStep ==
    ASSUME ReviewTypeOK, NEW s \in Desks, CommitDesk(s)
    PROVE  /\ ReviewTypeOK'
           /\ \A i \in ReviewIds : Published(i) =>
                 /\ desk[s].at = "save" /\ desk'[s] = ClosedDesk
                 /\ desk[s].write[i].text = review'[i].text
<1>1. desk[s].write \in Rows
  BY DEF ReviewTypeOK, Rows
<1>2. ReviewTypeOK'
  <2>1. review' \in Rows
    BY <1>1 DEF CommitDesk, Saved, ReviewTypeOK, Rows
  <2>2. desk' \in [Desks -> DeskState]
    BY DeskTypes DEF CommitDesk, ReviewTypeOK, Rows, DeskState
  <2>3. QED
    BY <2>1, <2>2 DEF ReviewTypeOK, Rows, DeskState
<1>3. desk[s].at = "save" /\ desk'[s] = ClosedDesk
  BY DEF CommitDesk, ReviewTypeOK
<1>4. \A i \in ReviewIds : review'[i] = desk[s].write[i] \/ review'[i] = review[i]
  BY DEF CommitDesk, Saved
<1>5. QED
  BY <1>2, <1>3, <1>4 DEF Published, Public, Listed

LEMMA ReviewStep ==
    ASSUME ReviewTypeOK, [ReviewNext]_reviewVars
    PROVE  /\ ReviewTypeOK'
           /\ \A i \in ReviewIds : Published(i) =>
                 \E s \in Desks : /\ desk[s].at = "save" /\ desk'[s] = ClosedDesk
                                  /\ desk[s].write[i].text = review'[i].text
<1>1. ASSUME NEW s \in Desks, CommitDesk(s)
      PROVE  /\ ReviewTypeOK'
             /\ \A i \in ReviewIds : Published(i) =>
                   \E d \in Desks : /\ desk[d].at = "save" /\ desk'[d] = ClosedDesk
                                    /\ desk[d].write[i].text = review'[i].text
  BY <1>1, CommitDeskStep
<1>2. CASE UNCHANGED reviewVars
  BY <1>2 DEF reviewVars, ReviewTypeOK, Published, Public, Listed
<1>3. QED
  BY <1>1, <1>2, CustomerStep, PageStep DEF ReviewNext

\* Rows and pages keep their types.
THEOREM ReviewsTyped == ReviewSpec => []ReviewTypeOK
BY ReviewInitType, ReviewStep, PTL DEF ReviewSpec

\* A text becomes public only by a staff request that had that text in hand.
THEOREM TextsPublishedByStaff == ReviewSpec => PublishedByStaff
<1>1. ReviewTypeOK /\ [ReviewNext]_reviewVars =>
        [\A i \in ReviewIds : Published(i) =>
            \E s \in Desks : /\ desk[s].at = "save" /\ desk'[s] = ClosedDesk
                             /\ desk[s].write[i].text = review'[i].text]_reviewVars
  BY ReviewStep
<1>2. QED
  BY <1>1, ReviewsTyped, PTL DEF ReviewSpec, PublishedByStaff

-----------------------------------------------------------------------------
(* The repair. *)

LEMMA RepairInitConsistent == RepairInit => RepairConsistent
<1> SUFFICES ASSUME RepairInit PROVE RepairConsistent
  OBVIOUS
<1> USE DEF RepairInit
<1>1. NewTable \in Table
  BY DEF NewTable, NoRows, Table
<1>2. RepairTypeOK
  BY <1>1 DEF RepairTypeOK, NoDraft, Steps
<1>3. RepairIsWhole
  BY DEF RepairIsWhole
<1>4. DraftIsCopy /\ RepairStays /\ KeysOff
  BY DEF DraftIsCopy, RepairStays, KeysOff, NoDraft, InTransaction
<1>5. QED
  BY <1>2, <1>3, <1>4 DEF RepairConsistent

\* Statements that leave the table and the transaction's copy alone.
LEMMA StatementKeeps ==
    ASSUME RepairConsistent,
           Inspect \/ RefuseTable \/ TurnOff \/ CheckTemp \/ Replace
             \/ Restore \/ Leave
    PROVE  RepairConsistent'
<1> USE RepairConstants DEF RepairConsistent, RepairTypeOK
<1>1. UNCHANGED <<table, goods, ordersKnown, draft>>
  BY DEF Inspect, RefuseTable, TurnOff, CheckTemp, Replace, Restore, Leave,
     serverVars
<1>2. step' \in Steps /\ {fkOn', fkWas', applied'} \subseteq BOOLEAN
  BY DEF Inspect, RefuseTable, TurnOff, CheckTemp, Replace, Restore, Leave, Steps
<1>3. /\ step' \in InTransaction <=> step \in InTransaction
      /\ step' \in InTransaction \ {"copy"} => step \in InTransaction \ {"copy"}
      /\ step' # "commit"
  BY DEF Inspect, RefuseTable, TurnOff, CheckTemp, Replace, Restore, Leave,
     InTransaction
<1>4. DraftIsCopy'
  BY <1>1, <1>3 DEF DraftIsCopy, Survivor, Orphan
<1>5. RepairStays'
  BY <1>1 DEF RepairStays, Repaired, Inspect, RefuseTable, TurnOff, CheckTemp,
     Replace, Restore, Leave
<1>6. KeysOff'
  BY DEF KeysOff, Inspect, RefuseTable, TurnOff, CheckTemp, Replace, Restore,
     Leave
<1>7. applied' => applied \/ Repaired(table)
  BY DEF RepairStays, Inspect, RefuseTable, TurnOff, CheckTemp, Replace,
     Restore, Leave
<1>8. RepairIsWhole'
  BY <1>1, <1>7 DEF RepairIsWhole, Orphan, Repaired
<1>9. QED
  BY <1>1, <1>2, <1>4, <1>5, <1>6, <1>8

\* A step of the transaction, given what it makes of the copy.
LEMMA DraftStep ==
    ASSUME RepairConsistent,
           step' \in InTransaction,
           UNCHANGED <<table, serverVars, fkOn, fkWas, applied>>,
           draft' \in [temp : Table, locked : BOOLEAN],
           DraftIsCopy',
           step # "off"  \* foreign_keys is settled before
    PROVE  RepairConsistent'
<1> USE DEF RepairConsistent, serverVars
<1>1. RepairTypeOK'
  BY DEF RepairTypeOK, InTransaction, Steps
<1>2. RepairIsWhole'
  BY DEF RepairIsWhole, Orphan, Repaired
<1>3. RepairStays' /\ KeysOff'
  BY DEF RepairStays, KeysOff, InTransaction
<1>4. QED
  BY <1>1, <1>2, <1>3

LEMMA CreateTempStep ==
    ASSUME RepairConsistent, CreateTemp PROVE RepairConsistent'
<1>1. NewTable \in Table
  BY DEF NewTable, NoRows, Table
<1>2. draft' \in [temp : Table, locked : BOOLEAN]
  BY <1>1 DEF CreateTemp
<1>3. DraftIsCopy'
  BY DEF DraftIsCopy, CreateTemp, NewTable, InTransaction
<1>4. QED
  BY <1>2, <1>3, DraftStep DEF CreateTemp, InTransaction

LEMMA CopyRowsStep ==
    ASSUME RepairConsistent, CopyRows PROVE RepairConsistent'
<1> DEFINE copied == [i \in Items |-> IF Orphan(table.rows, i) THEN Null
                                      ELSE table.rows[i]]
<1>1. draft \in [temp : Table, locked : BOOLEAN] /\ table \in Table
  BY DEF RepairConsistent, RepairTypeOK
<1>2. copied \in [Items -> Goods \cup {Null, NoItem}]
  BY <1>1 DEF Table
<1>3. draft' = [draft EXCEPT !.temp.rows = copied]
  BY DEF CopyRows
<1> HIDE DEF copied
<1>4. draft' \in [temp : Table, locked : BOOLEAN]
  BY <1>1, <1>2, <1>3 DEF Table
<1>5. /\ draft'.locked = draft.locked /\ draft'.temp.rows = copied
      /\ draft'.temp.fk = draft.temp.fk
      /\ draft'.temp.notNull = draft.temp.notNull
  BY <1>1, <1>3 DEF Table
<1>6. copied = [i \in Items |-> Survivor(i)']
  BY DEF copied, CopyRows, serverVars, Survivor, Orphan
<1>7. DraftIsCopy'
  BY <1>5, <1>6 DEF DraftIsCopy, RepairConsistent, CopyRows, InTransaction
<1>8. QED
  BY <1>4, <1>7, DraftStep DEF CopyRows, InTransaction

LEMMA MakeIndexesStep ==
    ASSUME RepairConsistent, MakeIndexes PROVE RepairConsistent'
<1>1. draft \in [temp : Table, locked : BOOLEAN]
  BY DEF RepairConsistent, RepairTypeOK
<1>2. draft' \in [temp : Table, locked : BOOLEAN]
  BY <1>1 DEF MakeIndexes, Table
<1>3. /\ draft'.locked = draft.locked /\ draft'.temp.rows = draft.temp.rows
      /\ draft'.temp.fk = draft.temp.fk /\ draft'.temp.indexed
      /\ draft'.temp.notNull = draft.temp.notNull
  BY <1>1 DEF MakeIndexes, Table
<1>4. [i \in Items |-> Survivor(i)] = [i \in Items |-> Survivor(i)']
  BY DEF MakeIndexes, serverVars, Survivor, Orphan
<1>5. DraftIsCopy'
  BY <1>3, <1>4 DEF DraftIsCopy, RepairConsistent, MakeIndexes, InTransaction
<1>6. QED
  BY <1>2, <1>5, DraftStep DEF MakeIndexes, InTransaction

\* The copy that is committed is whole, because orphans lost their product.
LEMMA CommitStep ==
    ASSUME RepairConsistent, CommitRepair PROVE RepairConsistent'
<1> USE DEF RepairConsistent
<1>1. /\ draft \in [temp : Table, locked : BOOLEAN] /\ NewTable \in Table
      /\ table \in Table
  BY DEF RepairTypeOK, NewTable, NoRows, Table
<1>2. RepairTypeOK'
  BY <1>1 DEF RepairTypeOK, CommitRepair, NoDraft, Steps, serverVars
<1>3. Repaired(table)' /\ table'.indexed
  BY DEF CommitRepair, DraftIsCopy, InTransaction, Repaired
<1>4. ASSUME NEW i \in Items PROVE ~Orphan(table.rows, i)'
  <2>1. table'.rows[i] = Survivor(i) /\ goods' = goods
    BY <1>4 DEF CommitRepair, DraftIsCopy, InTransaction, serverVars
  <2>2. QED
    BY <2>1 DEF Survivor, Orphan
<1>5. RepairIsWhole'
  BY <1>3, <1>4 DEF RepairIsWhole, Repaired
<1>6. DraftIsCopy' /\ RepairStays' /\ KeysOff'
  BY <1>3 DEF DraftIsCopy, RepairStays, KeysOff, CommitRepair, InTransaction,
     NoDraft
<1>7. QED
  BY <1>2, <1>5, <1>6

\* A rollback and a crash forget the copy and leave the table as committed.
LEMMA RollbackStep ==
    ASSUME RepairConsistent, Undo \/ Crash PROVE RepairConsistent'
<1> USE DEF RepairConsistent
<1>1. NewTable \in Table
  BY DEF NewTable, NoRows, Table
<1>2. /\ UNCHANGED <<table, goods, ordersKnown, applied>>
      /\ draft' = NoDraft
      /\ step' \in {"idle", "undone"}
      /\ fkOn' \in BOOLEAN /\ fkWas' \in BOOLEAN
      /\ fkOn' => fkWas'
      /\ step' = "idle" => fkOn' = fkWas'
  <2>1. CASE Undo
    BY <2>1 DEF Undo, serverVars, RepairTypeOK, KeysOff
  <2>2. CASE Crash
    BY <2>2 DEF Crash, serverVars
  <2>3. QED
    BY <2>1, <2>2
<1>3. RepairTypeOK'
  BY <1>1, <1>2 DEF RepairTypeOK, NoDraft, Steps
<1>4. RepairIsWhole'
  BY <1>2 DEF RepairIsWhole, Orphan, Repaired
<1>5. DraftIsCopy' /\ RepairStays' /\ KeysOff'
  BY <1>2 DEF DraftIsCopy, RepairStays, KeysOff, NoDraft, InTransaction
<1>6. QED
  BY <1>3, <1>4, <1>5

\* The server changes rows and products, never the statement of the table, and
\* never under the migration's lock.
LEMMA ServerFrame ==
    ASSUME RepairConsistent, ~draft.locked,
           NEW rows \in [Items -> Goods \cup {Null, NoItem}],
           table' = [table EXCEPT !.rows = rows],
           goods' \subseteq Goods,
           UNCHANGED <<ordersKnown, draft, step, fkOn, fkWas, applied>>,
           table.fk => \A i \in Items : rows[i] \in goods' \cup {Null, NoItem},
           table.notNull => \A i \in Items : rows[i] # Null
    PROVE  RepairConsistent'
<1> USE DEF RepairConsistent
<1>1. table \in Table
  BY DEF RepairTypeOK
<1>2. /\ table' \in Table /\ table'.rows = rows /\ table'.fk = table.fk
      /\ table'.notNull = table.notNull /\ table'.indexed = table.indexed
  BY <1>1 DEF Table
<1>3. RepairTypeOK'
  BY <1>2 DEF RepairTypeOK
<1>4. RepairIsWhole'
  BY <1>2 DEF RepairIsWhole, Orphan, Repaired
<1>5. DraftIsCopy' /\ RepairStays' /\ KeysOff'
  BY <1>2 DEF DraftIsCopy, RepairStays, KeysOff, Repaired
<1>6. QED
  BY <1>3, <1>4, <1>5

LEMMA WriteItemStep ==
    ASSUME RepairConsistent, NEW i \in Items, NEW p \in Goods \cup {NoItem},
           WriteItem(i, p)
    PROVE  RepairConsistent'
<1> DEFINE rows == [table.rows EXCEPT ![i] = p]
<1>1. /\ table \in Table /\ goods \subseteq Goods
      /\ table.fk => \A x \in Items : ~Orphan(table.rows, x)
      /\ table.notNull => \A x \in Items : table.rows[x] # Null
  BY DEF RepairConsistent, RepairTypeOK, RepairIsWhole
<1>2. table.rows \in [Items -> Goods \cup {Null, NoItem}]
  BY <1>1 DEF Table
<1>3. rows \in [Items -> Goods \cup {Null, NoItem}]
  BY <1>2
<1>4. table' = [table EXCEPT !.rows = rows]
  BY <1>1 DEF WriteItem, Table
<1>5. /\ ~draft.locked /\ goods' = goods /\ (p = NoItem \/ p \in goods)
      /\ UNCHANGED <<ordersKnown, draft, step, fkOn, fkWas, applied>>
  BY DEF WriteItem, serverVars
<1>6. table.fk => \A x \in Items : rows[x] \in goods' \cup {Null, NoItem}
  BY <1>1, <1>2, <1>5 DEF Orphan
<1>7. table.notNull => \A x \in Items : rows[x] # Null
  BY <1>1, <1>2, RepairConstants
<1> HIDE DEF rows
<1>8. QED
  BY <1>1, <1>3, <1>4, <1>5, <1>6, <1>7, ServerFrame

LEMMA NewProductStep ==
    ASSUME RepairConsistent, NEW p \in Goods, NewProduct(p)
    PROVE  RepairConsistent'
<1>1. /\ table \in Table /\ goods \subseteq Goods
      /\ table.fk => \A x \in Items : ~Orphan(table.rows, x)
      /\ table.notNull => \A x \in Items : table.rows[x] # Null
  BY DEF RepairConsistent, RepairTypeOK, RepairIsWhole
<1>2. /\ table.rows \in [Items -> Goods \cup {Null, NoItem}]
      /\ table' = [table EXCEPT !.rows = table.rows]
  BY <1>1 DEF Table, NewProduct
<1>3. /\ ~draft.locked /\ goods' = goods \cup {p}
      /\ UNCHANGED <<ordersKnown, draft, step, fkOn, fkWas, applied>>
  BY DEF NewProduct
<1>4. table.fk =>
        \A x \in Items : table.rows[x] \in goods' \cup {Null, NoItem}
  BY <1>1, <1>3 DEF Orphan
<1>5. QED
  BY <1>1, <1>2, <1>3, <1>4, ServerFrame

LEMMA RemoveProductStep ==
    ASSUME RepairConsistent, NEW p \in Goods, RemoveProduct(p)
    PROVE  RepairConsistent'
<1> DEFINE rows == [i \in Items |-> IF table.rows[i] = p THEN Null
                                    ELSE table.rows[i]]
<1>1. /\ table \in Table /\ goods \subseteq Goods
      /\ table.fk => \A x \in Items : ~Orphan(table.rows, x)
      /\ table.notNull => \A x \in Items : table.rows[x] # Null
  BY DEF RepairConsistent, RepairTypeOK, RepairIsWhole
<1>2. table.rows \in [Items -> Goods \cup {Null, NoItem}]
  BY <1>1 DEF Table
<1>3. /\ rows \in [Items -> Goods \cup {Null, NoItem}]
      /\ table' = [table EXCEPT !.rows = rows]
  BY <1>2 DEF RemoveProduct
<1>4. /\ ~draft.locked /\ goods' = goods \ {p}
      /\ UNCHANGED <<ordersKnown, draft, step, fkOn, fkWas, applied>>
  BY DEF RemoveProduct
<1>5. table.fk => \A x \in Items : rows[x] \in goods' \cup {Null, NoItem}
  BY <1>1, <1>2, <1>4 DEF Orphan
<1>6. table.notNull => \A x \in Items : rows[x] # Null
  BY <1>1, <1>2 DEF RemoveProduct
<1> HIDE DEF rows
<1>7. QED
  BY <1>1, <1>3, <1>4, <1>5, <1>6, ServerFrame

LEMMA RepairStep ==
    RepairConsistent /\ [RepairNext]_repairVars => RepairConsistent'
<1> SUFFICES ASSUME RepairConsistent, [RepairNext]_repairVars
             PROVE  RepairConsistent'
  OBVIOUS
<1>1. CASE Migration
  BY <1>1, StatementKeeps, CreateTempStep, CopyRowsStep, MakeIndexesStep,
     CommitStep, RollbackStep DEF Migration
<1>2. CASE \E i \in Items, p \in Goods \cup {NoItem} : WriteItem(i, p)
  BY <1>2, WriteItemStep
<1>3. CASE \E p \in Goods : NewProduct(p) \/ RemoveProduct(p)
  BY <1>3, NewProductStep, RemoveProductStep
<1>4. CASE UNCHANGED repairVars
  BY <1>4 DEF repairVars, RepairConsistent, RepairTypeOK, RepairIsWhole,
     DraftIsCopy, RepairStays, KeysOff, Survivor, Orphan, Repaired
<1>5. QED
  BY <1>1, <1>2, <1>3, <1>4 DEF RepairNext

\* The invariant of the repair holds for any items and products, whatever fails
\* and wherever the process dies.
THEOREM RepairAlwaysConsistent == RepairSpec => []RepairConsistent
<1>1. QED
  BY RepairInitConsistent, RepairStep, PTL DEF RepairSpec

\* The order item table is whole at every statement of the migration.
THEOREM RepairAlwaysWhole == RepairSpec => []RepairIsWhole
<1>1. RepairConsistent => RepairIsWhole
  BY DEF RepairConsistent
<1>2. QED
  BY <1>1, RepairAlwaysConsistent, PTL

\* foreign_keys is restored on every way out of the migration.
THEOREM ForeignKeysRestored == RepairSpec => []ForeignKeysBack
<1>1. RepairConsistent => ForeignKeysBack
  BY DEF RepairConsistent, KeysOff, ForeignKeysBack
<1>2. QED
  BY <1>1, RepairAlwaysConsistent, PTL

LEMMA HistoryStep ==
    ASSUME RepairConsistent, RepairNext, step' # step, NEW i \in Items
    PROVE  \/ table'.rows[i] = table.rows[i]
           \/ Orphan(table.rows, i) /\ table'.rows[i] = Null
<1>1. CASE CommitRepair
  <2>1. table'.rows[i] = Survivor(i)
    BY <1>1 DEF CommitRepair, RepairConsistent, DraftIsCopy, InTransaction
  <2>2. QED
    BY <2>1 DEF Survivor
<1>2. CASE ~CommitRepair
  <2>1. table' = table
    BY <1>2 DEF RepairNext, Migration, Inspect, RefuseTable, TurnOff, CreateTemp,
       CopyRows, CheckTemp, Replace, MakeIndexes, Undo, Restore, Leave, Crash,
       WriteItem, NewProduct, RemoveProduct
  <2>2. QED
    BY <2>1
<1>3. QED
  BY <1>1, <1>2

\* The migration takes from no item a product that exists, and loses no item.
THEOREM HistoryAlwaysKept == RepairSpec => HistoryKept
<1>1. RepairConsistent /\ [RepairNext]_repairVars =>
        [step' # step =>
           \A i \in Items : \/ table'.rows[i] = table.rows[i]
                            \/ /\ Orphan(table.rows, i)
                               /\ table'.rows[i] = Null]_repairVars
  BY HistoryStep
<1>2. QED
  BY <1>1, RepairAlwaysConsistent, PTL DEF RepairSpec, HistoryKept
=============================================================================
