----------------------------- MODULE Categories -----------------------------
(***************************************************************************)
(* The tree of product categories (catalog/models/category.py) as the       *)
(* admin form edits it (CategoryAdmin, catalog/admin.py).                   *)
(*                                                                         *)
(* Category.clean walks from the chosen parent upwards, one query a step,   *)
(* and refuses to put a category below itself.  Nothing is locked: other    *)
(* forms are saved and categories deleted between any two steps, and the    *)
(* category is saved later, by its whole row.  Names, slugs and is_active   *)
(* are left out.                                                            *)
(***************************************************************************)
EXTENDS Integers

CONSTANTS
    Cats,
    Editors,    \* requests that submit the category form
    NoCat,      \* no parent (null); also the pk of a category not yet saved
    NoRow       \* the category does not exist

ASSUME CategoryConstants == NoCat \notin Cats /\ NoRow \notin Cats /\ NoCat # NoRow

VARIABLES
    parent,     \* Category.parent_id, by primary key
    editor      \* what each request knows

categoryVars == <<parent, editor>>

\* cat is the category edited, chosen its new parent; at and up are the pk and
\* the parent_id of the row the walk has in hand.  overtaken is history: some
\* other form was saved since this one was submitted.
EditorState == [pc : {"idle", "walk", "save"}, cat : Cats \cup {NoCat},
                chosen : Cats \cup {NoCat}, at : Cats \cup {NoCat},
                up : Cats \cup {NoCat}, visited : SUBSET Cats,
                overtaken : BOOLEAN]
IdleEditor == [pc |-> "idle", cat |-> NoCat, chosen |-> NoCat, at |-> NoCat,
               up |-> NoCat, visited |-> {}, overtaken |-> FALSE]

Exists(c) == parent[c] # NoRow

CategoryInit ==
    /\ parent = [c \in Cats |-> NoRow]
    /\ editor = [e \in Editors |-> IdleEditor]

\* A new row's id; that of a deleted row no request remembers is as good.
FreshCat(c) ==
    /\ ~Exists(c)
    /\ \A e \in Editors : c \notin editor[e].visited
          \cup {editor[e].cat, editor[e].chosen, editor[e].at, editor[e].up}

\* The form is submitted, for a new category or an existing one.  Reading the
\* field loads the parent's row; a category chosen as its own parent is refused.
SubmitCategory(e, c, p) ==
    /\ editor[e].pc = "idle"
    /\ c # NoCat => Exists(c) /\ p # c
    /\ p # NoCat => Exists(p)
    /\ editor' = [editor EXCEPT
          ![e] = [pc |-> IF p = NoCat THEN "save" ELSE "walk", cat |-> c,
                  chosen |-> p, at |-> p,
                  up |-> IF p = NoCat THEN NoCat ELSE parent[p],
                  visited |-> {}, overtaken |-> FALSE]]
    /\ UNCHANGED parent

\* What ends the walk with a ValidationError; a parent deleted meanwhile is an
\* error of its own (DoesNotExist).
Refused(e) ==
    LET r == editor[e] IN
    \/ r.at \in r.visited
    \/ r.at = r.cat
    \/ r.up # NoCat /\ ~Exists(r.up)

\* Mutants of Climb: the rows visited are not looked at; only the parent is.
ClimbBlindly(e) ==
    LET r == editor[e] IN
    /\ r.pc = "walk" /\ r.at # r.cat /\ (r.up # NoCat => Exists(r.up))
    /\ editor' = [editor EXCEPT
          ![e] = [r EXCEPT !.pc = IF r.up = NoCat THEN "save" ELSE "walk",
                           !.visited = @ \cup {r.at}, !.at = r.up,
                           !.up = IF r.up = NoCat THEN NoCat ELSE parent[r.up]]]
    /\ UNCHANGED parent
ClimbOnce(e) ==
    /\ editor[e].pc = "walk" /\ ~Refused(e)
    /\ editor' = [editor EXCEPT ![e] = [@ EXCEPT !.pc = "save"]]
    /\ UNCHANGED parent

\* One turn of the loop in clean: the row in hand is noted, and its parent, as
\* it was when the row was read, is loaded.
Climb(e) ==
    LET r == editor[e] IN
    /\ r.pc = "walk"
    /\ ~Refused(e)
    /\ editor' = [editor EXCEPT
          ![e] = [r EXCEPT !.pc = IF r.up = NoCat THEN "save" ELSE "walk",
                           !.visited = @ \cup {r.at},
                           !.at = r.up,
                           !.up = IF r.up = NoCat THEN NoCat ELSE parent[r.up]]]
    /\ UNCHANGED parent

Refuse(e) ==
    /\ editor[e].pc = "walk" /\ Refused(e)
    /\ editor' = [editor EXCEPT ![e] = IdleEditor]
    /\ UNCHANGED parent

\* The request dies, or another field of the form is wrong.
AbandonForm(e) ==
    /\ editor[e].pc # "idle"
    /\ editor' = [editor EXCEPT ![e] = IdleEditor]
    /\ UNCHANGED parent

\* Category.save: the whole row, inserted again if it was deleted.  The foreign
\* key refuses a parent that has gone (AbandonForm).
SaveCategory(e) ==
    LET r == editor[e] IN
    /\ r.pc = "save"
    /\ r.chosen # NoCat => Exists(r.chosen)
    /\ \E c \in Cats :
          /\ IF r.cat = NoCat THEN FreshCat(c) ELSE c = r.cat
          /\ parent' = [parent EXCEPT ![c] = r.chosen]
    /\ editor' = [x \in Editors |->
                     IF x = e \/ editor[x].pc = "idle" THEN IdleEditor
                     ELSE [editor[x] EXCEPT !.overtaken = TRUE]]

\* A category without products is deleted; its children move to the top level.
DeleteCategory(c) ==
    /\ Exists(c)
    /\ parent' = [x \in Cats |-> IF x = c THEN NoRow
                                 ELSE IF parent[x] = c THEN NoCat ELSE parent[x]]
    /\ UNCHANGED editor

CategoryNext ==
    \/ \E e \in Editors :
          \/ \E c, p \in Cats \cup {NoCat} : SubmitCategory(e, c, p)
          \/ Climb(e) \/ Refuse(e) \/ AbandonForm(e) \/ SaveCategory(e)
    \/ \E c \in Cats : DeleteCategory(c)

\* A request that is being served goes on; nobody has to submit one.
CategoryFairness == \A e \in Editors : WF_categoryVars(Climb(e) \/ Refuse(e))

CategorySpec == CategoryInit /\ [][CategoryNext]_categoryVars /\ CategoryFairness

-----------------------------------------------------------------------------
(* Properties *)

\* Every variable keeps its type.
CategoryTypeOK ==
    /\ parent \in [Cats -> Cats \cup {NoCat, NoRow}]
    /\ editor \in [Editors -> EditorState]

\* Some categories are all below themselves.
Cyclic == \E S \in SUBSET Cats : S # {} /\ \A c \in S : parent[c] \in S

\* Category.clean keeps the categories a tree but for one race: the save that
\* closes a cycle is of a form that another save has overtaken since it was
\* submitted.  Deletions, and rows read before them, never do it.
CycleOnlyByRace ==
    [][Cyclic' => \/ Cyclic
                  \/ \E e \in Editors : /\ editor[e].pc = "save"
                                        /\ editor[e].overtaken
                                        /\ editor'[e] = IdleEditor]_categoryVars

\* The walk ends, even over a cycle that such a race has left behind and even
\* while other requests move the categories under it.
EveryWalkEnds == \A e \in Editors : editor[e].pc = "walk" ~> editor[e].pc # "walk"

\* What an undisturbed walk knows: the rows above the chosen parent, as far as
\* it has come, with the edited category not among them.
WalkInv ==
    \A e \in Editors :
        LET r == editor[e] IN
        /\ r.pc = "save" => r.at = NoCat \/ r.chosen = NoCat
        /\ r.pc = "walk" => r.at \in Cats
        /\ r.pc # "idle" /\ ~r.overtaken /\ r.chosen # NoCat =>
              /\ r.chosen \in r.visited \cup {r.at}
              /\ r.cat \notin r.visited
              /\ \A x \in r.visited :
                    parent[x] \in r.visited \cup {r.at, NoCat, NoRow}
              /\ r.pc = "walk" => parent[r.at] \in {r.up, NoCat, NoRow}

\* The conjunction that is inductive.
CategoriesConsistent == CategoryTypeOK /\ WalkInv
=============================================================================
