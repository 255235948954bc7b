------------------------------- MODULE Reviews -------------------------------
(***************************************************************************)
(* Product reviews: customers write and edit them (catalog/services.py,     *)
(* called by product_detail in catalog/views.py), staff publish them in the *)
(* admin site (ReviewAdmin, catalog/admin.py).                              *)
(*                                                                         *)
(* A customer's save is one transaction that locks the review's row; when   *)
(* two race to create it the unique constraint makes the second an update.  *)
(* Staff work on a page: it shows the reviews as they were when it was      *)
(* opened, the submission reads the rows again, and what it saves is the    *)
(* whole row, written back later.  Ratings and names are left out.          *)
(***************************************************************************)
EXTENDS FiniteSets

CONSTANTS
    ReviewIds,
    Pairs,      \* a customer and a product: one review each
    Texts,
    Desks,      \* staff pages that can be open at once
    NoReview

Review == [of : Pairs, text : Texts, approved : BOOLEAN]

ASSUME ReviewConstants == NoReview \notin Review

VARIABLES
    review,     \* the Review rows; NoReview where there is none
    desk        \* each staff page: the rows it shows, the rows it will write

reviewVars == <<review, desk>>

Blank == [i \in ReviewIds |-> NoReview]
ClosedDesk == [at |-> "closed", page |-> Blank, write |-> Blank]

ReviewInit ==
    /\ review = Blank
    /\ desk = [s \in Desks |-> ClosedDesk]

Listed(rows) == {i \in ReviewIds : rows[i] # NoReview}
OfPair(k) == {i \in Listed(review) : review[i].of = k}

\* The id of a new row; that of a deleted row no page remembers is as good.
UnusedId(i) ==
    /\ review[i] = NoReview
    /\ \A s \in Desks : i \notin Listed(desk[s].page) \cup Listed(desk[s].write)

-----------------------------------------------------------------------------
\* save_product_review: update_or_create, and the review waits for approval.
SaveReview(k, t) ==
    /\ \E i \in ReviewIds :
          /\ IF OfPair(k) = {} THEN UnusedId(i) ELSE i \in OfPair(k)
          /\ review' = [review EXCEPT ![i] =
                            [of |-> k, text |-> t, approved |-> FALSE]]
    /\ UNCHANGED desk

\* The admin deletes a review, or its product or customer goes.
DeleteReview(i) ==
    /\ i \in Listed(review)
    /\ review' = [review EXCEPT ![i] = NoReview]
    /\ UNCHANGED desk

\* The list, with the approval of every review as a checkbox.
OpenList(s) ==
    /\ desk[s].at = "closed"
    /\ Listed(review) # {}
    /\ desk' = [desk EXCEPT ![s] = [ClosedDesk EXCEPT !.at = "list", !.page = review]]
    /\ UNCHANGED review

\* One review's own form, text included.
OpenReview(s, i) ==
    /\ desk[s].at = "closed"
    /\ i \in Listed(review)
    /\ desk' = [desk EXCEPT ![s] =
          [ClosedDesk EXCEPT !.at = "form", !.page = [Blank EXCEPT ![i] = review[i]]]]
    /\ UNCHANGED review

\* The list is submitted with all its checkboxes.  The rows are read again, and
\* one whose checkbox differs from what it is now is saved as read.  A row that
\* has gone makes the submission invalid.
SubmitList(s, ticked) ==
    LET page == desk[s].page IN
    /\ desk[s].at = "list"
    /\ ticked \subseteq Listed(page) /\ Listed(page) \subseteq Listed(review)
    /\ desk' = [desk EXCEPT
          ![s].at = "save",
          ![s].write = [i \in ReviewIds |->
              IF i \in Listed(page) /\ review[i].approved # (i \in ticked)
              THEN [review[i] EXCEPT !.approved = i \in ticked] ELSE NoReview]]
    /\ UNCHANGED review

\* The form is submitted: every field as it was on the page, and the approval.
SubmitReview(s, approved) ==
    /\ desk[s].at = "form"
    /\ Listed(desk[s].page) \subseteq Listed(review)
    /\ desk' = [desk EXCEPT
          ![s].at = "save",
          ![s].write = [i \in ReviewIds |->
              IF i \in Listed(desk[s].page)
              THEN [desk[s].page[i] EXCEPT !.approved = approved] ELSE NoReview]]
    /\ UNCHANGED review

\* Mutant of Saved: only the approval is written, as update_fields would do.
FlagSaved(s, i) ==
    IF i \in Listed(review) THEN [review[i] EXCEPT !.approved = desk[s].write[i].approved]
    ELSE desk[s].write[i]

\* Model.save writes every column; a row deleted meanwhile is inserted again.
Saved(s, i) == desk[s].write[i]

\* One transaction; the unique constraint refuses to insert a row again beside
\* the customer's new one.
CommitDesk(s) ==
    LET write == desk[s].write IN
    /\ desk[s].at = "save"
    /\ \A i \in Listed(write) : OfPair(write[i].of) \subseteq {i}
    /\ review' = [i \in ReviewIds |->
                     IF i \in Listed(write) THEN Saved(s, i) ELSE review[i]]
    /\ desk' = [desk EXCEPT ![s] = ClosedDesk]

\* The page is closed, or the submission refused or lost.
CloseDesk(s) ==
    /\ desk[s].at # "closed"
    /\ desk' = [desk EXCEPT ![s] = ClosedDesk]
    /\ UNCHANGED review

ReviewNext ==
    \/ \E k \in Pairs, t \in Texts : SaveReview(k, t)
    \/ \E i \in ReviewIds : DeleteReview(i)
    \/ \E s \in Desks :
          \/ OpenList(s)
          \/ \E i \in ReviewIds : OpenReview(s, i)
          \/ \E ticked \in SUBSET ReviewIds : SubmitList(s, ticked)
          \/ \E approved \in BOOLEAN : SubmitReview(s, approved)
          \/ CommitDesk(s) \/ CloseDesk(s)

ReviewSpec == ReviewInit /\ [][ReviewNext]_reviewVars

-----------------------------------------------------------------------------
(* Properties *)

ReviewTypeOK ==
    /\ review \in [ReviewIds -> Review \cup {NoReview}]
    /\ desk \in [Desks -> [at : {"closed", "list", "form", "save"},
                           page : [ReviewIds -> Review \cup {NoReview}],
                           write : [ReviewIds -> Review \cup {NoReview}]]]

Public(rows) == {i \in Listed(rows) : rows[i].approved}

\* Row i shows the public a text that it did not show before.
Published(i) ==
    /\ i \in Public(review)'
    /\ \/ i \notin Public(review)
       \/ review'[i].text # review[i].text

\* A text becomes public only by a staff request that had the review with that
\* very text in hand, however customers' edits and other staff's saves fall
\* between its steps (save_product_review, ReviewAdmin).
PublishedByStaff ==
    [][\A i \in ReviewIds : Published(i) =>
          \E s \in Desks : /\ desk[s].at = "save" /\ desk'[s] = ClosedDesk
                           /\ desk[s].write[i].text = review'[i].text]_reviewVars

\* catalog/views.py: an edited review is "shown after the manager's approval".
\* The page on which staff approved it showed it waiting, or with that text.
EditAwaitsApproval ==
    [][\A i \in ReviewIds : Published(i) =>
          \E s \in Desks : /\ i \in Listed(desk[s].page)
                           /\ \/ ~desk[s].page[i].approved
                              \/ desk[s].page[i].text = review'[i].text]_reviewVars
=============================================================================
