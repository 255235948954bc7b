------------------------------ MODULE Addresses ------------------------------
(***************************************************************************)
(* The address book: accounts/models/address.py with everything that saves  *)
(* or deletes a row of it, the customer's pages (accounts/views.py with the *)
(* form of accounts/forms.py), the checkout (cart/views.py) and the admin   *)
(* site (accounts/admin.py).                                                *)
(*                                                                         *)
(* A request reads a row, or starts a new one, and fills it from its form   *)
(* before Address.save opens a transaction: lock the user, take the default *)
(* flag from the user's other rows, write the whole row.  Each statement is *)
(* an action; rows it has changed are locked and others see the change when *)
(* the last statement has committed.  The unique constraint on the default  *)
(* row is left out, so that OneDefault says no save ever runs into it.      *)
(* Names, phone numbers, postal codes and address lines are left out.       *)
(***************************************************************************)
EXTENDS Naturals

CONSTANTS
    Customers,
    AddressIds,
    Provinces, Cities,
    CitiesOf,     \* PROVINCES_AND_CITIES
    AdminPlaces,  \* provinces and cities that staff type in the admin form
    Tabs,         \* web workers that can be saving an address at once
    NoTab, NoAddress

Place == [province : Provinces, city : Cities]
AddressRow == [user : Customers, place : Place, default : BOOLEAN]

\* The admin form is free text: Address.clean only refuses empty values.
ASSUME AddressConstants ==
    /\ CitiesOf \in [Provinces -> SUBSET Cities]
    /\ AdminPlaces \subseteq Place
    /\ NoTab \notin Tabs /\ NoAddress \notin AddressRow

VARIABLES
    address,    \* the Address rows; NoAddress where there is none
    customerLock, \* the tab whose transaction holds a customer's User row
    saving      \* each tab: where it is, the row it will write and where,
                \* the rows whose default flag its transaction has taken

addressVars == <<address, customerLock, saving>>

Rows == {i \in AddressIds : address[i] # NoAddress}

IdleTab == [at |-> "idle"]
Saving(w) == saving[w].at # "idle"

AddressInit ==
    /\ address = [i \in AddressIds |-> NoAddress]
    /\ customerLock = [u \in Customers |-> NoTab]
    /\ saving = [w \in Tabs |-> IdleTab]

\* The requests that have row i locked: they have written to it uncommitted.
RowFree(i) == \A w \in Tabs : saving[w].at = "write" => i \notin saving[w].cleared

-----------------------------------------------------------------------------
(* Before the save *)

\* AddressForm.clean: the city is one of the province's.
Accepts(q) == q.city \in CitiesOf[q.province]

\* The tab has what it will write: row r at i.
Filled(w, i, r) ==
    saving' = [saving EXCEPT ![w] =
          [at |-> "lock", id |-> i, row |-> r, cleared |-> {}]]

\* The id of a new row.  PostgreSQL never gives one out twice; here the id of
\* a deleted row that no request remembers is as good as a new one.
FreshId(i) ==
    /\ address[i] = NoAddress
    /\ \A w \in Tabs : Saving(w) => saving[w].id # i

\* The row a customer's page can find: get_queryset filters by user.
Found(u, i) == i \in Rows /\ address[i].user = u

\* AddressCreateView and AddressUpdateView, up to form_valid.
SubmitForm(w, u, i, q, default) ==
    /\ ~Saving(w)
    /\ FreshId(i) \/ Found(u, i)
    /\ Accepts(q)
    /\ Filled(w, i, [user |-> u, place |-> q, default |-> default])
    /\ UNCHANGED <<address, customerLock>>

\* CheckoutView.post: the user is locked before the row is read.
SubmitCheckout(w, u, i, q, default) ==
    /\ ~Saving(w)
    /\ customerLock[u] = NoTab
    /\ FreshId(i) \/ Found(u, i)
    /\ Accepts(q)
    /\ customerLock' = [customerLock EXCEPT ![u] = w]
    /\ saving' = [saving EXCEPT ![w] =
          [at |-> "clear", id |-> i, cleared |-> {},
           row |-> [user |-> u, place |-> q, default |-> default]]]
    /\ UNCHANGED address

\* The admin's form: any user, and the unique constraint is validated against
\* what is committed now, because the form has both of its fields.
SubmitAdminForm(w, u, i, q, default) ==
    /\ ~Saving(w)
    /\ FreshId(i) \/ i \in Rows
    /\ default => \A j \in Rows \ {i} : ~(address[j].default /\ address[j].user = u)
    /\ Filled(w, i, [user |-> u, place |-> q, default |-> default])
    /\ UNCHANGED <<address, customerLock>>

\* A row of the admin's list, where only is_default can be edited: the rest is
\* what the request has read.
SubmitAdminList(w, i) ==
    /\ ~Saving(w)
    /\ i \in Rows
    /\ Filled(w, i, [address[i] EXCEPT !.default = ~@])
    /\ UNCHANGED <<address, customerLock>>

-----------------------------------------------------------------------------
(* Address.save *)

\* Mutant of LockUser: the user's row is read without FOR UPDATE.
ReadUser(w) ==
    /\ saving[w].at = "lock"
    /\ customerLock' = [customerLock EXCEPT ![saving[w].row.user] = w]
    /\ saving' = [saving EXCEPT ![w].at = "clear"]
    /\ UNCHANGED address

LockUser(w) ==
    /\ saving[w].at = "lock"
    /\ customerLock[saving[w].row.user] = NoTab
    /\ customerLock' = [customerLock EXCEPT ![saving[w].row.user] = w]
    /\ saving' = [saving EXCEPT ![w].at = "clear"]
    /\ UNCHANGED address

\* The rows of the user that the save takes the default flag from.
Others(w) ==
    IF saving[w].row.default
    THEN {j \in Rows \ {saving[w].id} : address[j].user = saving[w].row.user}
    ELSE {}

\* Mutant of ClearOthers: outside a transaction, each statement commits.
ClearAtOnce(w) ==
    /\ saving[w].at = "clear"
    /\ \A j \in Others(w) : RowFree(j)
    /\ address' = [j \in AddressIds |->
          IF j \in Others(w) THEN [address[j] EXCEPT !.default = FALSE] ELSE address[j]]
    /\ saving' = [saving EXCEPT ![w].at = "write", ![w].cleared = Others(w)]
    /\ UNCHANGED customerLock

ClearOthers(w) ==
    /\ saving[w].at = "clear"
    /\ \A j \in Others(w) : RowFree(j)
    /\ saving' = [saving EXCEPT ![w].at = "write", ![w].cleared = Others(w)]
    /\ UNCHANGED <<address, customerLock>>

\* The transaction ends and its locks are gone.
TabEnds(w) ==
    /\ customerLock' = [u \in Customers |->
          IF customerLock[u] = w THEN NoTab ELSE customerLock[u]]
    /\ saving' = [saving EXCEPT ![w] = IdleTab]

\* super().save and the commit.  An UPDATE that finds no row is followed by an
\* INSERT: a row deleted in the meantime comes back.
WriteRow(w) ==
    LET i == saving[w].id IN
    /\ saving[w].at = "write"
    /\ \A v \in Tabs \ {w} : saving[v].at = "write" => i \notin saving[v].cleared
    /\ address' = [j \in AddressIds |->
          IF j = i THEN saving[w].row
          ELSE IF j \in saving[w].cleared THEN [address[j] EXCEPT !.default = FALSE]
          ELSE address[j]]
    /\ TabEnds(w)

\* The request dies, PostgreSQL ends a deadlock, the order cannot be created:
\* everything since the lock is rolled back.
RollBack(w) ==
    /\ Saving(w)
    /\ TabEnds(w)
    /\ UNCHANGED address

\* AddressDeleteView and the admin's deletion: one DELETE, no lock of the user.
DeleteAddress(i) ==
    /\ i \in Rows
    /\ RowFree(i)
    /\ address' = [address EXCEPT ![i] = NoAddress]
    /\ UNCHANGED <<customerLock, saving>>

Submit(w) ==
    \/ \E u \in Customers, i \in AddressIds, q \in Place, default \in BOOLEAN :
          \/ SubmitForm(w, u, i, q, default)
          \/ SubmitCheckout(w, u, i, q, default)
          \/ q \in AdminPlaces /\ SubmitAdminForm(w, u, i, q, default)
    \/ \E i \in AddressIds : SubmitAdminList(w, i)

AddressNext ==
    \/ \E w \in Tabs : \/ Submit(w) \/ LockUser(w) \/ ClearOthers(w)
                       \/ WriteRow(w) \/ RollBack(w)
    \/ \E i \in AddressIds : DeleteAddress(i)

AddressSpec == AddressInit /\ [][AddressNext]_addressVars

-----------------------------------------------------------------------------
(* Properties *)

AddressTypeOK ==
    /\ address \in [AddressIds -> AddressRow \cup {NoAddress}]
    /\ customerLock \in [Customers -> Tabs \cup {NoTab}]
    /\ saving \in [Tabs -> {IdleTab} \cup
          [at : {"lock", "clear", "write"}, id : AddressIds, row : AddressRow,
           cleared : SUBSET AddressIds]]

\* Whatever pages, checkouts and admin forms save at once, and even when staff
\* move a row to another customer, no customer has two default addresses: the
\* unique constraint never turns a save into an error (Address.save).
OneDefault ==
    \A i, j \in Rows :
        address[i].user = address[j].user /\ address[i].default /\ address[j].default
            => i = j

\* What a save in progress relies on: its user's lock, and after its first
\* statement every other default row of the user locked by it, rows that nobody
\* else can move or delete meanwhile.
SaveInOrder(w) ==
    LET s == saving[w] IN
    Saving(w) =>
        /\ s.at # "lock" => customerLock[s.row.user] = w
        /\ s.at = "write" =>
              /\ \A j \in s.cleared : /\ s.row.default
                                      /\ j \in Rows \ {s.id}
                                      /\ address[j].user = s.row.user
              /\ s.row.default =>
                    \A j \in Rows \ {s.id} :
                        address[j].default /\ address[j].user = s.row.user
                            => j \in s.cleared

\* The default flag is handed over, never dropped: a row that loses it gives
\* it to another of the same customer, or its own form was sent without it.
DefaultHandedOver ==
    [][\A i \in Rows :
          address[i].default /\ i \in Rows' /\ address'[i].user = address[i].user
          /\ ~address'[i].default =>
             \/ \E j \in Rows' : address'[j].default /\ address'[j].user = address[i].user
             \/ \E w \in Tabs : /\ saving[w].at = "write" /\ saving[w].id = i
                                /\ ~saving[w].row.default]_addressVars

\* The conjunction that is inductive.
AddressesConsistent ==
    /\ AddressTypeOK
    /\ OneDefault
    /\ \A w \in Tabs : SaveInOrder(w)
=============================================================================
