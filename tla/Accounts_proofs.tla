--------------------------- MODULE Accounts_proofs ---------------------------
(***************************************************************************)
(* Proofs about the accounts: the address book (module Addresses), the      *)
(* login by one-time code (Login) and the store manager's role              *)
(* (StoreManager), for any customers, rows, phones, staff and requests.     *)
(***************************************************************************)
EXTENDS Addresses, Login, StoreManager, FiniteSetTheorems, TLAPS

-----------------------------------------------------------------------------
(* Addresses: one default each, handed over and never dropped.              *)

LEMMA InitAddresses == AddressInit => AddressesConsistent
BY AddressConstants DEF AddressInit, AddressesConsistent, AddressTypeOK, OneDefault,
   SaveInOrder, Rows, Saving, IdleTab

\* What a request holds before its first statement.
SubmitState == [at : {"lock", "clear", "write"}, id : AddressIds, row : AddressRow,
                cleared : SUBSET AddressIds]

LEMMA BusyTab ==
    ASSUME AddressTypeOK, NEW w \in Tabs
    PROVE  /\ Saving(w) => saving[w] \in SubmitState
           /\ ~Saving(w) => saving[w] = IdleTab
BY DEF AddressTypeOK, Saving, IdleTab, SubmitState

LEMMA RowTyped ==
    ASSUME AddressTypeOK, NEW i \in Rows
    PROVE  address[i] \in AddressRow
BY DEF AddressTypeOK, Rows

\* Filling a form touches no row.
LEMMA SubmitKeeps ==
    ASSUME AddressesConsistent, NEW w \in Tabs, Submit(w)
    PROVE  AddressesConsistent'
<1>1. PICK s \in SubmitState :
          /\ saving' = [saving EXCEPT ![w] = s]
          /\ \/ s.at = "lock" /\ customerLock' = customerLock
             \/ /\ s.at = "clear" /\ customerLock[s.row.user] = NoTab
                /\ customerLock' = [customerLock EXCEPT ![s.row.user] = w]
  <2>1. ASSUME NEW u \in Customers, NEW i \in AddressIds, NEW q \in Place,
               NEW default \in BOOLEAN, NEW at \in {"lock", "clear"}
        PROVE  [at |-> at, id |-> i, cleared |-> {},
                row |-> [user |-> u, place |-> q, default |-> default]] \in SubmitState
    BY DEF SubmitState, AddressRow
  <2>2. ASSUME NEW u \in Customers, NEW i \in AddressIds, NEW q \in Place,
               NEW default \in BOOLEAN, SubmitForm(w, u, i, q, default)
        PROVE  \E s \in SubmitState :
                 /\ saving' = [saving EXCEPT ![w] = s]
                 /\ s.at = "lock" /\ customerLock' = customerLock
    <3> [at |-> "lock", id |-> i, cleared |-> {},
         row |-> [user |-> u, place |-> q, default |-> default]] \in SubmitState
      BY <2>1
    <3> WITNESS [at |-> "lock", id |-> i, cleared |-> {},
                 row |-> [user |-> u, place |-> q, default |-> default]] \in SubmitState
    <3> QED BY <2>2 DEF SubmitForm, Filled, Accepts
  <2>3. ASSUME NEW u \in Customers, NEW i \in AddressIds, NEW q \in Place,
               NEW default \in BOOLEAN, SubmitCheckout(w, u, i, q, default)
        PROVE  \E s \in SubmitState :
                 /\ saving' = [saving EXCEPT ![w] = s]
                 /\ s.at = "clear" /\ customerLock[s.row.user] = NoTab
                 /\ customerLock' = [customerLock EXCEPT ![s.row.user] = w]
    <3> [at |-> "clear", id |-> i, cleared |-> {},
         row |-> [user |-> u, place |-> q, default |-> default]] \in SubmitState
      BY <2>1
    <3> WITNESS [at |-> "clear", id |-> i, cleared |-> {},
                 row |-> [user |-> u, place |-> q, default |-> default]] \in SubmitState
    <3> QED BY <2>3 DEF SubmitCheckout, Accepts
  <2>4. ASSUME NEW u \in Customers, NEW i \in AddressIds, NEW q \in AdminPlaces,
               NEW default \in BOOLEAN, SubmitAdminForm(w, u, i, q, default)
        PROVE  \E s \in SubmitState :
                 /\ saving' = [saving EXCEPT ![w] = s]
                 /\ s.at = "lock" /\ customerLock' = customerLock
    <3>1. q \in Place
      BY AddressConstants
    <3> [at |-> "lock", id |-> i, cleared |-> {},
         row |-> [user |-> u, place |-> q, default |-> default]] \in SubmitState
      BY <2>1, <3>1
    <3> WITNESS [at |-> "lock", id |-> i, cleared |-> {},
                 row |-> [user |-> u, place |-> q, default |-> default]] \in SubmitState
    <3> QED BY <2>4, <3>1 DEF SubmitAdminForm, Filled
  <2>5. ASSUME NEW i \in AddressIds, SubmitAdminList(w, i)
        PROVE  \E s \in SubmitState :
                 /\ saving' = [saving EXCEPT ![w] = s]
                 /\ s.at = "lock" /\ customerLock' = customerLock
    <3>1. address[i] \in AddressRow
      BY <2>5, RowTyped DEF SubmitAdminList, AddressesConsistent
    <3>2. [address[i] EXCEPT !.default = ~@] \in AddressRow
      BY <3>1 DEF AddressRow
    <3> [at |-> "lock", id |-> i, cleared |-> {},
         row |-> [address[i] EXCEPT !.default = ~@]] \in SubmitState
      BY <3>2 DEF SubmitState
    <3> WITNESS [at |-> "lock", id |-> i, cleared |-> {},
                 row |-> [address[i] EXCEPT !.default = ~@]] \in SubmitState
    <3> QED BY <2>5, <3>2 DEF SubmitAdminList, Filled
  <2>6. QED
    BY <2>2, <2>3, <2>4, <2>5 DEF Submit
<1>2. address' = address /\ Rows' = Rows /\ ~Saving(w)
  BY DEF Submit, SubmitForm, SubmitCheckout, SubmitAdminForm, SubmitAdminList, Rows
<1>3. AddressTypeOK'
  BY <1>1, <1>2 DEF AddressesConsistent, AddressTypeOK, SubmitState, AddressRow
<1>4. OneDefault'
  BY <1>2 DEF AddressesConsistent, OneDefault, Rows
<1>5. ASSUME NEW v \in Tabs PROVE SaveInOrder(v)'
  <2>1. CASE v = w
    BY <1>1, <1>2, <2>1 DEF SaveInOrder, AddressesConsistent, AddressTypeOK,
       SubmitState, AddressRow, Saving
  <2>2. CASE v # w
    <3>1. saving'[v] = saving[v]
      BY <1>1, <2>2 DEF AddressesConsistent, AddressTypeOK
    <3>2. Saving(v) /\ customerLock[saving[v].row.user] = v
            => customerLock'[saving[v].row.user] = v
      BY <1>1, BusyTab, AddressConstants DEF AddressesConsistent, AddressTypeOK,
         SubmitState, AddressRow
    <3>3. SaveInOrder(v)
      BY DEF AddressesConsistent
    <3>4. QED
      BY <1>2, <3>1, <3>2, <3>3 DEF SaveInOrder, Saving
  <2>3. QED
    BY <2>1, <2>2
<1>6. QED
  BY <1>3, <1>4, <1>5 DEF AddressesConsistent

\* A step of one save that leaves every row alone.
LEMMA StatementKeeps ==
    ASSUME AddressesConsistent, NEW w \in Tabs,
           LockUser(w) \/ ClearOthers(w) \/ RollBack(w)
    PROVE  AddressesConsistent'
<1>1. address' = address /\ Rows' = Rows /\ Saving(w)
  BY DEF LockUser, ClearOthers, RollBack, Rows, Saving
<1>2. saving[w] \in SubmitState /\ saving[w].row.user \in Customers
  BY <1>1, BusyTab DEF AddressesConsistent, SubmitState, AddressRow
<1>3. Others(w) \subseteq AddressIds
  BY DEF Others, Rows
<1>4. AddressTypeOK'
  BY <1>1, <1>2, <1>3 DEF AddressesConsistent, AddressTypeOK, LockUser, ClearOthers,
     RollBack, TabEnds, SubmitState, AddressRow
<1>5. OneDefault'
  BY <1>1 DEF AddressesConsistent, OneDefault
<1>6. ASSUME NEW v \in Tabs \ {w} PROVE SaveInOrder(v)'
  <2>1. saving'[v] = saving[v]
    BY DEF AddressesConsistent, AddressTypeOK, LockUser, ClearOthers, RollBack, TabEnds
  <2>2. Saving(v) => saving[v].row.user \in Customers
    BY BusyTab DEF AddressesConsistent, SubmitState, AddressRow
  <2>3. Saving(v) /\ customerLock[saving[v].row.user] = v
          => customerLock'[saving[v].row.user] = v
    BY <1>2, <2>2, AddressConstants DEF AddressesConsistent, AddressTypeOK, LockUser,
       ClearOthers, RollBack, TabEnds
  <2>4. SaveInOrder(v)
    BY DEF AddressesConsistent
  <2>5. QED
    BY <1>1, <2>1, <2>3, <2>4 DEF SaveInOrder, Saving
<1>7. SaveInOrder(w)'
  <2>1. SaveInOrder(w)
    BY DEF AddressesConsistent
  <2>2. CASE LockUser(w)
    <3>1. saving'[w] = [saving[w] EXCEPT !.at = "clear"]
      BY <2>2 DEF LockUser, AddressesConsistent, AddressTypeOK
    <3>2. customerLock'[saving[w].row.user] = w
      BY <1>2, <2>2 DEF LockUser, AddressesConsistent, AddressTypeOK
    <3>3. QED
      BY <1>1, <1>2, <2>1, <3>1, <3>2 DEF SaveInOrder, Saving, SubmitState
  <2>3. CASE ClearOthers(w)
    <3>1. saving'[w] = [saving[w] EXCEPT !.at = "write", !.cleared = Others(w)]
      BY <2>3 DEF ClearOthers, AddressesConsistent, AddressTypeOK
    <3>2. customerLock'[saving[w].row.user] = w
      BY <2>1, <2>3, <1>1 DEF ClearOthers, SaveInOrder
    <3>3. QED
      BY <1>1, <1>2, <2>1, <3>1, <3>2 DEF SaveInOrder, Saving, SubmitState, Others
  <2>4. CASE RollBack(w)
    BY <2>4 DEF RollBack, TabEnds, SaveInOrder, Saving, IdleTab, AddressesConsistent,
       AddressTypeOK
  <2>5. QED
    BY <2>2, <2>3, <2>4
<1>8. QED
  BY <1>4, <1>5, <1>6, <1>7 DEF AddressesConsistent

-----------------------------------------------------------------------------
(* The steps that change rows. *)

\* What WriteRow leaves at each row.
LEMMA WrittenRows ==
    ASSUME AddressesConsistent, NEW w \in Tabs, WriteRow(w), NEW j \in AddressIds
    PROVE  /\ j = saving[w].id => address'[j] = saving[w].row
           /\ j # saving[w].id /\ j \in saving[w].cleared =>
                 /\ address[j] \in AddressRow
                 /\ address'[j] = [address[j] EXCEPT !.default = FALSE]
           /\ j # saving[w].id /\ j \notin saving[w].cleared => address'[j] = address[j]
           /\ saving[w] \in SubmitState /\ saving[w].row \in AddressRow
<1>1. saving[w] \in SubmitState
  BY BusyTab DEF WriteRow, Saving, AddressesConsistent
<1>2. \A k \in saving[w].cleared : k \in Rows
  BY DEF AddressesConsistent, SaveInOrder, WriteRow, Saving
<1>3. \A k \in saving[w].cleared : address[k] \in AddressRow
  BY <1>2, RowTyped DEF AddressesConsistent
<1>4. QED
  BY <1>1, <1>3 DEF WriteRow, SubmitState

LEMMA WriteKeeps ==
    ASSUME AddressesConsistent, NEW w \in Tabs, WriteRow(w)
    PROVE  AddressesConsistent'
<1> DEFINE i == saving[w].id
           r == saving[w].row
           cleared == saving[w].cleared
<1>1. /\ saving[w] \in SubmitState /\ r \in AddressRow /\ i \in AddressIds
      /\ r.user \in Customers
  BY BusyTab DEF WriteRow, Saving, AddressesConsistent, SubmitState, AddressRow
<1>2. /\ Saving(w) /\ saving[w].at = "write"
      /\ customerLock[r.user] = w
      /\ \A j \in cleared : r.default /\ j \in Rows \ {i} /\ address[j].user = r.user
      /\ r.default => \A j \in Rows \ {i} :
                        address[j].default /\ address[j].user = r.user => j \in cleared
  BY DEF AddressesConsistent, SaveInOrder, WriteRow, Saving
<1>3. \A j \in AddressIds :
        /\ j = i => address'[j] = r
        /\ j # i /\ j \in cleared => /\ address[j] \in AddressRow
                                     /\ address'[j] = [address[j] EXCEPT !.default = FALSE]
        /\ j # i /\ j \notin cleared => address'[j] = address[j]
  BY WrittenRows
<1>4. \A j \in AddressIds : j # i /\ j \in cleared =>
          /\ address'[j] \in AddressRow /\ ~address'[j].default
          /\ address'[j].user = address[j].user
  BY <1>3 DEF AddressRow
<1>5. /\ NoAddress \notin AddressRow
      /\ Rows' = Rows \cup {i}
  <2>1. NoAddress \notin AddressRow
    BY AddressConstants
  <2>2. \A j \in AddressIds : j \in Rows' <=> j \in Rows \/ j = i
    <3>1. TAKE j \in AddressIds
    <3>2. CASE j = i
      BY <2>1, <3>2, <1>1, <1>3 DEF Rows
    <3>3. CASE j # i /\ j \in cleared
      BY <2>1, <3>3, <1>2, <1>4 DEF Rows
    <3>4. CASE j # i /\ j \notin cleared
      BY <3>4, <1>3 DEF Rows
    <3>5. QED
      BY <3>2, <3>3, <3>4
  <2>3. Rows \subseteq AddressIds /\ Rows' \subseteq AddressIds
    BY DEF Rows
  <2>4. QED
    BY <1>1, <2>1, <2>2, <2>3
<1>6. AddressTypeOK'
  <2>1. address' \in [AddressIds -> AddressRow \cup {NoAddress}]
    <3>1. \A j \in AddressIds : address'[j] \in AddressRow \cup {NoAddress}
      BY <1>1, <1>3, <1>4 DEF AddressesConsistent, AddressTypeOK
    <3>2. QED
      BY <3>1 DEF WriteRow
  <2>2. QED
    BY <2>1 DEF AddressesConsistent, AddressTypeOK, WriteRow, TabEnds
<1>7. OneDefault'
  <2>1. SUFFICES ASSUME NEW j \in Rows', NEW k \in Rows',
                        address'[j].user = address'[k].user,
                        address'[j].default, address'[k].default
                 PROVE  j = k
    BY DEF OneDefault
  <2>2. j \notin cleared \ {i} /\ k \notin cleared \ {i}
    BY <2>1, <1>4 DEF Rows
  <2>3. CASE j # i /\ k # i
    BY <2>1, <2>2, <2>3, <1>3, <1>5 DEF AddressesConsistent, OneDefault, Rows
  <2>4. CASE j = i /\ k # i
    BY <2>1, <2>2, <2>4, <1>1, <1>2, <1>3, <1>5 DEF Rows
  <2>5. CASE j # i /\ k = i
    BY <2>1, <2>2, <2>5, <1>1, <1>2, <1>3, <1>5 DEF Rows
  <2>6. QED
    BY <2>3, <2>4, <2>5
<1>8. ASSUME NEW v \in Tabs PROVE SaveInOrder(v)'
  <2>1. CASE v = w
    BY <2>1, <1>1 DEF WriteRow, TabEnds, SaveInOrder, Saving, IdleTab, AddressesConsistent,
       AddressTypeOK
  <2>2. CASE v # w
    <3>1. saving'[v] = saving[v] /\ SaveInOrder(v)
      BY <2>2 DEF AddressesConsistent, AddressTypeOK, WriteRow, TabEnds
    <3>2. Saving(v) => saving[v] \in SubmitState /\ saving[v].row.user \in Customers
      BY BusyTab DEF AddressesConsistent, SubmitState, AddressRow
    <3>3. Saving(v) /\ customerLock[saving[v].row.user] = v
            => customerLock'[saving[v].row.user] = v
      BY <2>2, <3>2 DEF WriteRow, TabEnds
    <3>4. Saving(v) /\ saving[v].at # "lock" => saving[v].row.user # r.user
      BY <2>2, <1>2, <3>1 DEF SaveInOrder
    <3>5. ASSUME Saving(v), saving[v].at = "write", NEW j \in saving[v].cleared
          PROVE  /\ saving[v].row.default /\ j \in Rows' \ {saving[v].id}
                 /\ address'[j].user = saving[v].row.user
      <4>1. j # i
        BY <2>2, <3>5 DEF WriteRow
      <4>2. j \in Rows /\ j \in AddressIds
        BY <3>1, <3>5 DEF SaveInOrder, Rows
      <4>3. QED
        BY <3>1, <3>5, <4>1, <4>2, <1>3, <1>4, <1>5 DEF SaveInOrder
    <3>6. ASSUME Saving(v), saving[v].at = "write", saving[v].row.default,
                 NEW j \in Rows' \ {saving[v].id},
                 address'[j].default, address'[j].user = saving[v].row.user
          PROVE  j \in saving[v].cleared
      <4>1. j # i
        BY <3>4, <3>6, <1>3, <1>1
      <4>2. j \in Rows /\ j \in AddressIds
        BY <3>6, <4>1, <1>5 DEF Rows
      <4>3. address'[j] = address[j]
        BY <3>6, <4>1, <4>2, <1>3, <1>4
      <4>4. QED
        BY <3>1, <3>6, <4>2, <4>3 DEF SaveInOrder
    <3>7. QED
      BY <3>1, <3>3, <3>5, <3>6 DEF SaveInOrder, Saving
  <2>3. QED
    BY <2>1, <2>2
<1>9. QED
  BY <1>6, <1>7, <1>8 DEF AddressesConsistent

LEMMA DeleteKeeps ==
    ASSUME AddressesConsistent, NEW i \in AddressIds, DeleteAddress(i)
    PROVE  AddressesConsistent'
<1>1. /\ address' = [address EXCEPT ![i] = NoAddress]
      /\ Rows' = Rows \ {i}
      /\ saving' = saving /\ customerLock' = customerLock
  BY DEF DeleteAddress, AddressesConsistent, AddressTypeOK, Rows
<1>2. AddressTypeOK'
  BY <1>1 DEF AddressesConsistent, AddressTypeOK
<1>3. \A j \in Rows' : j \in Rows /\ address'[j] = address[j]
  BY <1>1 DEF AddressesConsistent, AddressTypeOK, Rows
<1>4. OneDefault'
  BY <1>3 DEF AddressesConsistent, OneDefault
<1>5. ASSUME NEW v \in Tabs PROVE SaveInOrder(v)'
  <2>1. SaveInOrder(v)
    BY DEF AddressesConsistent
  <2>2. saving[v].at = "write" => i \notin saving[v].cleared
    BY DEF DeleteAddress, RowFree
  <2>3. QED
    BY <1>1, <1>3, <2>1, <2>2 DEF SaveInOrder, Saving
<1>6. QED
  BY <1>2, <1>4, <1>5 DEF AddressesConsistent

-----------------------------------------------------------------------------
(* Every reachable state. *)

\* The inductive invariant of the address book holds in every reachable state.
THEOREM AddressesAlwaysConsistent == AddressSpec => []AddressesConsistent
<1>1. AddressesConsistent /\ [AddressNext]_addressVars => AddressesConsistent'
  <2> SUFFICES ASSUME AddressesConsistent, [AddressNext]_addressVars
               PROVE  AddressesConsistent'
    OBVIOUS
  <2>1. CASE UNCHANGED addressVars
    BY <2>1 DEF addressVars, AddressesConsistent, AddressTypeOK, OneDefault,
       SaveInOrder, Rows, Saving
  <2>2. CASE AddressNext
    BY <2>2, SubmitKeeps, StatementKeeps, WriteKeeps, DeleteKeeps DEF AddressNext
  <2>3. QED
    BY <2>1, <2>2
<1>2. QED
  BY <1>1, InitAddresses, PTL DEF AddressSpec

\* No customer ever has two default addresses (Address.save).
THEOREM AtMostOneDefault == AddressSpec => []OneDefault
BY AddressesAlwaysConsistent, PTL DEF AddressesConsistent

\* No step drops the default flag: it is handed over, or its own form was sent
\* without it (the transaction of Address.save).
THEOREM DefaultIsHandedOver == AddressSpec => DefaultHandedOver
<1>1. ASSUME AddressesConsistent, [AddressNext]_addressVars, NEW i \in Rows,
             address[i].default, i \in Rows', address'[i].user = address[i].user,
             ~address'[i].default
      PROVE  \/ \E j \in Rows' : address'[j].default /\ address'[j].user = address[i].user
             \/ \E w \in Tabs : /\ saving[w].at = "write" /\ saving[w].id = i
                                /\ ~saving[w].row.default
  <2>1. i \in AddressIds
    BY DEF Rows
  <2>2. PICK w \in Tabs : WriteRow(w)
    <3>1. address'[i] # address[i]
      BY <1>1
    <3>2. ASSUME NEW k \in AddressIds, DeleteAddress(k)
          PROVE  FALSE
      BY <1>1, <2>1, <3>1, <3>2 DEF DeleteAddress, AddressesConsistent, AddressTypeOK, Rows
    <3>3. ASSUME NEW w \in Tabs,
                 Submit(w) \/ LockUser(w) \/ ClearOthers(w) \/ RollBack(w)
          PROVE  FALSE
      BY <3>1, <3>3 DEF Submit, SubmitForm, SubmitCheckout, SubmitAdminForm,
         SubmitAdminList, LockUser, ClearOthers, RollBack
    <3>4. QED
      BY <1>1, <3>1, <3>2, <3>3 DEF AddressNext, addressVars
  <2>3. saving[w].at = "write" /\ SaveInOrder(w) /\ Saving(w)
    BY <1>1, <2>2 DEF WriteRow, AddressesConsistent, Saving
  <2>4. CASE i = saving[w].id
    BY <1>1, <2>1, <2>2, <2>3, <2>4, WrittenRows
  <2>5. CASE i # saving[w].id
    <3>1. i \in saving[w].cleared
      BY <1>1, <2>1, <2>2, <2>5, WrittenRows
    <3>2. saving[w].row.default /\ address[i].user = saving[w].row.user
      BY <2>3, <3>1 DEF SaveInOrder
    <3>3. saving[w].id \in AddressIds /\ saving[w].row \in AddressRow
      BY <1>1, <2>1, <2>2, WrittenRows DEF SubmitState
    <3>4. address'[saving[w].id] = saving[w].row
      BY <1>1, <2>2, <3>3, WrittenRows
    <3>5. saving[w].id \in Rows'
      BY <3>3, <3>4, AddressConstants DEF Rows
    <3>6. QED
      BY <3>2, <3>4, <3>5
  <2>6. QED
    BY <2>4, <2>5
<1>2. AddressesConsistent /\ [AddressNext]_addressVars =>
        [\A i \in Rows :
          address[i].default /\ i \in Rows' /\ address'[i].user = address[i].user
          /\ ~address'[i].default =>
             \/ \E j \in Rows' : address'[j].default /\ address'[j].user = address[i].user
             \/ \E w \in Tabs : /\ saving[w].at = "write" /\ saving[w].id = i
                                /\ ~saving[w].row.default]_addressVars
  BY <1>1
<1>3. QED
  BY <1>2, AddressesAlwaysConsistent, PTL DEF AddressSpec, DefaultHandedOver

-----------------------------------------------------------------------------
(* Login.  Each request knows its phone and what it has proved; a profile    *)
(* that holds a phone keeps every other from it.                            *)

LEMMA LoginInitConsistent == LoginInit => LoginConsistent
<1> SUFFICES ASSUME LoginInit PROVE LoginConsistent
  OBVIOUS
<1> USE LoginConstants DEF LoginInit
<1>1. IdleLogin \in LoginStates
  BY DEF IdleLogin, LoginStates, Kinds
<1>2. LoginTypeOK
  BY DEF LoginTypeOK, IdleLogin
<1>3. PhoneHeldOnce
  BY DEF PhoneHeldOnce, Holders
<1>4. \A r \in Requests : RequestKnows(r)
  BY DEF RequestKnows, IdleLogin
<1>5. QED
  BY <1>1, <1>2, <1>3, <1>4 DEF LoginConsistent, StoredCodeWasSent, VerifiedByCode

\* A request that ends knows nothing more.
LEMMA IdleKnows ==
    ASSUME NEW r \in Requests, login'[r] = IdleLogin
    PROVE  RequestKnows(r)'
BY DEF RequestKnows, IdleLogin

\* What another request knows stays true unless its account is touched.
LEMMA OtherKnows ==
    ASSUME NEW r \in Requests, RequestKnows(r), login'[r] = login[r],
           \A p \in Phones : sent[p] \subseteq sent'[p], proved \subseteq proved',
           \A p \in Phones, k \in Kinds :
              /\ account[p][k] # "none" => account'[p][k] # "none"
              /\ profile[p][k] = "verified" => profile'[p][k] = "verified",
           LoginConsistent
    PROVE  RequestKnows(r)'
<1>1. login[r].kind \in Kinds /\ (login[r].at # "idle" => login[r].phone \in Phones)
  BY DEF LoginConsistent, LoginStates, RequestKnows
<1>2. QED
  BY <1>1 DEF RequestKnows

\* A step of request r that keeps types and rows as they must be.
LEMMA RequestMoves ==
    ASSUME LoginConsistent, NEW r \in Requests, NEW new \in LoginStates,
           login' = [login EXCEPT ![r] = new],
           code' \in [Phones -> Codes \cup {NoCode}],
           attempts' \in [Phones -> 0..MaxAttempts],
           cooldown' \in [Phones -> BOOLEAN],
           account' \in [Phones -> [Kinds -> {"none", "active", "inactive"}]],
           profile' \in [Phones -> [Kinds -> {"none", "blank", "holds", "verified"}]],
           sent' \in [Phones -> SUBSET Codes], proved' \subseteq Phones,
           sessions' \in [Phones -> SUBSET Kinds],
           \A p \in Phones : sent[p] \subseteq sent'[p], proved \subseteq proved',
           \A p \in Phones, k \in Kinds :
              /\ account[p][k] # "none" => account'[p][k] # "none"
              /\ profile[p][k] = "verified" => profile'[p][k] = "verified",
           StoredCodeWasSent', VerifiedByCode', PhoneHeldOnce', RequestKnows(r)'
    PROVE  LoginConsistent'
<1>1. login' \in [Requests -> LoginStates] /\ \A q \in Requests \ {r} : login'[q] = login[q]
  BY DEF LoginConsistent
<1>2. ASSUME NEW q \in Requests PROVE RequestKnows(q)'
  <2>1. CASE q = r
    BY <2>1
  <2>2. CASE q # r
    BY <2>2, <1>1, OtherKnows DEF LoginConsistent
  <2>3. QED
    BY <2>1, <2>2
<1>3. LoginTypeOK'
  BY <1>1 DEF LoginTypeOK, LoginStates
<1>4. QED
  BY <1>1, <1>2, <1>3 DEF LoginConsistent

\* A step of request r that touches the cache and what was sent alone.
LEMMA CacheMoves ==
    ASSUME LoginConsistent, NEW r \in Requests, NEW new \in LoginStates,
           login' = [login EXCEPT ![r] = new],
           code' \in [Phones -> Codes \cup {NoCode}],
           attempts' \in [Phones -> 0..MaxAttempts],
           cooldown' \in [Phones -> BOOLEAN],
           sent' \in [Phones -> SUBSET Codes], proved' \subseteq Phones,
           \A p \in Phones : sent[p] \subseteq sent'[p], proved \subseteq proved',
           \A p \in Phones : code'[p] # NoCode => code'[p] \in sent'[p],
           account' = account, profile' = profile, sessions' = sessions,
           RequestKnows(r)'
    PROVE  LoginConsistent'
<1>1. /\ account' \in [Phones -> [Kinds -> {"none", "active", "inactive"}]]
      /\ profile' \in [Phones -> [Kinds -> {"none", "blank", "holds", "verified"}]]
      /\ sessions' \in [Phones -> SUBSET Kinds]
  BY DEF LoginConsistent, LoginTypeOK
<1>2. StoredCodeWasSent'
  BY DEF StoredCodeWasSent
<1>3. PhoneHeldOnce' /\ VerifiedByCode'
  BY DEF LoginConsistent, PhoneHeldOnce, VerifiedByCode, Holders
<1>4. QED
  BY <1>1, <1>2, <1>3, RequestMoves

\* What is known of a request that has begun.
LEMMA Begun ==
    ASSUME LoginConsistent, NEW r \in Requests
    PROVE  /\ login[r] \in LoginStates /\ RequestKnows(r)
           /\ login[r].at # "idle" => login[r].phone \in Phones
           /\ login[r].code \in Codes \cup {NoCode}
           /\ login[r].seen \in 0..(MaxAttempts - 1)
           /\ IdleLogin \in LoginStates
           /\ \A a \in {"idle", "sms", "store", "cool", "reset", "entered", "miss", "hit",
                        "clear", "find", "create", "signal", "profile", "verify",
                        "merge", "refused"} :
                 [login[r] EXCEPT !.at = a] \in LoginStates
           /\ code \in [Phones -> Codes \cup {NoCode}]
           /\ attempts \in [Phones -> 0..MaxAttempts]
           /\ cooldown \in [Phones -> BOOLEAN]
           /\ account \in [Phones -> [Kinds -> {"none", "active", "inactive"}]]
           /\ profile \in [Phones -> [Kinds -> {"none", "blank", "holds", "verified"}]]
           /\ sent \in [Phones -> SUBSET Codes] /\ proved \subseteq Phones
           /\ sessions \in [Phones -> SUBSET Kinds]
           /\ \A p \in Phones : code[p] # NoCode => code[p] \in sent[p]
<1>1. IdleLogin \in LoginStates
  BY LoginConstants DEF IdleLogin, LoginStates, Kinds
<1>2. login[r] \in LoginStates /\ RequestKnows(r)
  BY DEF LoginConsistent
<1>3. \A a \in {"idle", "sms", "store", "cool", "reset", "entered", "miss", "hit",
                "clear", "find", "create", "signal", "profile", "verify",
                "merge", "refused"} :
         [login[r] EXCEPT !.at = a] \in LoginStates
  BY <1>2 DEF LoginStates
<1>4. QED
  BY <1>1, <1>2, <1>3 DEF LoginConsistent, LoginTypeOK, StoredCodeWasSent, LoginStates,
     RequestKnows

\* A request that has not come to an account keeps its phone as it goes on.
LEMMA GoesOn ==
    ASSUME NEW r \in Requests, login[r] \in LoginStates, RequestKnows(r),
           NEW a \in {"cool", "reset", "miss", "hit", "clear", "find", "create", "refused"},
           login'[r] = [login[r] EXCEPT !.at = a],
           login[r].at \in {"store", "cool", "entered", "hit", "clear", "find"},
           a \in {"clear", "find", "create"} => login[r].phone \in proved'
    PROVE  RequestKnows(r)'
<1>1. /\ login'[r].at = a /\ login'[r].phone = login[r].phone
      /\ login'[r].kind = login[r].kind
  BY DEF LoginStates
<1>2. login[r].phone \in Phones /\ login[r].kind = "plain"
  BY DEF RequestKnows
<1>3. QED
  BY <1>1, <1>2 DEF RequestKnows

\* The requests that send a code.
LEMMA SendKeeps ==
    ASSUME LoginConsistent, NEW r \in Requests, SendView(r)
    PROVE  LoginConsistent'
<1>0. /\ login[r] \in LoginStates /\ RequestKnows(r) /\ IdleLogin \in LoginStates
      /\ login \in [Requests -> LoginStates]
      /\ code \in [Phones -> Codes \cup {NoCode}]
      /\ attempts \in [Phones -> 0..MaxAttempts]
      /\ cooldown \in [Phones -> BOOLEAN]
      /\ sent \in [Phones -> SUBSET Codes] /\ proved \subseteq Phones
      /\ \A p \in Phones : code[p] # NoCode => code[p] \in sent[p]
      /\ MaxAttempts \in Nat \ {0}
  BY Begun, LoginConstants DEF LoginConsistent
<1> USE <1>0 DEF Goes, Ends
<1>1. ASSUME NEW p \in Phones, NEW c \in Codes, RequestCode(r, p, c) PROVE LoginConsistent'
  <2> DEFINE new == [IdleLogin EXCEPT !.at = "sms", !.phone = p, !.code = c]
  <2>1. new \in LoginStates
    BY DEF LoginStates
  <2>2. /\ login' = [login EXCEPT ![r] = new]
        /\ UNCHANGED <<code, attempts, cooldown, account, profile, sent, proved, sessions>>
    BY <1>1 DEF RequestCode, cacheVars, rowVars
  <2>3. login'[r] = new
    BY <2>2 DEF LoginConsistent
  <2>4. RequestKnows(r)'
    BY <2>3 DEF RequestKnows, IdleLogin
  <2> HIDE DEF new
  <2>5. QED
    BY <2>1, <2>2, <2>4, CacheMoves
<1>2. CASE SmsSent(r)
  <2> DEFINE new == [login[r] EXCEPT !.at = "store"]
  <2>1. /\ login' = [login EXCEPT ![r] = new] /\ login[r].at = "sms"
        /\ sent' = [sent EXCEPT ![login[r].phone] = @ \cup {login[r].code}]
        /\ UNCHANGED <<code, attempts, cooldown, account, profile, proved, sessions>>
    BY <1>2 DEF SmsSent, cacheVars, rowVars, LoginConsistent
  <2>2. login[r].phone \in Phones /\ login[r].code \in Codes
    BY <2>1 DEF RequestKnows
  <2>3. sent' \in [Phones -> SUBSET Codes] /\ \A p \in Phones : sent[p] \subseteq sent'[p]
    BY <2>1, <2>2
  <2>4. login'[r] = new
    BY <2>1 DEF LoginConsistent
  <2>5. RequestKnows(r)'
    BY <2>1, <2>2, <2>4 DEF RequestKnows, LoginStates
  <2>6. \A p \in Phones : code'[p] # NoCode => code'[p] \in sent'[p]
    BY <2>1, <2>3
  <2>7. new \in LoginStates
    BY DEF LoginStates
  <2> HIDE DEF new
  <2>8. QED
    BY <2>1, <2>3, <2>5, <2>6, <2>7, CacheMoves
<1>3. CASE SmsFails(r)
  <2>1. /\ login' = [login EXCEPT ![r] = IdleLogin] /\ login[r].at = "sms"
        /\ sent' \in {sent, [sent EXCEPT ![login[r].phone] = @ \cup {login[r].code}]}
        /\ UNCHANGED <<code, attempts, cooldown, account, profile, proved, sessions>>
    BY <1>3 DEF SmsFails, cacheVars, rowVars
  <2>2. login[r].phone \in Phones /\ login[r].code \in Codes
    BY <2>1 DEF RequestKnows
  <2>3. sent' \in [Phones -> SUBSET Codes] /\ \A p \in Phones : sent[p] \subseteq sent'[p]
    BY <2>1, <2>2
  <2>4. RequestKnows(r)'
    BY <2>1, IdleKnows DEF LoginConsistent
  <2>5. \A p \in Phones : code'[p] # NoCode => code'[p] \in sent'[p]
    BY <2>1, <2>3
  <2>6. QED
    BY <2>1, <2>3, <2>4, <2>5, CacheMoves
<1>4. CASE StoreCode(r)
  <2> DEFINE new == [login[r] EXCEPT !.at = "cool"]
  <2>1. /\ login' = [login EXCEPT ![r] = new] /\ login[r].at = "store"
        /\ code' = [code EXCEPT ![login[r].phone] = login[r].code]
        /\ UNCHANGED <<attempts, cooldown, account, profile, sent, proved, sessions>>
    BY <1>4 DEF StoreCode, cacheVars, rowVars, LoginConsistent
  <2>2. login[r].phone \in Phones /\ login[r].code \in sent[login[r].phone] \cap Codes
    BY <2>1 DEF RequestKnows
  <2>3. /\ code' \in [Phones -> Codes \cup {NoCode}]
        /\ \A p \in Phones : code'[p] # NoCode => code'[p] \in sent'[p]
    BY <2>1, <2>2
  <2>4. login'[r] = new
    BY <2>1 DEF LoginConsistent
  <2>5. RequestKnows(r)'
    BY <2>1, <2>4, GoesOn
  <2>6. new \in LoginStates
    BY DEF LoginStates
  <2> HIDE DEF new
  <2>7. QED
    BY <2>1, <2>3, <2>5, <2>6, CacheMoves
<1>5. CASE StoreCooldown(r)
  <2> DEFINE new == [login[r] EXCEPT !.at = "reset"]
  <2>1. /\ login' = [login EXCEPT ![r] = new] /\ login[r].at = "cool"
        /\ cooldown' = [cooldown EXCEPT ![login[r].phone] = TRUE]
        /\ UNCHANGED <<code, attempts, account, profile, sent, proved, sessions>>
    BY <1>5 DEF StoreCooldown, cacheVars, rowVars, LoginConsistent
  <2>2. cooldown' \in [Phones -> BOOLEAN]
    BY <2>1
  <2>3. login'[r] = new
    BY <2>1 DEF LoginConsistent
  <2>4. RequestKnows(r)'
    BY <2>1, <2>3, GoesOn
  <2>5. new \in LoginStates
    BY DEF LoginStates
  <2> HIDE DEF new
  <2>6. QED
    BY <2>1, <2>2, <2>4, <2>5, CacheMoves
<1>6. CASE ResetAttempts(r)
  <2>1. /\ login' = [login EXCEPT ![r] = IdleLogin] /\ login[r].at = "reset"
        /\ attempts' = [attempts EXCEPT ![login[r].phone] = 0]
        /\ UNCHANGED <<code, cooldown, account, profile, sent, proved, sessions>>
    BY <1>6 DEF ResetAttempts, cacheVars, rowVars
  <2>2. attempts' \in [Phones -> 0..MaxAttempts]
    <3>1. 0 \in 0..MaxAttempts
      OBVIOUS
    <3>2. QED
      BY <2>1, <3>1
  <2>3. RequestKnows(r)'
    BY <2>1, IdleKnows DEF LoginConsistent
  <2>4. QED
    BY <2>1, <2>2, <2>3, CacheMoves
<1>7. QED
  BY <1>1, <1>2, <1>3, <1>4, <1>5, <1>6 DEF SendView

\* verify_otp: the cache, and a phone whose code was entered.
VerifyOtp(r) ==
    \/ \E p \in Phones, c \in Codes : EnterCode(r, p, c)
    \/ Compare(r) \/ CountMiss(r) \/ ConsumeCode(r) \/ ClearAttempts(r)

LEMMA OtpKeeps ==
    ASSUME LoginConsistent, NEW r \in Requests, VerifyOtp(r)
    PROVE  LoginConsistent'
<1>0. /\ login[r] \in LoginStates /\ RequestKnows(r) /\ IdleLogin \in LoginStates
      /\ login \in [Requests -> LoginStates]
      /\ code \in [Phones -> Codes \cup {NoCode}]
      /\ attempts \in [Phones -> 0..MaxAttempts]
      /\ cooldown \in [Phones -> BOOLEAN]
      /\ sent \in [Phones -> SUBSET Codes] /\ proved \subseteq Phones
      /\ \A p \in Phones : code[p] # NoCode => code[p] \in sent[p]
      /\ MaxAttempts \in Nat \ {0}
  BY Begun, LoginConstants DEF LoginConsistent
<1> USE <1>0 DEF Goes, Ends
<1>1. ASSUME NEW p \in Phones, NEW c \in Codes, EnterCode(r, p, c) PROVE LoginConsistent'
  <2> DEFINE new == [IdleLogin EXCEPT !.at = "entered", !.phone = p, !.code = c,
                                      !.seen = attempts[p]]
  <2>1. /\ login' = [login EXCEPT ![r] = new] /\ attempts[p] < MaxAttempts
        /\ UNCHANGED <<code, attempts, cooldown, account, profile, sent, proved, sessions>>
    BY <1>1 DEF EnterCode, cacheVars, rowVars
  <2>2. attempts[p] \in 0..(MaxAttempts - 1)
    BY <2>1
  <2>3. new \in LoginStates
    BY <2>2 DEF LoginStates
  <2>4. login'[r] = new
    BY <2>1 DEF LoginConsistent
  <2>5. RequestKnows(r)'
    BY <2>4 DEF RequestKnows, IdleLogin
  <2> HIDE DEF new
  <2>6. QED
    BY <2>1, <2>3, <2>5, CacheMoves
<1>2. CASE Compare(r)
  <2>1. /\ login[r].at = "entered"
        /\ UNCHANGED <<code, attempts, cooldown, account, profile, sent, proved, sessions>>
    BY <1>2 DEF Compare, cacheVars, rowVars
  <2>2. PICK new \in LoginStates :
           /\ login' = [login EXCEPT ![r] = new]
           /\ new = IdleLogin \/ \E a \in {"miss", "hit"} : new = [login[r] EXCEPT !.at = a]
    <3>1. CASE login' = [login EXCEPT ![r] = IdleLogin]
      BY <3>1
    <3>2. ASSUME NEW a \in {"miss", "hit"},
                 login' = [login EXCEPT ![r] = [login[r] EXCEPT !.at = a]]
          PROVE  \E new \in LoginStates :
                    /\ login' = [login EXCEPT ![r] = new]
                    /\ \/ new = IdleLogin
                       \/ \E b \in {"miss", "hit"} : new = [login[r] EXCEPT !.at = b]
      <4> DEFINE new == [login[r] EXCEPT !.at = a]
      <4>1. new \in LoginStates
        BY DEF LoginStates
      <4>2. QED
        BY <3>2, <4>1
    <3>3. QED
      BY <1>2, <3>1, <3>2 DEF Compare
  <2>3. login'[r] = new
    BY <2>2 DEF LoginConsistent
  <2>4. RequestKnows(r)'
    BY <2>1, <2>2, <2>3, IdleKnows, GoesOn
  <2>5. QED
    BY <2>1, <2>2, <2>4, CacheMoves
<1>3. CASE CountMiss(r)
  <2>1. /\ login' = [login EXCEPT ![r] = IdleLogin] /\ login[r].at = "miss"
        /\ attempts' = [attempts EXCEPT ![login[r].phone] = login[r].seen + 1]
        /\ UNCHANGED <<code, cooldown, account, profile, sent, proved, sessions>>
    BY <1>3 DEF CountMiss, cacheVars, rowVars
  <2>2. login[r].seen + 1 \in 0..MaxAttempts
    BY DEF LoginStates
  <2>3. attempts' \in [Phones -> 0..MaxAttempts]
    BY <2>1, <2>2
  <2>4. RequestKnows(r)'
    BY <2>1, IdleKnows DEF LoginConsistent
  <2>5. QED
    BY <2>1, <2>3, <2>4, CacheMoves
<1>4. CASE ConsumeCode(r)
  <2> DEFINE new == [login[r] EXCEPT !.at = "clear"]
  <2>1. /\ login' = [login EXCEPT ![r] = new] /\ login[r].at = "hit"
        /\ code' = [code EXCEPT ![login[r].phone] = NoCode]
        /\ proved' = proved \cup {login[r].phone}
        /\ UNCHANGED <<attempts, cooldown, account, profile, sent, sessions>>
    BY <1>4 DEF ConsumeCode, cacheVars, rowVars, LoginConsistent
  <2>2. /\ code' \in [Phones -> Codes \cup {NoCode}]
        /\ \A p \in Phones : code'[p] # NoCode => code'[p] \in sent'[p]
        /\ proved' \subseteq Phones /\ proved \subseteq proved'
    <3>1. login[r].phone \in Phones
      BY <2>1 DEF RequestKnows
    <3>2. QED
      BY <2>1, <3>1
  <2>3. login'[r] = new
    BY <2>1 DEF LoginConsistent
  <2>4. RequestKnows(r)'
    BY <2>1, <2>3, GoesOn
  <2>5. new \in LoginStates
    BY DEF LoginStates
  <2> HIDE DEF new
  <2>6. QED
    BY <2>1, <2>2, <2>4, <2>5, CacheMoves
<1>5. CASE ClearAttempts(r)
  <2> DEFINE new == [login[r] EXCEPT !.at = "find"]
  <2>1. /\ login' = [login EXCEPT ![r] = new] /\ login[r].at = "clear"
        /\ attempts' = [attempts EXCEPT ![login[r].phone] = 0]
        /\ UNCHANGED <<code, cooldown, account, profile, sent, proved, sessions>>
    BY <1>5 DEF ClearAttempts, cacheVars, rowVars, LoginConsistent
  <2>2. attempts' \in [Phones -> 0..MaxAttempts]
    <3>1. 0 \in 0..MaxAttempts
      OBVIOUS
    <3>2. QED
      BY <2>1, <3>1
  <2>3. login'[r] = new
    BY <2>1 DEF LoginConsistent
  <2>4. login[r].phone \in proved
    BY <2>1 DEF RequestKnows
  <2>5. RequestKnows(r)'
    BY <2>1, <2>3, <2>4, GoesOn
  <2>6. new \in LoginStates
    BY DEF LoginStates
  <2> HIDE DEF new
  <2>7. QED
    BY <2>1, <2>2, <2>5, <2>6, CacheMoves
<1>6. QED
  BY <1>1, <1>2, <1>3, <1>4, <1>5 DEF VerifyOtp

\* A step of request r that writes one profile of its phone.
LEMMA ProfileMoves ==
    ASSUME LoginConsistent, NEW r \in Requests, NEW new \in LoginStates,
           NEW p \in Phones, NEW k \in Kinds,
           NEW value \in {"blank", "holds", "verified"},
           login' = [login EXCEPT ![r] = new],
           profile' = [profile EXCEPT ![p][k] = value],
           account[p][k] # "none", profile[p][k] = "verified" => value = "verified",
           value = "blank" \/ Holders(p) \subseteq {k},
           value = "verified" => p \in proved,
           UNCHANGED <<code, attempts, cooldown, account, sent, proved, sessions>>,
           RequestKnows(r)'
    PROVE  LoginConsistent'
<1>0. /\ profile \in [Phones -> [Kinds -> {"none", "blank", "holds", "verified"}]]
      /\ account \in [Phones -> [Kinds -> {"none", "active", "inactive"}]]
  BY DEF LoginConsistent, LoginTypeOK
<1>1. \A q \in Phones, j \in Kinds :
         profile'[q][j] = IF q = p /\ j = k THEN value ELSE profile[q][j]
  BY <1>0
<1>2. /\ profile' \in [Phones -> [Kinds -> {"none", "blank", "holds", "verified"}]]
      /\ account' \in [Phones -> [Kinds -> {"none", "active", "inactive"}]]
  BY <1>0
<1>3. \A q \in Phones, j \in Kinds :
         profile[q][j] = "verified" => profile'[q][j] = "verified"
  BY <1>1
<1>4. PhoneHeldOnce'
  <2>1. ASSUME NEW q \in Phones, NEW i \in Holders(q)', NEW j \in Holders(q)'
        PROVE  i = j
    <3>1. CASE q # p \/ value = "blank"
      <4>1. Holders(q)' \subseteq Holders(q)
        BY <3>1, <1>1 DEF Holders
      <4>2. QED
        BY <4>1 DEF LoginConsistent, PhoneHeldOnce
    <3>2. CASE q = p /\ Holders(p) \subseteq {k}
      BY <3>2, <1>1 DEF Holders
    <3>3. QED
      BY <3>1, <3>2
  <2>2. \A q \in Phones, j \in Kinds : profile'[q][j] # "none" => account'[q][j] # "none"
    BY <1>1 DEF LoginConsistent, PhoneHeldOnce
  <2>3. \A q \in Phones : \A j \in sessions'[q] : profile'[q][j] = "verified"
    BY <1>3 DEF LoginConsistent, PhoneHeldOnce
  <2>4. QED
    BY <2>1, <2>2, <2>3 DEF PhoneHeldOnce
<1>5. VerifiedByCode'
  BY <1>1 DEF LoginConsistent, VerifiedByCode
<1>6. StoredCodeWasSent'
  BY DEF LoginConsistent, StoredCodeWasSent
<1>7. QED
  BY <1>2, <1>3, <1>4, <1>5, <1>6, RequestMoves DEF LoginConsistent, LoginTypeOK

\* verify_otp_view after the code: the account, its profile, the session.
LEMMA AccountKeeps ==
    ASSUME LoginConsistent, NEW r \in Requests,
           \/ FindAccount(r) \/ CreateUser(r) \/ SignalProfile(r) \/ EnsureProfile(r)
           \/ VerifyProfile(r) \/ LogIn(r)
    PROVE  LoginConsistent'
<1> DEFINE p == login[r].phone
           k == login[r].kind
           goes(a) == [login[r] EXCEPT !.at = a]
<1>0. /\ login[r] \in LoginStates /\ RequestKnows(r) /\ IdleLogin \in LoginStates
      /\ login \in [Requests -> LoginStates]
      /\ account \in [Phones -> [Kinds -> {"none", "active", "inactive"}]]
      /\ profile \in [Phones -> [Kinds -> {"none", "blank", "holds", "verified"}]]
      /\ "plain" \in Kinds
  BY Begun DEF LoginConsistent, Kinds
<1>1. /\ login[r].at \in {"find", "create", "signal", "profile", "verify", "merge"}
      /\ UNCHANGED <<code, attempts, cooldown, sent, proved>>
  BY DEF FindAccount, CreateUser, SignalProfile, EnsureProfile, VerifyProfile, LogIn,
     cacheVars
<1>2. p \in Phones /\ p \in proved /\ k \in Kinds
  BY <1>0, <1>1 DEF RequestKnows, LoginStates
<1>3. CASE FindAccount(r)
  <2>1. UNCHANGED <<account, profile, sessions>> /\ login[r].at = "find"
    BY <1>3 DEF FindAccount, rowVars
  <2>2. PICK new \in LoginStates :
           /\ login' = [login EXCEPT ![r] = new] /\ new.phone = p
           /\ \/ new.at = "verify" /\ new.kind \in Holders(p)
              \/ new.at = "profile" /\ new.kind = "plain" /\ account[p]["plain"] # "none"
              \/ new.at = "create" /\ new.kind = k
    <3> DEFINE finds(j, at) ==
           [login[r] EXCEPT !.at = at, !.kind = j, !.active = account[p][j] = "active"]
    <3>1. \/ \E j \in Holders(p) : login' = [login EXCEPT ![r] = finds(j, "verify")]
          \/ /\ account[p]["plain"] # "none"
             /\ login' = [login EXCEPT ![r] = finds("plain", "profile")]
          \/ login' = [login EXCEPT ![r] = goes("create")]
      BY <1>0, <1>3 DEF FindAccount, Goes
    <3>2. \A j \in Kinds, at \in {"verify", "profile"} :
             /\ finds(j, at) \in LoginStates /\ finds(j, at).at = at
             /\ finds(j, at).kind = j /\ finds(j, at).phone = p
      <4> SUFFICES ASSUME NEW j \in Kinds, NEW at \in {"verify", "profile"}
                   PROVE  /\ finds(j, at) \in LoginStates /\ finds(j, at).at = at
                          /\ finds(j, at).kind = j /\ finds(j, at).phone = p
        OBVIOUS
      <4> DEFINE active == account[p][j] = "active"
      <4>1. active \in BOOLEAN
        OBVIOUS
      <4>2. finds(j, at) = [login[r] EXCEPT !.at = at, !.kind = j, !.active = active]
        OBVIOUS
      <4> HIDE DEF active, finds
      <4>3. QED
        BY <1>0, <4>1, <4>2 DEF LoginStates
    <3>3. /\ goes("create") \in LoginStates /\ goes("create").at = "create"
          /\ goes("create").kind = k /\ goes("create").phone = p
      BY <1>0 DEF LoginStates
    <3>4. Holders(p) \subseteq Kinds
      BY DEF Holders
    <3> HIDE DEF finds, goes
    <3>5. QED
      BY <1>0, <3>1, <3>2, <3>3, <3>4
  <2>3. login'[r] = new
    BY <1>0, <2>2
  <2>4. \A j \in Holders(p) : account[p][j] # "none"
    BY <1>2 DEF LoginConsistent, PhoneHeldOnce, Holders
  <2>5. k = "plain"
    BY <1>0, <2>1 DEF RequestKnows
  <2>6. RequestKnows(r)'
    BY <1>1, <1>2, <2>1, <2>2, <2>3, <2>4, <2>5 DEF RequestKnows
  <2>7. QED
    BY <1>1, <2>1, <2>2, <2>6, CacheMoves DEF LoginConsistent, LoginTypeOK, StoredCodeWasSent
<1>4. CASE CreateUser(r)
  <2>1. /\ login' = [login EXCEPT ![r] = goes("signal")] /\ login[r].at = "create"
        /\ account[p]["plain"] = "none"
        /\ account' = [account EXCEPT ![p]["plain"] = "active"]
        /\ UNCHANGED <<profile, sessions>>
    BY <1>0, <1>4 DEF CreateUser, Goes
  <2>2. goes("signal") \in LoginStates
    BY <1>0 DEF LoginStates
  <2>3. login'[r] = goes("signal")
    BY <1>0, <2>1
  <2>4. /\ account' \in [Phones -> [Kinds -> {"none", "active", "inactive"}]]
        /\ \A q \in Phones, j \in Kinds : account[q][j] # "none" => account'[q][j] # "none"
        /\ account'[p]["plain"] = "active"
    BY <1>0, <1>2, <2>1
  <2>5. k = "plain"
    BY <1>0, <2>1 DEF RequestKnows
  <2>6. goes("signal").at = "signal" /\ goes("signal").kind = k /\ goes("signal").phone = p
    BY <1>0 DEF LoginStates
  <2> HIDE DEF goes
  <2>7. RequestKnows(r)'
    BY <1>1, <1>2, <2>3, <2>4, <2>5, <2>6 DEF RequestKnows
  <2>8. PhoneHeldOnce' /\ VerifiedByCode' /\ StoredCodeWasSent'
    BY <1>1, <2>1, <2>4 DEF LoginConsistent, PhoneHeldOnce, VerifiedByCode,
       StoredCodeWasSent, Holders
  <2>9. QED
    BY <1>1, <2>1, <2>2, <2>4, <2>7, <2>8, RequestMoves DEF LoginConsistent, LoginTypeOK
<1>5. CASE SignalProfile(r) \/ EnsureProfile(r)
  <2>1. PICK a \in {"profile", "verify"} :
           /\ login' = [login EXCEPT ![r] = goes(a)]
           /\ login[r].at \in {"signal", "profile"}
    BY <1>0, <1>5 DEF SignalProfile, EnsureProfile, Goes
  <2>2. UNCHANGED <<account, sessions>>
    BY <1>5 DEF SignalProfile, EnsureProfile
  <2>3. k = "plain" /\ account[p]["plain"] # "none"
    BY <1>0, <2>1 DEF RequestKnows
  <2>4. /\ goes(a) \in LoginStates /\ goes(a).at = a /\ goes(a).kind = k
        /\ goes(a).phone = p
    BY <1>0 DEF LoginStates
  <2>5. login'[r] = goes(a)
    BY <1>0, <2>1
  <2> HIDE DEF goes
  <2>6. RequestKnows(r)'
    BY <1>1, <1>2, <2>2, <2>3, <2>4, <2>5 DEF RequestKnows
  <2>7. CASE profile[p]["plain"] # "none"
    <3>1. UNCHANGED profile
      BY <1>5, <2>7 DEF SignalProfile, EnsureProfile
    <3>2. QED
      BY <1>1, <2>1, <2>2, <2>4, <2>6, <3>1, CacheMoves
         DEF LoginConsistent, LoginTypeOK, StoredCodeWasSent
  <2>8. CASE profile[p]["plain"] = "none"
    <3>1. PICK value \in {"blank", "holds"} :
             /\ profile' = [profile EXCEPT ![p]["plain"] = value]
             /\ value = "blank" \/ Holders(p) = {}
      BY <1>5, <2>8 DEF SignalProfile, EnsureProfile, NewProfile
    <3>2. QED
      BY <1>0, <1>1, <1>2, <2>1, <2>2, <2>3, <2>4, <2>6, <2>8, <3>1, ProfileMoves
  <2>9. QED
    BY <2>7, <2>8
<1>6. CASE VerifyProfile(r)
  <2>1. /\ login' = [login EXCEPT ![r] = goes("merge")] /\ login[r].at = "verify"
        /\ Holders(p) \subseteq {k}
        /\ profile' = [profile EXCEPT ![p][k] = "verified"]
        /\ UNCHANGED <<account, sessions>>
    BY <1>0, <1>6 DEF VerifyProfile, Goes
  <2>2. /\ goes("merge") \in LoginStates /\ goes("merge").at = "merge"
        /\ goes("merge").kind = k /\ goes("merge").phone = p
    BY <1>0 DEF LoginStates
  <2>3. login'[r] = goes("merge")
    BY <1>0, <2>1
  <2>4. account[p][k] # "none" /\ profile'[p][k] = "verified"
    BY <1>0, <1>2, <2>1 DEF RequestKnows
  <2> HIDE DEF goes
  <2>5. RequestKnows(r)'
    BY <1>1, <1>2, <2>1, <2>2, <2>3, <2>4 DEF RequestKnows
  <2>6. QED
    BY <1>1, <1>2, <2>1, <2>2, <2>4, <2>5, ProfileMoves
<1>7. CASE LogIn(r)
  <2>1. /\ login' = [login EXCEPT ![r] = IdleLogin] /\ login[r].at = "merge"
        /\ sessions' = [sessions EXCEPT ![p] = @ \cup {k}]
        /\ UNCHANGED <<account, profile>>
    BY <1>7 DEF LogIn, Ends, rowVars
  <2>2. profile[p][k] = "verified"
    BY <1>0, <2>1 DEF RequestKnows
  <2>3. RequestKnows(r)'
    BY <1>0, <2>1, IdleKnows
  <2>4. /\ sessions' \in [Phones -> SUBSET Kinds]
        /\ \A q \in Phones : \A j \in sessions'[q] : profile[q][j] = "verified"
    BY <1>2, <2>1, <2>2 DEF LoginConsistent, PhoneHeldOnce
  <2>5. PhoneHeldOnce' /\ VerifiedByCode' /\ StoredCodeWasSent'
    BY <1>1, <2>1, <2>4 DEF LoginConsistent, PhoneHeldOnce, VerifiedByCode,
       StoredCodeWasSent, Holders
  <2>6. QED
    BY <1>0, <1>1, <2>1, <2>3, <2>4, <2>5, RequestMoves DEF LoginConsistent, LoginTypeOK
<1>8. QED
  BY <1>3, <1>4, <1>5, <1>6, <1>7

\* Whatever fails, what the others know is still true.
LEMMA FailureKeeps ==
    ASSUME LoginConsistent, NEW r \in Requests, LoginFails(r)
    PROVE  LoginConsistent'
<1>1. /\ login' = [login EXCEPT ![r] = IdleLogin]
      /\ UNCHANGED <<code, attempts, cooldown, account, profile, sent, proved, sessions>>
  BY DEF LoginFails, Ends, cacheVars, rowVars
<1>2. RequestKnows(r)'
  BY <1>1, IdleKnows DEF LoginConsistent
<1>3. QED
  BY <1>1, <1>2, Begun, CacheMoves DEF LoginConsistent, LoginTypeOK

\* The cache forgets; users are added and disabled.
LEMMA WorldKeeps ==
    ASSUME LoginConsistent, NEW p \in Phones, NEW k \in Kinds,
           Expire(p) \/ AddUser(p, k) \/ ToggleActive(p, k)
    PROVE  LoginConsistent'
<1>0. /\ account \in [Phones -> [Kinds -> {"none", "active", "inactive"}]]
      /\ profile \in [Phones -> [Kinds -> {"none", "blank", "holds", "verified"}]]
      /\ code \in [Phones -> Codes \cup {NoCode}]
      /\ attempts \in [Phones -> 0..MaxAttempts]
      /\ cooldown \in [Phones -> BOOLEAN]
      /\ MaxAttempts \in Nat \ {0}
  BY LoginConstants DEF LoginConsistent, LoginTypeOK
<1>1. UNCHANGED <<login, sent, proved, sessions>>
  BY DEF Expire, AddUser, ToggleActive
<1>2. /\ code' \in [Phones -> Codes \cup {NoCode}]
      /\ attempts' \in [Phones -> 0..MaxAttempts]
      /\ cooldown' \in [Phones -> BOOLEAN]
      /\ \A q \in Phones : code'[q] \in {code[q], NoCode}
  <2>1. 0 \in 0..MaxAttempts
    BY <1>0
  <2>2. QED
    BY <1>0, <2>1 DEF Expire, AddUser, ToggleActive, cacheVars
<1>3. /\ account' \in [Phones -> [Kinds -> {"none", "active", "inactive"}]]
      /\ profile' \in [Phones -> [Kinds -> {"none", "blank", "holds", "verified"}]]
      /\ \A q \in Phones, j \in Kinds : account[q][j] # "none" => account'[q][j] # "none"
      /\ \A q \in Phones, j \in Kinds :
            \/ profile'[q][j] = profile[q][j]
            \/ /\ q = p /\ j = k /\ account'[p][k] # "none" /\ profile[p][k] = "none"
               /\ profile'[p][k] \in {"blank", "holds"}
               /\ profile'[p][k] = "holds" => Holders(p) = {}
  <2>1. CASE Expire(p)
    BY <1>0, <2>1 DEF Expire, rowVars
  <2>2. CASE AddUser(p, k)
    <3>1. /\ account' = [account EXCEPT ![p][k] = "active"] /\ account[p][k] = "none"
          /\ profile' = [profile EXCEPT ![p][k] = NewProfile(p)]
          /\ NewProfile(p) \in {"holds", "blank"}
          /\ NewProfile(p) = "holds" => Holders(p) = {}
      BY <2>2 DEF AddUser, NewProfile
    <3>2. profile[p][k] = "none"
      BY <3>1 DEF LoginConsistent, PhoneHeldOnce
    <3>3. \A q \in Phones, j \in Kinds :
             IF q = p /\ j = k
             THEN account'[q][j] = "active" /\ profile'[q][j] = NewProfile(p)
             ELSE account'[q][j] = account[q][j] /\ profile'[q][j] = profile[q][j]
      BY <1>0, <3>1
    <3>4. /\ account' \in [Phones -> [Kinds -> {"none", "active", "inactive"}]]
          /\ profile' \in [Phones -> [Kinds -> {"none", "blank", "holds", "verified"}]]
      BY <1>0, <3>1
    <3>5. QED
      BY <3>1, <3>2, <3>3, <3>4
  <2>3. CASE ToggleActive(p, k)
    <3>1. PICK b \in {"active", "inactive"} : account' = [account EXCEPT ![p][k] = b]
      BY <2>3 DEF ToggleActive
    <3>2. profile' = profile
      BY <2>3 DEF ToggleActive
    <3>3. QED
      BY <1>0, <3>1, <3>2
  <2>4. QED
    BY <2>1, <2>2, <2>3
<1>4. \A q \in Phones, j \in Kinds :
         profile[q][j] = "verified" <=> profile'[q][j] = "verified"
  BY <1>3
<1>5. PhoneHeldOnce'
  <2>1. ASSUME NEW q \in Phones, NEW i \in Holders(q)', NEW j \in Holders(q)'
        PROVE  i = j
    <3>1. \A a, b \in Holders(q) : a = b
      BY DEF LoginConsistent, PhoneHeldOnce
    <3>2. \A a \in Holders(q)' : a \in Holders(q) \/ (q = p /\ a = k /\ Holders(p) = {})
      BY <1>3 DEF Holders
    <3>3. QED
      BY <2>1, <3>1, <3>2
  <2>2. \A q \in Phones, j \in Kinds : profile'[q][j] # "none" => account'[q][j] # "none"
    BY <1>3 DEF LoginConsistent, PhoneHeldOnce
  <2>3. \A q \in Phones : \A j \in sessions'[q] : profile'[q][j] = "verified"
    BY <1>1, <1>4 DEF LoginConsistent, PhoneHeldOnce
  <2>4. QED
    BY <2>1, <2>2, <2>3 DEF PhoneHeldOnce
<1>6. VerifiedByCode'
  BY <1>1, <1>4 DEF LoginConsistent, VerifiedByCode
<1>7. StoredCodeWasSent'
  BY <1>1, <1>2 DEF LoginConsistent, StoredCodeWasSent
<1>8. ASSUME NEW q \in Requests PROVE RequestKnows(q)'
  <2>1. /\ RequestKnows(q) /\ login'[q] = login[q] /\ proved \subseteq proved'
        /\ \A o \in Phones : sent[o] \subseteq sent'[o]
    BY <1>1 DEF LoginConsistent
  <2>2. \A o \in Phones, j \in Kinds :
           /\ account[o][j] # "none" => account'[o][j] # "none"
           /\ profile[o][j] = "verified" => profile'[o][j] = "verified"
    BY <1>3, <1>4
  <2>3. QED
    BY <2>1, <2>2, OtherKnows
<1>9. QED
  BY <1>1, <1>2, <1>3, <1>5, <1>6, <1>7, <1>8 DEF LoginConsistent, LoginTypeOK

\* A deleted account takes its profile, its sessions and its requests with it.
LEMMA DeletionKeeps ==
    ASSUME LoginConsistent, NEW p \in Phones, NEW k \in Kinds, DeleteUser(p, k)
    PROVE  LoginConsistent'
<1> DEFINE Refused(r) == /\ login[r].phone = p /\ login[r].kind = k
                         /\ login[r].at \in {"signal", "profile", "verify", "merge"}
<1>0. /\ account \in [Phones -> [Kinds -> {"none", "active", "inactive"}]]
      /\ profile \in [Phones -> [Kinds -> {"none", "blank", "holds", "verified"}]]
      /\ sessions \in [Phones -> SUBSET Kinds] /\ login \in [Requests -> LoginStates]
  BY DEF LoginConsistent, LoginTypeOK
<1>1. /\ login' = [r \in Requests |-> IF Refused(r) THEN [login[r] EXCEPT !.at = "refused"]
                                      ELSE login[r]]
      /\ account' = [account EXCEPT ![p][k] = "none"]
      /\ profile' = [profile EXCEPT ![p][k] = "none"]
      /\ sessions' = [sessions EXCEPT ![p] = @ \ {k}]
      /\ UNCHANGED <<code, attempts, cooldown, sent, proved>>
  BY DEF DeleteUser, cacheVars
<1>2. /\ account' \in [Phones -> [Kinds -> {"none", "active", "inactive"}]]
      /\ profile' \in [Phones -> [Kinds -> {"none", "blank", "holds", "verified"}]]
      /\ sessions' \in [Phones -> SUBSET Kinds]
      /\ \A q \in Phones, j \in Kinds :
            IF q = p /\ j = k THEN account'[q][j] = "none" /\ profile'[q][j] = "none"
            ELSE account'[q][j] = account[q][j] /\ profile'[q][j] = profile[q][j]
  BY <1>0, <1>1
<1>3. \A r \in Requests : [login[r] EXCEPT !.at = "refused"] \in LoginStates
  BY <1>0 DEF LoginStates
<1>4. login' \in [Requests -> LoginStates]
  BY <1>0, <1>1, <1>3
<1>5. PhoneHeldOnce'
  <2>1. \A q \in Phones : Holders(q)' \subseteq Holders(q)
    BY <1>2 DEF Holders
  <2>2. \A q \in Phones : \A j \in sessions'[q] : j \in sessions[q] /\ (q # p \/ j # k)
    BY <1>0, <1>1
  <2>3. QED
    BY <1>0, <1>2, <2>1, <2>2 DEF LoginConsistent, PhoneHeldOnce
<1>6. VerifiedByCode' /\ StoredCodeWasSent'
  BY <1>1, <1>2 DEF LoginConsistent, VerifiedByCode, StoredCodeWasSent
<1>7. ASSUME NEW r \in Requests PROVE RequestKnows(r)'
  <2>1. RequestKnows(r) /\ login[r] \in LoginStates
    BY <1>0 DEF LoginConsistent
  <2>2. CASE Refused(r)
    <3>1. login'[r] = [login[r] EXCEPT !.at = "refused"]
      BY <1>1, <2>2
    <3>2. /\ login'[r].at = "refused" /\ login'[r].phone = p
      BY <2>1, <2>2, <3>1 DEF LoginStates
    <3>3. QED
      BY <3>2 DEF RequestKnows
  <2>3. CASE ~Refused(r)
    <3>1. login'[r] = login[r]
      BY <1>1, <2>3
    <3>2. login[r].kind \in Kinds
      BY <2>1 DEF LoginStates
    <3>3. QED
      BY <1>1, <1>2, <2>1, <2>3, <3>1, <3>2 DEF RequestKnows
  <2>4. QED
    BY <2>2, <2>3
<1>8. LoginTypeOK'
  BY <1>1, <1>2, <1>4 DEF LoginConsistent, LoginTypeOK, LoginStates
<1>9. QED
  BY <1>1, <1>2, <1>4, <1>5, <1>6, <1>7, <1>8 DEF LoginConsistent

LEMMA LoginStep == LoginConsistent /\ [LoginNext]_loginVars => LoginConsistent'
<1> SUFFICES ASSUME LoginConsistent, [LoginNext]_loginVars PROVE LoginConsistent'
  OBVIOUS
<1>1. CASE UNCHANGED loginVars
  BY <1>1 DEF loginVars, LoginConsistent, LoginTypeOK, StoredCodeWasSent, VerifiedByCode,
     PhoneHeldOnce, Holders, RequestKnows
<1>2. ASSUME NEW r \in Requests, SendView(r) \/ VerifyView(r) \/ LoginFails(r)
      PROVE  LoginConsistent'
  BY <1>2, SendKeeps, OtpKeeps, AccountKeeps, FailureKeeps DEF VerifyView, VerifyOtp
<1>3. ASSUME NEW p \in Phones,
             \/ Expire(p)
             \/ \E k \in Kinds : AddUser(p, k) \/ ToggleActive(p, k) \/ DeleteUser(p, k)
      PROVE  LoginConsistent'
  <2>1. "plain" \in Kinds
    BY DEF Kinds
  <2>2. QED
    BY <1>3, <2>1, WorldKeeps, DeletionKeeps
<1>4. QED
  BY <1>1, <1>2, <1>3 DEF LoginNext

\* What requests, cache, accounts and sessions know of each other, always.
THEOREM LoginAlwaysConsistent == LoginSpec => []LoginConsistent
BY LoginInitConsistent, LoginStep, PTL DEF LoginSpec

\* The counter of misses keeps within its limit however many requests race.
THEOREM LoginTypeCorrect == LoginSpec => []LoginTypeOK
BY LoginAlwaysConsistent, PTL DEF LoginConsistent

\* A code in the cache was sent to its phone (send_otp).
THEOREM StoredCodesWereSent == LoginSpec => []StoredCodeWasSent
BY LoginAlwaysConsistent, PTL DEF LoginConsistent

\* A profile is verified by a code alone, never by the user's name.
THEOREM CodesVerify == LoginSpec => []VerifiedByCode
BY LoginAlwaysConsistent, PTL DEF LoginConsistent

\* A phone logs in to one account, whichever requests and users race.
THEOREM PhonesHaveOneAccount == LoginSpec => []OneAccountPerPhone
<1>1. ASSUME LoginConsistent, NEW p \in Phones PROVE Cardinality(sessions[p]) <= 1
  <2>1. \A j, k \in sessions[p] : j = k
    BY <1>1 DEF LoginConsistent, PhoneHeldOnce, Holders
  <2>2. CASE sessions[p] = {}
    BY <2>2, FS_EmptySet
  <2>3. CASE sessions[p] # {}
    <3>1. PICK k : k \in sessions[p]
      BY <2>3
    <3>2. sessions[p] = {k}
      BY <2>1, <3>1
    <3>3. QED
      BY <3>2, FS_Singleton
  <2>4. QED
    BY <2>2, <2>3
<1>2. LoginConsistent => OneAccountPerPhone
  BY <1>1 DEF OneAccountPerPhone
<1>3. QED
  BY <1>2, LoginAlwaysConsistent, PTL
-----------------------------------------------------------------------------
(* StoreManager.  An appointment looks for managers and commits under the   *)
(* lock of the group's row.                                                 *)

\* Nobody has the role when the shop is opened.
LEMMA RoleInitConsistent == RoleInit => RoleConsistent
BY RoleConstants DEF RoleInit, RoleConsistent, FormKnows, FormStates, IdleForm

\* A form that is not at its commit goes on.
LEMMA FormGoesOn ==
    ASSUME RoleConsistent, NEW f \in Forms, NEW u \in Staff,
           NEW chosen \in BOOLEAN, NEW active \in BOOLEAN, NEW ticked \in BOOLEAN,
           \/ Validate(f, u, chosen, active, ticked)
           \/ CheckAssignment(f) \/ SaveUser(f) \/ SetGroups(f)
    PROVE  RoleConsistent'
<1> USE RoleConstants DEF RoleConsistent
<1>1. CASE Validate(f, u, chosen, active, ticked)
  <2> DEFINE checked == [at |-> "check", user |-> u, chosen |-> TRUE,
                         active |-> active, staff |-> TRUE]
             saved == [at |-> "save", user |-> u, chosen |-> chosen, active |-> active,
                       staff |-> IF u \in Owners THEN ticked ELSE chosen]
             Sound(new) == /\ new.at \in {"check", "save"} /\ new.user = u
                           /\ u \notin Owners => new.staff = new.chosen
  <2>0. checked \in FormStates /\ saved \in FormStates
    BY DEF FormStates
  <2>a. Sound(saved)
    OBVIOUS
  <2>b. u \notin Owners => Sound(checked)
    OBVIOUS
  <2>1. PICK new \in FormStates : form' = [form EXCEPT ![f] = new] /\ Sound(new)
    <3>1. \/ form' = [form EXCEPT ![f] = saved]
          \/ u \notin Owners /\ form' = [form EXCEPT ![f] = checked]
      BY <1>1 DEF Validate
    <3> HIDE DEF checked, saved, Sound
    <3>2. QED
      BY <3>1, <2>0, <2>a, <2>b
  <2>2. UNCHANGED <<manager, panel, enabled, groupLock, userLock>>
    BY <1>1 DEF Validate, At
  <2>3. ASSUME NEW g \in Forms PROVE FormKnows(g)'
    BY <2>1, <2>2, <2>3 DEF FormKnows, OnlyManager
  <2>4. QED
    BY <2>1, <2>2, <2>3
<1>2. CASE CheckAssignment(f)
  <2>1. form' = [form EXCEPT ![f].at = "save"] /\ groupLock' = f /\ groupLock = NoForm
        /\ UNCHANGED <<manager, panel, enabled, userLock>> /\ form[f].at = "check"
    BY <1>2 DEF CheckAssignment, At, Moves
  <2>2. form' \in [Forms -> FormStates]
    BY <2>1 DEF FormStates
  <2>3. ASSUME NEW g \in Forms PROVE FormKnows(g)'
    BY <2>1, <2>3 DEF FormKnows, FormStates, OnlyManager
  <2>4. QED
    BY <2>1, <2>2, <2>3
<1>3. CASE SaveUser(f)
  <2>1. form' = [form EXCEPT ![f].at = "groups"]
        /\ userLock[form[f].user] = NoForm
        /\ userLock' = [userLock EXCEPT ![form[f].user] = f]
        /\ UNCHANGED <<manager, panel, enabled, groupLock>> /\ form[f].at = "save"
    BY <1>3 DEF SaveUser, At, Moves
  <2>2. form' \in [Forms -> FormStates]
    BY <2>1 DEF FormStates
  <2>3. ASSUME NEW g \in Forms PROVE FormKnows(g)'
    BY <2>1, <2>3 DEF FormKnows, FormStates, OnlyManager
  <2>4. QED
    BY <2>1, <2>2, <2>3
<1>4. CASE SetGroups(f)
  <2> DEFINE w == form[f].user
  <2>1. /\ form' = [form EXCEPT ![f].at = "commit"]
        /\ UNCHANGED <<manager, panel, enabled, userLock>> /\ form[f].at = "groups"
    BY <1>4 DEF SetGroups, At, Moves
  <2>2. form' \in [Forms -> FormStates]
    BY <2>1 DEF FormStates
  <2>3. \/ /\ form[f].chosen /\ w \notin manager
           /\ groupLock \in {NoForm, f} /\ groupLock' = f
           /\ w \notin Owners /\ form[f].active /\ OnlyManager(w)
        \/ /\ ~form[f].chosen \/ w \in manager
           /\ groupLock' = groupLock
    BY <1>4 DEF SetGroups
  <2>4. groupLock' \in Forms \cup {NoForm}
    BY <2>3
  <2>5. ASSUME NEW g \in Forms PROVE FormKnows(g)'
    <3>1. CASE g = f
      BY <3>1, <2>1, <2>3 DEF FormKnows, FormStates, OnlyManager
    <3>2. CASE g # f
      <4>1. form'[g] = form[g]
        BY <2>1, <3>2
      <4>2. groupLock = g => groupLock' = g
        BY <2>3, <3>2
      <4>3. QED
        BY <4>1, <4>2, <2>1 DEF FormKnows, OnlyManager
    <3>3. QED
      BY <3>1, <3>2
  <2>6. QED
    BY <2>1, <2>2, <2>4, <2>5
<1>5. QED
  BY <1>1, <1>2, <1>3, <1>4

\* A form ends: no other loses its locks.
LEMMA ReleasesOwn ==
    ASSUME RoleConsistent, NEW f \in Forms, Releases(f)
    PROVE  /\ groupLock' \in Forms \cup {NoForm}
           /\ userLock' \in [Staff -> Forms \cup {NoForm}]
           /\ form' \in [Forms -> FormStates]
           /\ form'[f] = IdleForm
           /\ \A g \in Forms \ {f} :
                 /\ form'[g] = form[g]
                 /\ groupLock = g => groupLock' = g
                 /\ \A u \in Staff : userLock[u] = g => userLock'[u] = g
BY RoleConstants DEF RoleConsistent, Releases, IdleForm, FormStates

LEMMA FormRolledBack ==
    ASSUME RoleConsistent, NEW f \in Forms, RollbackForm(f)
    PROVE  RoleConsistent'
<1>1. Releases(f) /\ UNCHANGED <<manager, panel, enabled>>
  BY DEF RollbackForm
<1>2. ASSUME NEW g \in Forms PROVE FormKnows(g)'
  <2>1. CASE g = f
    BY <2>1, <1>1, ReleasesOwn DEF FormKnows, IdleForm
  <2>2. CASE g # f
    BY <2>2, <1>1, ReleasesOwn DEF RoleConsistent, FormKnows, OnlyManager
  <2>3. QED
    BY <2>1, <2>2
<1>3. QED
  BY <1>1, <1>2, ReleasesOwn DEF RoleConsistent

\* An appointment commits with the group's row locked, so that no other can
\* have committed since it looked for managers.
LEMMA FormCommitted ==
    ASSUME RoleConsistent, NEW f \in Forms, CommitForm(f)
    PROVE  RoleConsistent'
<1> DEFINE u == form[f].user
<1>1. /\ form[f].at = "commit" /\ Releases(f)
      /\ manager' = IF form[f].chosen THEN manager \cup {u} ELSE manager \ {u}
      /\ panel' = IF form[f].staff THEN panel \cup {u} ELSE panel \ {u}
      /\ enabled' = IF form[f].active THEN enabled \cup {u} ELSE enabled \ {u}
  BY DEF CommitForm
<1>2. FormKnows(f) /\ u \in Staff /\ userLock[u] = f
  BY <1>1 DEF RoleConsistent, FormKnows
<1>3. \A v, w \in manager' \ Owners : v = w
  BY <1>1, <1>2 DEF RoleConsistent, FormKnows, OnlyManager
<1>4. ASSUME NEW g \in Forms PROVE FormKnows(g)'
  <2>1. CASE g = f
    BY <2>1, <1>1, ReleasesOwn DEF FormKnows, IdleForm
  <2>2. CASE g # f
    <3> DEFINE v == form[g].user
    <3>1. FormKnows(g) /\ form'[g] = form[g]
      BY <2>2, <1>1, ReleasesOwn DEF RoleConsistent
    <3>2. form[g].at \in {"groups", "commit"} => userLock'[v] = g /\ v # u
      BY <2>2, <3>1, <1>1, <1>2, ReleasesOwn DEF FormKnows
    <3>3. ASSUME form[g].at = "commit", form[g].chosen, v \notin manager'
          PROVE  groupLock' = g /\ v \notin Owners /\ form[g].active
                 /\ manager' \ Owners \subseteq {v}
      <4>1. v \notin manager
        BY <3>2, <3>3, <1>1
      <4>2. groupLock = g /\ v \notin Owners /\ form[g].active /\ manager \ Owners \subseteq {v}
        BY <3>1, <3>3, <4>1 DEF FormKnows, OnlyManager
      <4>3. form[f].chosen => u \in manager
        BY <2>2, <4>2, <1>1, <1>2 DEF FormKnows
      <4>4. manager' \subseteq manager
        BY <4>3, <1>1
      <4>5. QED
        BY <2>2, <4>2, <4>4, <1>1, ReleasesOwn
    <3>4. QED
      BY <3>1, <3>2, <3>3 DEF FormKnows, OnlyManager
  <2>3. QED
    BY <2>1, <2>2
<1>5. manager' \subseteq Staff /\ panel' \subseteq Staff /\ enabled' \subseteq Staff
  BY <1>1, <1>2 DEF RoleConsistent
<1>6. QED
  BY <1>1, <1>3, <1>4, <1>5, ReleasesOwn DEF RoleConsistent

LEMMA RoleStep == RoleConsistent /\ [RoleNext]_roleVars => RoleConsistent'
<1> SUFFICES ASSUME RoleConsistent, [RoleNext]_roleVars PROVE RoleConsistent'
  OBVIOUS
<1>1. CASE UNCHANGED roleVars
  BY <1>1 DEF roleVars, RoleConsistent, FormKnows, OnlyManager
<1>2. CASE RoleNext
  <2>1. PICK f \in Forms :
           \/ \E u \in Staff, chosen, active, ticked \in BOOLEAN :
                 Validate(f, u, chosen, active, ticked)
           \/ CheckAssignment(f) \/ SaveUser(f) \/ SetGroups(f)
           \/ CommitForm(f) \/ RollbackForm(f)
    BY <1>2 DEF RoleNext
  <2>2. CASE \E u \in Staff, chosen, active, ticked \in BOOLEAN :
                Validate(f, u, chosen, active, ticked)
    BY <2>2, FormGoesOn
  <2>3. CASE CheckAssignment(f) \/ SaveUser(f) \/ SetGroups(f)
    <3>1. form[f].user \in Staff
      BY <2>3 DEF CheckAssignment, SaveUser, SetGroups, At, RoleConsistent, FormKnows
    <3>2. QED
      BY <2>3, <3>1, FormGoesOn
  <2>4. QED
    BY <2>1, <2>2, <2>3, FormCommitted, FormRolledBack
<1>3. QED
  BY <1>1, <1>2

\* What forms, locks and the role know of each other, in every reachable state.
THEOREM RoleAlwaysConsistent == RoleSpec => []RoleConsistent
BY RoleInitConsistent, RoleStep, PTL DEF RoleSpec

\* The shop never has two managers (enforce_single_store_manager).
THEOREM OneManager == RoleSpec => []SingleManager
<1>1. ASSUME RoleConsistent PROVE SingleManager
  <2>1. CASE manager \ Owners = {}
    BY <2>1, FS_EmptySet DEF SingleManager
  <2>2. CASE manager \ Owners # {}
    <3>1. PICK u : u \in manager \ Owners
      BY <2>2
    <3>2. manager \ Owners = {u}
      BY <1>1, <3>1 DEF RoleConsistent
    <3>3. QED
      BY <3>2, FS_Singleton DEF SingleManager
  <2>3. QED
    BY <2>1, <2>2
<1>2. QED
  BY <1>1, RoleAlwaysConsistent, PTL

\* Nobody inactive is appointed, even by the save that deactivates the account.
THEOREM NobodyInactiveAppointed == RoleSpec => AppointedActive
<1>1. RoleConsistent /\ [RoleNext]_roleVars =>
        [\A u \in Staff : u \in manager' \ manager => u \in enabled']_roleVars
  <2> SUFFICES ASSUME RoleConsistent, RoleNext, NEW u \in Staff, u \in manager' \ manager
               PROVE  u \in enabled'
    OBVIOUS
  <2>1. PICK f \in Forms : CommitForm(f)
    BY DEF RoleNext, Validate, CheckAssignment, SaveUser, SetGroups, RollbackForm, At
  <2>2. u = form[f].user /\ form[f].chosen
    BY <2>1 DEF CommitForm
  <2>3. form[f].active
    BY <2>1, <2>2 DEF CommitForm, RoleConsistent, FormKnows
  <2>4. QED
    BY <2>1, <2>2, <2>3 DEF CommitForm
<1>2. QED
  BY <1>1, RoleAlwaysConsistent, PTL DEF RoleSpec, AppointedActive

\* A save leaves an account with role and panel or with neither.
THEOREM RolePanelTogether == RoleSpec => RoleAndPanelTogether
<1> DEFINE Together ==
       \A u \in Staff \ Owners :
          (u \in manager) # (u \in manager') \/ (u \in panel) # (u \in panel')
             => ((u \in manager') <=> (u \in panel'))
<1>1. RoleConsistent /\ [RoleNext]_roleVars => [Together]_roleVars
  <2> SUFFICES ASSUME RoleConsistent, RoleNext, NEW u \in Staff \ Owners,
                      (u \in manager) # (u \in manager') \/ (u \in panel) # (u \in panel')
               PROVE  (u \in manager') <=> (u \in panel')
    OBVIOUS
  <2>1. PICK f \in Forms : CommitForm(f)
    BY DEF RoleNext, Validate, CheckAssignment, SaveUser, SetGroups, RollbackForm, At
  <2>2. u = form[f].user
    BY <2>1 DEF CommitForm
  <2>3. form[f].staff = form[f].chosen
    BY <2>1, <2>2 DEF CommitForm, RoleConsistent, FormKnows
  <2>4. form[f].staff \in BOOLEAN /\ form[f].chosen \in BOOLEAN
    BY DEF RoleConsistent, FormStates
  <2>5. CASE form[f].chosen
    BY <2>1, <2>2, <2>3, <2>5 DEF CommitForm
  <2>6. CASE ~form[f].chosen
    BY <2>1, <2>2, <2>3, <2>6 DEF CommitForm
  <2>7. QED
    BY <2>5, <2>6
<1>2. QED
  BY <1>1, RoleAlwaysConsistent, PTL DEF RoleSpec, RoleAndPanelTogether
=============================================================================
