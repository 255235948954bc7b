# Py_ShopOnline: specifications, checks and proofs

TLA+ models of the shop's core logic, translated from the Python source under
`src/`; TLC model-checks them on small instances, and TLAPS proves the main
results (settlement, the conversation with the provider, the two back offices,
carts, row locks, prices, login, the manager's role, addresses, categories,
reviews, the schema repair) for every instance.
`PROJECT.json` maps every definition to the lines it models and lists the runs,
the hazards and the theorems.

## 1. The system

Py_ShopOnline is a Django shop on PostgreSQL. Web workers serve requests
concurrently; there is no background worker, no queue and no in-process shared
state. Everything that interacts does so through rows of the database (and
through the cache, itself a database table), by `select_for_update` inside
`transaction.atomic`, or without any lock. Requests are not atomic
(`ATOMIC_REQUESTS` is off): a view that calls two services is two transactions.

| Component | State it keeps | Operations | Models |
|---|---|---|---|
| Payment service (`orders/payment/services.py`, `orders/models/payment.py`, `orders/views/payment.py`) | one `Payment` row per order: status, gateway, transaction, amount | initiate (new, reuse, reset), callback (look up, verify, finalize), quarantine | `Payments`, `RowLocks`, amounts in `Pricing` |
| Gateways (`orders/payment/gateways.py`) | at the provider: transactions issued with their amounts, money received, confirmations given | initiate, verify | `Gateway`; as single steps in `Payments` |
| Order and stock reduction (`orders/models/`) | `Order.status`, `stock_reduced`, amounts | `reduce_item_stock`, `save` | `Payments`, `Pricing` |
| Order service (`orders/services.py`) | - | `create_order`, `transition_status`, totals | `Payments`, `Carts`, `Pricing` |
| Order back office (`orders/admin.py`) | - | status actions, the order form, shipping methods | `Payments`, `OrderDesk`, `Pricing` |
| Inventory (`catalog/services.py`, `catalog/models/`) | `Product.stock`, visibility, `InventoryMovement` ledger | adjustment, physical count, payment's movement | `Payments` |
| Product back office (`catalog/admin.py`) | price, visibility | edit, delete; the category and review admins | `Payments`, `Pricing`, `Categories`, `Reviews` |
| Carts (`cart/`) | carts (active, ordered), their rows and price snapshots | visit, add, change, save for later, move back, remove, merge at login, checkout | `Carts`, `Pricing`, `RowLocks` |
| Shipping methods (`orders/models/shipping.py`) | cost, free-shipping threshold | cost, edit | `Pricing` |
| Login (`accounts/services/otp.py`, `accounts/otp_views.py`) | code, attempts and cooldown in the cache; users, profiles | send a code, verify it, find or create the account, log in | `Login`, the merge in `Carts` |
| Store-manager role (`accounts/signals.py`, `accounts/admin.py`) | group membership, `is_staff`, `is_active` | the owner's user form, the membership signal | `StoreManager` |
| Cart back office (`cart/admin.py`) | the cart and rows a page has loaded | change and delete a cart with its inline rows, or one row | `CartDesk` |
| Addresses (`accounts/models/address.py`, `accounts/views.py`, `accounts/forms.py`) | address rows with one default per customer | create, edit, delete, the checkout's save, the admin's form and list | `Addresses` |
| Reviews (`catalog/services.py`, `catalog/views.py`, `catalog/admin.py`) | one review per customer and product, approved or not | write, edit; staff publish, edit, delete | `Reviews` |
| Categories (`catalog/models/category.py`, `catalog/admin.py`) | the tree of categories | the form's walk, save, delete | `Categories` |
| Order item repair (`orders/migrations/0007_...py`) | the table `orders_orderitem`, the connection's `foreign_keys` | rebuild the table on SQLite | `Repair` |
| Wishlist (`catalog/models/wishlist.py`) | a set of products per customer | toggle | not modelled, section 8 |

How they interact. A login merges the guest's cart into the user's. A checkout
turns the active cart into an order with a pending payment, having checked the
stock but reserving none. `initiate` asks a gateway for a transaction and sends
the customer there. The provider's callback arrives through the customer's
browser, at any time, any number of times; the service looks the payment up
without a lock, asks the provider outside any transaction, then locks order and
payment and decides. A success takes the goods of the whole order out of the
stock, with one ledger row per product, or none of them when a product is short,
deleted, or the order is cancelled: the money is recorded and the order is left
cancelled for a refund by hand. Staff cancel and advance orders, correct stock,
edit products and methods meanwhile.

What is hard in it, and what makes it correct:

- A verification uses a payment it read before the verification began. It must
  settle only the transaction it is about, once, and never undo a settlement
  (`SettlementIsFinal`, `OnlyCurrentSettles`, `FulfilmentBacked`).
- Nothing is reserved. Two paid orders compete for the last unit: goods leave
  whole, once, never below zero (`GoodsTakenOnce`, `TypeOK`), and nobody is
  charged a second time for a payment already recorded (`SettledNotPayable`,
  `NoSecondCharge`).
- Stock has four writers (payment, adjustment, count, product form). The ledger
  must explain it whatever their order (`LedgerExplainsStock`).
- The provider answers over a network. A transaction may be issued and the
  request die before it is saved, a verification answered and the answer lost,
  an amount recomputed in between: shop and provider must agree about every
  recorded transaction (`ProviderAgrees`), and none of it may show
  (`ImplementsPayments`).
- The order form writes a whole row loaded earlier (`OrderDesk`:
  `DrawnOnceForMoney`, `NeverFaked`, `NoSecondCharge`).
- A cart request finds the cart first and uses it later, when it may have been
  ordered or merged, and a staff page saves a cart it loaded before all that
  (`OrderedOnce`, `OrderedShowsItsOrder`, `OneActiveCart`); the merge reads
  products before it locks them (`CustomersGrowWithinStock`,
  `NothingLostAtLogin`).
- Two requests make two addresses the default at once, and an update races a
  deletion (`OneDefault`, `DefaultHandedOver`).
- A category form walks up a tree that other forms change (`CycleOnlyByRace`,
  `EveryWalkEnds`).
- A review is edited while staff publish the text they have read
  (`PublishedByStaff`; `EditAwaitsApproval` fails).
- A migration that Django runs outside a transaction may be killed at any
  statement (`RepairIsWhole`, `ForeignKeysBack`, `HistoryKept`).
- Prices and methods change between page and order, and amounts are rounded one
  by one (`PageIsKept`, `DriftsOneToman`).
- Every transaction takes several row locks, and pages of the back office take
  them in another order than the services (`DeadlocksExplained`,
  `EveryTransactionEnds`).
- The login runs outside any transaction, step by step (`OneAccountPerPhone`,
  `StoredCodeWasSent`, `VerifiedByCode`); two forms may appoint two managers
  (`SingleManager`).

`PROJECT.json` lists each of these hazards at its line.

## 2. The modules and the code

**Payments** is the core: orders, payments, stock, ledger, the provider's side
and the callback requests in flight. One action is one database transaction that
holds the locks of what it reads and writes. The callback is therefore several:

| Action | Code |
|---|---|
| `CreateOrder` | `OrderService.create_order`, the products locked |
| `InitiateNew`, `InitiateReuse`, `InitiateSettled` | the branches of `PaymentService.initiate` |
| `CustomerPays` | external: the customer at the provider |
| `ReceiveCallback` | the lookup at the top of `handle_callback`, no lock |
| `Verify`, `Recheck` | `gateway.verify_callback`, no transaction |
| `AlreadySettled`, `RecordFailure`, `Fulfil`, `RecordUnfulfilled`, `RejectStale` | the outcomes of the locked finalization, with `update_status_and_order` and `reduce_item_stock` |
| `Abandon` | a request that dies, an unreachable provider, a mismatch of amounts |
| `TransitionStatus`, `AdjustStock`, `PhysicalCount`, `SetActive`, `DeleteProduct` | the back office |

Amounts, notes, addresses and reference codes are left out. A failed gateway
request rolls `initiate` back and so changes nothing; `Gateway` shows it.

**OrderSettlement** is the abstract promise: each order has a phase (unplaced,
awaiting, fulfilled, cancelled, refund), goods leave the stock in one step, all
of them, for an awaiting order only, and a refund is the end. `Payments` defines
`Phase` as the refinement mapping and `ImplementsSettlement` as the property.

**Gateway** EXTENDS `Payments` with the conversation. What is one step there is
several here: `BeginPayment` opens the transaction of `initiate` and holds the
order's lock, `ProviderIssues` is the provider's answer, `CommitPayment` saves the
transaction code, and `RollBackPayment` is a lost request, a lost answer or the
death of the process, after which the provider may keep a transaction nobody
knows. `LookUp`, `AskProvider`, `BelieveRefusal` and `CheckSignature` are the
parts of a callback before its finalization; a provider that has confirmed
before answers code 101 (`Code`, `Confirms`). The money columns and the amount in
API units are kept. `ImplementsPayments` is the refinement: the variables of
`Payments` map to themselves.

**OrderDesk** adds the admin's order form to `Payments` in two actions: `LoadForm`
reads the row, `SaveForm` writes all of it back (`OrderAdmin` has no
`save_model`, `Order.save` writes every column). It is the one writer that
reaches the states for which the quarantine code of the payment service is
written. It does not preserve the invariants of `Payments`; the run `desk` checks
what the code keeps even so.

**Carts** has carts, rows, orders made of them, stock and visibility. A view's
request is two actions: `Visit` (`get_or_create_cart`) and the service call, which
locks and re-reads (`LockActiveCart`) except in `Remove`. The merge is `MergeLock`
(user, carts and rows locked, products read) and `MergeApply` (products locked,
rows written, the guest's cart deleted) or `MergeFails`, when `full_clean` refuses
and the login fails with it.

**CartDesk** EXTENDS `Carts` with the pages of the cart back office. A submission
reads in two queries, and customers may do anything between them: `LoadPage` is
`get_object`, of a cart or of one row; `LoadRest` is what is read later, the inline
rows of the cart, or the cart of the row (`obj.cart`), whose status then decides
what is read-only. `CleanPage` is `CartItem.clean` against the products as they are
then; `SaveCart` and `SaveRow` write whole rows as loaded, with the staff's changes;
then there are `DeleteCart`, `DeleteRow`, `DropPage`. A row's page that finds its
cart ordered can change nothing, but it saves the row as it had read it before.
`since` in a page and `overtaken` are history: the cart's status at the first query,
and the carts that a page wrote to which was begun before their order.

**Addresses** has every writer of an address. `Address.save` is its statements:
`LockUser`, `ClearOthers`, `WriteRow`; a request reads its row before (`SubmitForm`,
`SubmitCheckout`, `SubmitAdminForm`, `SubmitAdminList`) and may be rolled back
after. The unique constraint on the default is left out of the model, so that
`OneDefault` says no save ever runs into it. The customer's forms take a province
and a city of it; staff type both as free text (`AdminPlaces`), and so any pair of
them may be in a row.

**Categories** has the tree and the form's walk, one query a step (`Climb`), with
`SaveCategory` and `DeleteCategory` of others in between. **Reviews** has the rows
and the staff pages: opened, submitted over the rows as they are then, written
back whole. **Repair** has the migration statement by statement, with failures,
the death of the process between any two, and the server's transactions beside it.

**Pricing** has one cart, its order and one shipping method in amounts counted in
parts of a toman: cart prices keep two decimals, an order's columns none, and
`Rounded` is what the column stores. A variant's price adjustment has either sign
and old prices are not validated, so a unit price may be below zero.

**RowLocks** has for each kind of transaction the list of row locks in the order
the code takes them, key-share locks of foreign keys at commit included:
`ServiceLocks` for customers, callbacks and the back office's services,
`PageLocks` for the pages of the admin site, whose saves and cascading deletions
lock in Django's order. `AgainstOrder` names the pages whose order is not the
services': the deletion of a cart (its rows before the cart), of an order, of a
product (cart rows and order lines before the product), the save of a cart row that
has gone, a product form that relates two products, and address pages over two
customers. A transaction in `Signed` ends with the row of the user it is recorded
for. The module justifies what `Payments` and `Carts` assume, that a locked
transaction is one step, and asks about deadlock and progress.

**Login** has the three cache keys, users and profiles. Each cache access and
each row write is an action, because nothing there runs in a transaction.
`DeleteUser` dooms the requests that hold the row, because a later user of the
same name is another row.

**StoreManager** has the user form as one transaction in its steps: validation
against committed rows, the group's lock when the user is a new manager, the
write of the user's row, the group change with the signal's own checks, commit.

MC modules (`MCPayments`, ...) give constants their values and name symmetries.
`MCShop` (login, role, prices), `MCRecords` (addresses, categories, reviews, row
locks, repair) and `MCLive` (row locks, categories) explore in one run modules
that share no variable: a variable `part`, chosen at the start, says which of
them moves, and the others keep an initial state. `MCCarts` has two parts in the
same way: the customers alone with more requests, and fewer of them beside a page
of the back office.

Definitions whose comment says "Mutant of D" replace D in a check that the
property depends on the code; no specification uses them.

## 3. The runs

| Run | Question | Bounds | Distinct states |
|---|---|---|---|
| `settlement` | invariants of settlement, its life cycle, refinement of `OrderSettlement` | 2 orders for the same product p (2 units) and one of them also for q (none), 2 transactions, 1 gateway, 2 callbacks at once, 1 operator movement per product | about 523 000 |
| `gateway` | do shop and provider agree, retries and lost answers included? does it implement `Payments`? | 1 order, 2 transactions, ZarinPal and the mock gateway, 2 callbacks, amounts 0 to 2, 10 API units in a toman | about 96 000 |
| `desk` | what survives the order form's stale write? | 2 orders, 2 transactions, 2 workers that serve a callback or the form | about 173 000 |
| `desk_readonly` | does the form keep its read-only fields? It does not | as `desk` | violated |
| `carts` | one active cart, one order per cart, nothing lost or overdrawn, under requests in flight and stale staff pages | 3 carts, a user and a guest, 2 variants of a product with up to 1 unit, 2 requests; and 2 carts, 1 variant, 0 or 2 units, 1 request beside 1 staff page; rows of up to 2 | about 297 000 |
| `carts_ordered` | does an ordered cart keep its rows, among customers? It does not | as `carts`, customers alone | violated |
| `carts_reopened` | does a staff page make an ordered cart active again? It does | as `carts` | violated |
| `pricing_snapshot` | is an order charged by its snapshots? It is not | as the prices of `shop` | violated |
| `shop` | the login, the role, the prices | 1 phone with both usernames, 2 codes, 2 login requests; 2 accounts and an owner, 2 forms at once; prices 1, 1.5 and 2.5 tomans (a toman in 2 parts), old prices of −0.5, 1.5 and 2.5, a variant 2 tomans cheaper, shipping 0, 1 or 4 | about 820 000 |
| `records` | addresses, categories, reviews, row locks, the repair | 2 customers, 3 addresses, 2 tabs, a city outside its province typed by staff; 3 categories, 2 forms; a customer's review with 2 texts, 2 staff pages; 2 transactions over an order, 2 products and the carts of a customer, a staff member who shops and a guest; 3 order items, 2 products | about 212 000 |
| `reviews_stale` | does an edited review wait for approval? It does not | 2 reviews, 2 staff pages | violated |
| `live` | does every transaction end, every walk up the tree? | 2 transactions at once as in `records`; 2 categories, 2 forms | about 62 000 |

Why these bounds are enough to be interesting. Competition for stock needs two
orders and a product with fewer units than they need together; partial fulfilment
needs an order of two products of which one is short; a stale verification needs a
second transaction of the same order, and a duplicate needs a second worker. An
orphan at the provider needs one transaction more than the payment records; a
changed amount needs two. A merge exceeds the stock when the two rows of a product
together do, here two rows over one unit; a stale page needs one request and one
page, which reads in two queries. Two defaults need two tabs of one customer and a
third row to hand the flag to. A cycle by a race needs two forms, an overtaken
walk of more than one step three categories. A review that changes under a page
needs two texts; a second customer's rows are independent. A deadlock between two
ways of ordering products needs two products, one between a cart and its rows, or
a product and its rows, two transactions; longer circles are left to the proof. A
rounding error needs halves of a toman, a sum below zero a variant that takes off
more than the price. An item of the repair keeps its product, loses it, or is an
orphan: three items. Stock, prices and quantities are data the code only compares
and adds, and `MaxStock` (2147483647 in the code) is a parameter that the proofs
leave open.

`CHECK_DEADLOCK FALSE` stands in the runs of `Payments`, `Gateway`, `OrderDesk`
and `Carts`, where transaction ids, ledger rows and carts are bounded, so that a
system in which every order is done may stop. In the others TLC checks deadlock.

Symmetry is used over workers, transactions, carts, codes, forms, accounts,
customers and categories, never together with a liveness property.

### What the violated runs show

- `desk_readonly`: `orders/tests.py:1651` and `1653` assert that `status` and
  `stock_reduced` are read-only in the order form. They cannot be typed in, but
  the save writes the values loaded before. In the trace the customer pays, the
  provider confirms, a form loads the order, still pending, the callback fulfils it
  and commits, and the form is saved: the paid order reads pending, its goods not
  taken. `FormKeepsReadonly` asks for that much: a form that writes over what a
  callback has committed. The run `desk` shows the payment service contains the
  damage (nobody is charged again, goods leave once), by quarantine. The stale
  write of `admin_note` is not modelled.
- `carts_ordered`: `ARCHITECTURE_LOCK.md:14` says an ordered cart's rows are not
  deleted; `remove_cart_item` and `remove_product_from_cart` neither lock the cart
  nor look at its status.
- `carts_reopened`: `orders/tests.py:2712` asserts that `status` is read-only for an
  ordered cart in the cart form. The form saves the whole row as loaded. In the
  trace a page reads an active cart, the customer orders it, the page reads the rows,
  is validated and saved with the old status: the ordered cart is active again, to be
  ordered a second time. The deletion of an ordered cart by such a page is
  another matter and does not violate `OrderedNotReopened`. `OrderedOnce` and
  `OrderedShowsItsOrder` say how far this goes: both hold of every cart that was not
  overtaken. A row's page is excused in the same way: begun before the order, it may
  write a stale quantity over the ordered row, even when it has found the cart ordered
  in its second query, because read-only fields are saved with the rest.
- `reviews_stale`: `catalog/views.py:88` tells the customer that an edited review
  is shown after approval. The review list of the admin site applies the approval
  of an older page (`list_editable`) to the new text. `PublishedByStaff` is what
  remains: a staff request had that text in hand, though perhaps nobody saw it.
- `pricing_snapshot`: `ARCHITECTURE_LOCK.md:11` makes the row's price snapshot the
  authority for order creation. `calculate_order_totals` subtracts the discount
  (old price minus snapshot) from a subtotal that is already a sum of snapshots,
  so an order of a product with an old price is charged less than the checkout
  page said: in the trace a product of 2 tomans with an old price of 3 is charged 1.
  It is why `PageIsKept` says "not more than". That in turn needs rows worth
  nothing or more: an order is never charged less than nothing, while the page shows
  a negative sum as it is.

## 4. Fairness

`RowLocks` states fairness for `EveryTransactionEnds`: weak fairness of
`Commit`, as a transaction with its locks does a bounded amount of work; strong
fairness of `Acquire`, as PostgreSQL queues the waiters of a row, so that a
transaction whose lock is free again and again gets it; weak fairness of `Break`,
PostgreSQL's deadlock detector. `Categories` states it for `EveryWalkEnds`: weak
fairness of `Climb` or `Refuse`, as a request that has a row in hand goes on to
the next query; nothing is assumed of the forms' saves or deletions, which may go
on for ever between its steps. Nothing is assumed of `Begin`, `GiveUp`, customers
or providers. No liveness is claimed of settlement: a callback may never arrive,
and the code has no job that asks the provider again.

## 5. What is proved

Every theorem holds for any sets of orders, products, transactions, customers,
rows and requests and any values of the other constants, from the named
assumptions on constants alone (`SettlementConstants`, `GatewayConstants`,
`CartConstants`, `LockConstants`, `NoneIsNoJob`, `PricingConstants`,
`AddressConstants`, `LoginConstants`, `RoleConstants`, `CategoryConstants`,
`ReviewConstants`, `RepairConstants`). Three of these say that a set is finite,
because the code adds up or sorts over it: the items (`Carts`, `Pricing`), and the
workers, products, order lines and cart rows of `RowLocks`. Each proof has one
lemma per action and combines them by an inductive invariant.

| Module | Theorem | Property |
|---|---|---|
| `Payments_proofs` | `AlwaysConsistent` | `Consistent` holds always |
| | `TypeCorrect` | `TypeOK`; stock stays in `0..MaxStock` |
| | `PaidOrdersAreBacked` | `FulfilmentBacked` |
| | `NeverChargedAgain` | `SettledNotPayable` |
| | `GoodsAreTakenOnce` | `GoodsTakenOnce` |
| | `LedgerIsComplete` | `LedgerExplainsStock` |
| | `StockConserved` | `StockIsConserved`: stock, units sold and operators' movements balance |
| | `NeverOversold` | `NothingOversold` |
| | `SettlementFinal` | `SettlementIsFinal` |
| | `CurrentSettles` | `OnlyCurrentSettles` |
| | `LiveTransactionReused` | `LiveTransactionKept` |
| | `OrdersKeepTheirLifeCycle` | `StatusLifeCycle` |
| | `SettlementImplemented` | `ImplementsSettlement`: `Payments` implements `OrderSettlement` |
| `Settlement_proofs` | `GatewayAlwaysConsistent` | `Consistent` and `GatewayConsistent` hold always |
| | `ProviderAlwaysAgrees` | `ProviderAgrees` |
| | `GatewayImplementsPayments` | `ImplementsPayments`: `Gateway` implements `Payments` |
| | `DeskAlwaysConsistent` | `DeskConsistent` holds always |
| | `GoodsDrawnOnce` | `DrawnOnceForMoney` |
| | `FulfilmentNeverFaked` | `NeverFaked` |
| | `NeverSentAgain` | `NoSecondCharge` |
| `Carts_proofs` | `CartDeskAlwaysConsistent` | `CartDeskConsistent` holds always |
| | `CartsOrderedOnce` | `OrderedOnce` |
| | `OrderedCartsShowTheirOrder` | `OrderedShowsItsOrder` |
| | `AtMostOneActiveCart` | `OneActiveCart` |
| | `LoginLosesNothing` | `NothingLostAtLogin` |
| | `CartsGrowWithinStock` | `CustomersGrowWithinStock` |
| | `CustomersOrderOnce` | `OneOrderPerCart`, of `Carts` alone |
| | `OrderedCartsKeepTheirRows` | `OrderedCartGainsNothing`, of `Carts` alone |
| `Accounts_proofs` | `AddressesAlwaysConsistent` | `AddressesConsistent` holds always |
| | `AtMostOneDefault` | `OneDefault` |
| | `DefaultIsHandedOver` | `DefaultHandedOver` |
| | `LoginAlwaysConsistent` | `LoginConsistent` holds always |
| | `LoginTypeCorrect` | `LoginTypeOK` |
| | `StoredCodesWereSent` | `StoredCodeWasSent` |
| | `CodesVerify` | `VerifiedByCode` |
| | `PhonesHaveOneAccount` | `OneAccountPerPhone` |
| | `RoleAlwaysConsistent` | `RoleConsistent` holds always |
| | `OneManager` | `SingleManager` |
| | `NobodyInactiveAppointed` | `AppointedActive` |
| | `RolePanelTogether` | `RoleAndPanelTogether` |
| `Records_proofs` | `CategoriesAlwaysConsistent` | `CategoriesConsistent` holds always |
| | `CyclesComeOfRaces` | `CycleOnlyByRace` |
| | `TextsPublishedByStaff` | `PublishedByStaff` |
| | `RepairAlwaysConsistent` | `RepairConsistent` holds always |
| | `RepairAlwaysWhole` | `RepairIsWhole` |
| | `ForeignKeysRestored` | `ForeignKeysBack` |
| | `HistoryAlwaysKept` | `HistoryKept` |
| `RowLocks_proofs` | `LocksTyped` | `TypeOK` of `RowLocks` |
| | `LocksExcluded` | `LocksExclude` |
| | `OneLockOrder` | `DeadlocksExplained` |
| `Pricing_proofs` | `AmountsTyped` | `PricingTypeOK`: whatever sign adjustments and old prices have, an order's amounts are whole tomans, and all but its subtotal never negative |
| | `AmountsStayTogether` | `DriftsOneToman` |
| | `PageAlwaysKept` | `PageIsKept` |
| | `SnapshotsChargedUnlessReduced` | what `SnapshotIsAuthority` says holds of carts without reduced products |

**Settlement.** `Consistent` is the type invariant, the four invariants of the
run, `TransactionsNotShared` and `HandlerKnows`. None of the four is inductive
alone. `FulfilmentBacked` needs to know that a request about to finalize a
positive answer holds a transaction that was issued for its order and paid
(`HandlerKnows`), which needs that a lookup by transaction finds the order it was
issued for (`TransactionsNotShared`). `GoodsTakenOnce` needs that an order about
to be fulfilled has no ledger row yet, which it says itself, and that
`stock_reduced` and the status agree (`FulfilmentBacked`). The refinement proof
shows for each action that it maps to a step of `OrderSettlement` or to a stutter,
using `Consistent` in the state before.

`StockIsConserved` and `NothingOversold`, in `Payments_proofs`, are stated by no run:
they add up what the invariants say of single rows and orders. The rows of a
product lead from its first stock to its stock (`LedgerExplainsStock`), so their
quantities add up to the difference (`Telescope`). The rows without an order are the
operators'; each other one is the one row of a sold order, with its quantity
(`GoodsTakenOnce`), so these add up to what was sold (`SumSplit`, `SumOpposite`).
Orders need not be finitely many for this: those sold are, as each has a row of its
own. `DeskConsistent` does not say as much of the flag, so both are of settlement
without the admin's order form.

**The provider.** `GatewayConsistent` says what an open initiation holds, what a
callback has read, and that every issued transaction has a session. It shows that
each step of the conversation is a step of `Payments` or leaves its variables
alone, which carries `Consistent` over, and with it every theorem about `Payments`.

**The order desk.** A stale form breaks `Consistent`: flag, status and payment no
longer agree. `DeskConsistent` does without that agreement. It says of each order
that its goods are either untouched or taken once with the payment recorded, and
of each form that a fulfilled status it holds is one whose goods had been taken
when it was loaded; goods are never put back, so it is still true when it is
written.

**Carts.** `CartsConsistent` adds to one active cart per owner what a merge knows
between its halves (`MergesKnow`): both carts are still active and their owners'.
Beside the back office, `CartDeskConsistent` adds what a page knows whose first
query came after the order (`PagesKnow`): it finds the cart ordered in its second
query too, and the rows it has read, in either, are in the order with the quantities
ordered. So it writes back nothing else, and a page that changes more must have
been begun before the order, which is what `overtaken` records.

How much of a product a cart holds is a sum over its variants. A call that writes
one row adds its quantity to `OtherUnits`, which the code has compared with the
stock. A merge serves the rows of a product in some order, each no more than what
the demands of those before it leave (`Allocated`); of the rows that end up active
take the one served last: the others together hold no more than the demands served
before it, and it holds no more than what those leave (`ServedInTurn`). So the
sum is within the stock, whatever the order.

**Login and role.** `LoginConsistent` adds what each request knows
(`RequestKnows`: a code about to be stored was sent, an account being handled
exists and its phone was proved) and that a phone is held by one profile, to whose
account all its sessions belong (`PhoneHeldOnce`). `RoleConsistent` adds what a
form knows (`FormKnows`): an appointment about to commit holds the group's row and
has seen no other manager, and no commit in between can have changed that, because
every other appointment needs the same row and a form for the same user the
user's.

**Addresses, categories, reviews, repair.** `AddressesConsistent` adds what a save
under the user's lock has cleared: all the customer's other defaults. For
categories, an undisturbed walk has seen every row above the chosen parent and the
edited category is not among them, so a cycle through the new edge would have
left one before. For the repair, a migration in its transaction holds the write
lock, and its copy equals the table with the orphans nulled.

**Row locks.** `LocksExclude` is inductive with the type invariant, which says
that a transaction's locks are those of a prefix of its program. For deadlock each
row gets a rank: order, payment, order line, user, cart (a customer's before a
guest's), addresses, cart row (a guest's before a customer's), product, group, by id
among lines, rows and products. The locks of every transaction but those of
`AgainstOrder` climb the ranks (`OrderlyWork`), with one exception: an addition to a
cart locks the product before its row; but the transactions that lock that row in the
services hold its cart, so it waits there for none that waits for it
(`AddIsNotBlockedOnItsRow`). After its work a signed transaction asks for a share of
its user's row, out of rank. Suppose a circle that `DeadlocksExplained` does not
allow: no transaction in it is of `AgainstOrder` or waits for its user. Each waits for
a row of its work that another has locked, and that one wants a row of higher rank
(`BlockerWantsAbove`). Among finitely many, one wants the highest
(`GreatestWanted`), a contradiction.

**Prices.** `DriftsOneToman` is inductive once an order exists; what an order
starts with is the arithmetic of rounding, half a toman away from zero on both
sides. Three roundings of half a toman each move the sum by less than two tomans,
and as both sides are whole tomans, by one at most (`RoundingTheSum`,
`WholeSteps`). `PageIsKept` needs that a page which still stands shows what rows
and method come to (`PageStands`), that a discount is never negative
(`CartAmounts`: whatever staff enter, an old price counts only above the
snapshot), and that rounding is monotone and leaves a whole shipping cost alone
(`RoundedMonotone`, `RoundedBeside`). The last theorem tells how far the
disagreement of `pricing_snapshot` goes: it needs a row whose old price is above
its snapshot.

**Finite sets and sums.** The library's rules of induction take an operator, which
the provers cannot instantiate. `FiniteData` states induction over the subsets of
a finite set about a set instead, the set of subsets for which the claim holds,
and derives it from the well-founded order of strict subsets. From it follow that
a sum over a finite set (`SumFunctionOnSet`, defined by a recursion on `CHOOSE`)
exists, is unique and does not depend on the order in which elements are taken
(`SumTakeOut`), that it is monotone in the numbers and in the set, that it is the
sum of its parts (`SumSplit`), that the steps of a walk add up to its length
(`Telescope`), and that finitely many numbers have a greatest one.

## 6. What is only model-checked

The two liveness properties, `EveryTransactionEnds` and `EveryWalkEnds`: fairness
and `ENABLED` are beyond the prover. Every invariant and every action property of
a run is proved as well. What the violated runs show is a finding of TLC.

## 7. Abstractions and assumptions

- PostgreSQL's READ COMMITTED, row locks and unique constraints are taken as
  documented. A constraint that refuses a write is a guard: the request fails,
  which is an action of its own or leaves the state alone.
- A transaction that dies is rolled back whole and appears as no step, or as the
  action that ends the request (`Abandon`, `EndRequest`, `MergeFails`, `GiveUp`,
  `LoginFails`, `RollbackForm`).
- The provider confirms what it knows: a verification is positive only for money
  it has (`charged`). A refund is made by hand outside the system.
- The recency that decides between two rows in a merge, and the order in which
  rows of one product share the stock, are chosen freely.
- Cache timeouts happen at any time; their lengths are left out.
- In `StoreManager` accounts have no other groups or permissions, and who is a
  superuser does not change.
- `Gateway`: the currency setting does not change between an initiation and its
  verification; reference codes and stored responses are left out.
- `Carts`: a merge or an addition that would make a row exceed `MaxQty` is not
  explored. An active row never gets beyond the stock, which `MaxQty` covers in the
  runs; rows saved for later have no limit in the code.
- `CartDesk`: a row that was removed and added again is not told from the one
  loaded; a page that brings a merged cart back does so without changed rows; a
  cart is overtaken once (a bound in `LoadPage`); a page of several rows is one
  form.
- `Categories`, `Reviews`, `Addresses`: the id of a deleted row that no request
  remembers may be given out again, which keeps the sets of ids small.
- `RowLocks`: every UPDATE counts as an update lock, although PostgreSQL lets
  the share lock of a foreign key stand beside an UPDATE that leaves the key alone:
  the model blocks more than the database does. A customer's addresses are one row.
  Variants, categories, shipping methods, wishlists, sessions and review rows, and
  the bulk deletion of several carts, are left out; a user with a profile cannot be
  deleted. Which rows a cart or an order has does not change.
- `StoreManager`: the password pages inherited from Django, which save the whole row
  of a user, are left out, and so is a stale role they write back.
- `Pricing`: what a page says is forgotten when rows or method change, so that
  `PageIsKept` is about prices and not about a method edited under the page.
- `Repair`: the text of the statements and SQLite's row of the next id are left out.

## 8. Not modelled, and the plan

Done, in this order: `Payments` with `OrderSettlement` and the proofs; `OrderDesk`;
`Carts`; `RowLocks`; `Pricing`; `Login` and `StoreManager`; `Gateway`; `Addresses`;
`Categories` and `Reviews`; `Repair`; `CartDesk`; the proofs of the table above,
those of `RowLocks`, `Pricing`, the sums over carts and the balance of stock last.

Left of the plan: the wishlist (a set toggled by its owner under a unique
constraint); abstract specifications of the carts and of the login, with proofs
that they are implemented.

Left out: product variants, images and specifications in the admin site (edited by
staff, read by the rest); the check of the manager group's permissions at
migration, and the refusals for accounts that have other permissions; receipts,
confirmation and dashboard pages (read-only); the unrouted
`orders/views/checkout.py`; settings, templates, sitemaps and seed data, and the
presentation code of the admin site.

One hazard has no property: a verification that read the count of misses before a
new code was sent writes it after the new code's counter was reset, so that the new
code starts with misses of the old one (`accounts/services/otp.py:272`). The model
has the behaviour; the code promises nothing to the contrary.
