------------------------------- MODULE Repair -------------------------------
(***************************************************************************)
(* The schema repair of the order items on SQLite                           *)
(* (orders/migrations/0007_repair_orderitem_product_schema.py): the table   *)
(* is rebuilt so that an item outlives its product.                         *)
(*                                                                         *)
(* Each statement is an action, and the process may die between any two.    *)
(* SQLite then forgets the open transaction; it takes the write lock with   *)
(* the first statement that writes, so that the server's own transactions,  *)
(* one action each, commit before it or after the migration's end.          *)
(* foreign_keys is a setting of the connection: it survives a rollback and  *)
(* cannot be changed inside a transaction.                                  *)
(***************************************************************************)
EXTENDS FiniteSets

CONSTANTS
    Items,          \* primary keys of order items
    Goods,          \* primary keys of products
    Null,           \* no product
    NoItem          \* no row

ASSUME RepairConstants == Null \notin Goods /\ NoItem \notin Goods /\ Null # NoItem

VARIABLES
    table,          \* orders_orderitem, as committed
    goods,          \* the products there are
    ordersKnown,    \* every item's order exists
    draft,          \* what the migration's transaction has made of the table
    step,           \* the statement the migration is at
    fkOn,           \* foreign_keys of the migration's connection
    fkWas,          \* what it was when the migration began
    applied         \* Django has recorded the migration

repairVars == <<table, goods, ordersKnown, draft, step, fkOn, fkWas, applied>>
serverVars == <<goods, ordersKnown>>

\* product_id of each row, and what the CREATE TABLE statement and the indexes say.
Table == [rows : [Items -> Goods \cup {Null, NoItem}],
          notNull : BOOLEAN, fk : BOOLEAN, indexed : BOOLEAN]
NoRows == [i \in Items |-> NoItem]
NewTable == [rows |-> NoRows, notNull |-> FALSE, fk |-> TRUE, indexed |-> FALSE]
NoDraft == [temp |-> NewTable, locked |-> FALSE]

Steps == {"idle", "off", "create", "copy", "check", "drop", "index", "commit",
          "undone", "committed", "return", "raise"}

\* An item without a product to point at.
Orphan(rows, i) == rows[i] \notin goods \cup {Null, NoItem}

\* A table as older versions left it: product_id required, or without its
\* foreign key (then with rows of deleted products), or both; or a sound one.
RepairInit ==
    /\ goods \in SUBSET Goods
    /\ table \in {t \in Table :
          /\ t.indexed
          /\ t.notNull => \A i \in Items : t.rows[i] # Null
          /\ t.fk => \A i \in Items : ~Orphan(t.rows, i)}
    /\ ordersKnown \in BOOLEAN
    /\ draft = NoDraft
    /\ step = "idle"
    /\ fkOn = TRUE /\ fkWas = TRUE
    /\ applied = FALSE

Repaired(t) == ~t.notNull /\ t.fk

-----------------------------------------------------------------------------
(* The migration *)

\* The schema is read.  Django's schema editor may have turned foreign_keys
\* off.  A repaired table is left alone.
Inspect ==
    /\ step = "idle" /\ ~applied
    /\ fkOn' \in BOOLEAN /\ fkWas' = fkOn'
    /\ step' = IF Repaired(table) THEN "return" ELSE "off"
    /\ UNCHANGED <<table, serverVars, draft, applied>>

\* The statement is not understood, or a temporary table is in the way.
RefuseTable ==
    /\ step = "off"
    /\ step' = "raise"
    /\ UNCHANGED <<table, serverVars, draft, fkOn, fkWas, applied>>

TurnOff ==
    /\ step = "off"
    /\ fkOn' = FALSE
    /\ step' = "create"
    /\ UNCHANGED <<table, serverVars, draft, fkWas, applied>>

\* BEGIN and CREATE TABLE, which takes the write lock.
CreateTemp ==
    /\ step = "create"
    /\ draft' = [temp |-> NewTable, locked |-> TRUE]
    /\ step' = "copy"
    /\ UNCHANGED <<table, serverVars, fkOn, fkWas, applied>>

\* Mutant of CopyRows: a join with the products instead of CASE WHEN EXISTS.
CopyJoined ==
    /\ step = "copy"
    /\ draft' = [draft EXCEPT !.temp.rows =
          [i \in Items |-> IF Orphan(table.rows, i) THEN NoItem ELSE table.rows[i]]]
    /\ step' = "check"
    /\ UNCHANGED <<table, serverVars, fkOn, fkWas, applied>>

\* INSERT ... SELECT: an orphan loses its product, and nothing else is lost.
CopyRows ==
    /\ step = "copy"
    /\ draft' = [draft EXCEPT !.temp.rows =
          [i \in Items |-> IF Orphan(table.rows, i) THEN Null ELSE table.rows[i]]]
    /\ step' = "check"
    /\ UNCHANGED <<table, serverVars, fkOn, fkWas, applied>>

\* foreign_key_check of the new table.
CheckTemp ==
    /\ step = "check"
    /\ ordersKnown /\ \A i \in Items : ~Orphan(draft.temp.rows, i)
    /\ step' = "drop"
    /\ UNCHANGED <<table, serverVars, draft, fkOn, fkWas, applied>>

\* Mutant of Replace: without a transaction each statement commits.
ReplaceAtOnce ==
    /\ step = "drop"
    /\ table' = draft.temp
    /\ step' = "index"
    /\ UNCHANGED <<serverVars, draft, fkOn, fkWas, applied>>

\* DROP TABLE and RENAME.
Replace ==
    /\ step = "drop"
    /\ step' = "index"
    /\ UNCHANGED <<table, serverVars, draft, fkOn, fkWas, applied>>

\* The indexes and triggers go with the old table and are made again.
MakeIndexes ==
    /\ step = "index"
    /\ draft' = [draft EXCEPT !.temp.indexed = TRUE]
    /\ step' = "commit"
    /\ UNCHANGED <<table, serverVars, fkOn, fkWas, applied>>

CommitRepair ==
    /\ step = "commit"
    /\ table' = draft.temp
    /\ draft' = NoDraft
    /\ step' = "committed"
    /\ UNCHANGED <<serverVars, fkOn, fkWas, applied>>

\* Any statement of the transaction fails, the check among them, or the COMMIT
\* because somebody is reading: ROLLBACK.
Undo ==
    /\ step \in {"create", "copy", "check", "drop", "index", "commit"}
    /\ draft' = NoDraft
    /\ step' = "undone"
    /\ UNCHANGED <<table, serverVars, fkOn, fkWas, applied>>

\* Mutant of Restore: after the COMMIT, and not in a finally clause.
RestoreCommitted ==
    /\ step \in {"undone", "committed"}
    /\ fkOn' = (fkOn \/ (fkWas /\ step = "committed"))
    /\ step' = IF step = "undone" THEN "raise" ELSE "return"
    /\ UNCHANGED <<table, serverVars, draft, fkWas, applied>>

\* finally: foreign_keys as it was.  An error is raised again; the checks after
\* a COMMIT find nothing to complain of, or raise all the same.
Restore ==
    /\ step \in {"undone", "committed"}
    /\ fkOn' = (fkOn \/ fkWas)
    /\ step' \in IF step = "undone" THEN {"raise"} ELSE {"return", "raise"}
    /\ UNCHANGED <<table, serverVars, draft, fkWas, applied>>

\* Django records the migration, or stops at its error.
Leave ==
    /\ step \in {"return", "raise"}
    /\ applied' = (step = "return")
    /\ step' = "idle"
    /\ UNCHANGED <<table, serverVars, draft, fkOn, fkWas>>

\* The process dies.  The next connection has foreign_keys on.
Crash ==
    /\ step # "idle"
    /\ draft' = NoDraft
    /\ step' = "idle"
    /\ fkOn' = TRUE /\ fkWas' = TRUE
    /\ UNCHANGED <<table, serverVars, applied>>

-----------------------------------------------------------------------------
(* The server, on connections of its own with foreign_keys on *)

\* create_order, or the deletion of an order.
WriteItem(i, p) ==
    /\ ~draft.locked
    /\ IF p = NoItem THEN table.rows[i] # NoItem
       ELSE table.rows[i] = NoItem /\ p \in goods
    /\ table' = [table EXCEPT !.rows[i] = p]
    /\ UNCHANGED <<serverVars, draft, step, fkOn, fkWas, applied>>

NewProduct(p) ==
    /\ ~draft.locked
    /\ p \notin goods
    \* AUTOINCREMENT: no row refers to the id of a new product.
    /\ \A i \in Items : table.rows[i] # p
    /\ goods' = goods \cup {p}
    /\ UNCHANGED <<table, ordersKnown, draft, step, fkOn, fkWas, applied>>

\* Django sets the product of its items to null, which an old table refuses.
RemoveProduct(p) ==
    /\ ~draft.locked
    /\ p \in goods
    /\ table.notNull => \A i \in Items : table.rows[i] # p
    /\ goods' = goods \ {p}
    /\ table' = [table EXCEPT !.rows =
          [i \in Items |-> IF table.rows[i] = p THEN Null ELSE table.rows[i]]]
    /\ UNCHANGED <<ordersKnown, draft, step, fkOn, fkWas, applied>>

Migration ==
    \/ Inspect \/ RefuseTable \/ TurnOff
    \/ CreateTemp \/ CopyRows \/ CheckTemp \/ Replace \/ MakeIndexes \/ CommitRepair
    \/ Undo \/ Restore \/ Leave \/ Crash

RepairNext ==
    \/ Migration
    \/ \E i \in Items, p \in Goods \cup {NoItem} : WriteItem(i, p)
    \/ \E p \in Goods : NewProduct(p) \/ RemoveProduct(p)

RepairSpec == RepairInit /\ [][RepairNext]_repairVars

-----------------------------------------------------------------------------
(* Properties *)

RepairTypeOK ==
    /\ table \in Table /\ draft \in [temp : Table, locked : BOOLEAN]
    /\ goods \subseteq Goods /\ step \in Steps
    /\ {ordersKnown, fkOn, fkWas, applied} \subseteq BOOLEAN

\* Whenever the process dies, the table has its indexes, a foreign key that
\* every row keeps, and a product wherever one is required; a migration that
\* counts as applied has repaired it.
RepairIsWhole ==
    /\ table.indexed
    /\ table.fk => \A i \in Items : ~Orphan(table.rows, i)
    /\ table.notNull => \A i \in Items : table.rows[i] # Null
    /\ applied => Repaired(table)

\* No statement, failure or crash of the migration loses an item of an order,
\* or a product that exists from one, orders placed meanwhile included.
HistoryKept ==
    [][step' # step =>
          \A i \in Items : \/ table'.rows[i] = table.rows[i]
                           \/ /\ Orphan(table.rows, i)
                              /\ table'.rows[i] = Null]_repairVars

\* However the migration ends, unless with its process, the connection enforces
\* foreign keys as it did before.
ForeignKeysBack == step \in {"idle", "return", "raise"} => fkOn = fkWas

-----------------------------------------------------------------------------
(* What makes the properties inductive *)

InTransaction == {"copy", "check", "drop", "index", "commit"}

Survivor(i) == IF Orphan(table.rows, i) THEN Null ELSE table.rows[i]

\* The transaction holds the write lock, and its copy is that of the table.
DraftIsCopy ==
    /\ draft.locked <=> step \in InTransaction
    /\ step \in InTransaction => draft.temp.fk /\ ~draft.temp.notNull
    /\ step \in InTransaction \ {"copy"} =>
          draft.temp.rows = [i \in Items |-> Survivor(i)]
    /\ step = "commit" => draft.temp.indexed

\* A repaired table stays repaired.
RepairStays == step \in {"committed", "return"} => Repaired(table)

\* foreign_keys is on at most if it was.
KeysOff ==
    /\ fkOn => fkWas
    /\ step \in {"idle", "off", "return", "raise"} => fkOn = fkWas

RepairConsistent ==
    RepairTypeOK /\ RepairIsWhole /\ DraftIsCopy /\ RepairStays /\ KeysOff
=============================================================================
