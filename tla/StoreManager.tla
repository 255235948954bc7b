----------------------------- MODULE StoreManager -----------------------------
(***************************************************************************)
(* The one store manager: the owner's user form (accounts/admin.py) and the *)
(* signal that guards the group's membership (accounts/signals.py).         *)
(*                                                                         *)
(* The admin saves a form in one transaction under READ COMMITTED: it       *)
(* validates against what is committed by then, writes the User row, which  *)
(* locks it, and sets the groups, where the signal locks the group's row.   *)
(* What it writes is seen by others when it commits.                        *)
(***************************************************************************)
EXTENDS Naturals, FiniteSets

CONSTANTS
    Staff,      \* the accounts the form is used on
    Owners,     \* those of them that are superusers
    Forms,      \* user forms that can be being saved at once
    NoForm,
    NoUser

ASSUME RoleConstants ==
    /\ Owners \subseteq Staff
    /\ NoForm \notin Forms /\ NoUser \notin Staff

VARIABLES
    manager,    \* members of the store-manager group
    panel,      \* User.is_staff
    enabled,    \* User.is_active
    groupLock,  \* the form that holds the group's row
    userLock,   \* the form that holds a user's row
    form        \* each form: the user, what was chosen, what it is at

roleVars == <<manager, panel, enabled, groupLock, userLock, form>>

IdleForm == [at |-> "idle", user |-> NoUser, chosen |-> FALSE, active |-> FALSE,
             staff |-> FALSE]

\* Accounts from before the role may have the panel without it.
RoleInit ==
    /\ manager = {}
    /\ panel \in SUBSET Staff /\ Owners \subseteq panel
    /\ enabled \in SUBSET Staff
    /\ groupLock = NoForm
    /\ userLock = [u \in Staff |-> NoForm]
    /\ form = [f \in Forms |-> IdleForm]

At(f, at) == form[f].at = at /\ UNCHANGED <<manager, panel, enabled>>
Moves(f, at) == form' = [form EXCEPT ![f].at = at]

-----------------------------------------------------------------------------
(* Is the user, or would the user be, the only manager? *)
OnlyManager(u) == manager \ Owners \subseteq {u}

\* Mutant of Validate: a user who was not manager keeps the ticked panel.
ValidateLoosely(f, u, chosen, active, ticked) ==
    /\ At(f, "idle")
    /\ \/ ~chosen /\ u \notin Owners /\ form' = [form EXCEPT ![f] =
             [at |-> "save", user |-> u, chosen |-> FALSE, active |-> active,
              staff |-> IF u \in manager THEN FALSE ELSE ticked]]
       \/ chosen /\ u \notin Owners /\ form' = [form EXCEPT ![f] =
             [at |-> IF u \in manager THEN "save" ELSE "check", user |-> u,
              chosen |-> TRUE, active |-> active, staff |-> TRUE]]
    /\ UNCHANGED <<groupLock, userLock>>

\* StoreOwnerUserChangeForm.clean, up to the lock: the choice decides about
\* the panel; without the role now or before it must not be ticked.  A manager
\* who stays one, and an owner, need no lock; a new one must be active now.
Validate(f, u, chosen, active, ticked) ==
    /\ At(f, "idle")
    /\ \/ /\ chosen /\ u \notin Owners /\ u \notin manager /\ u \in enabled
          /\ form' = [form EXCEPT ![f] = [at |-> "check", user |-> u,
                         chosen |-> TRUE, active |-> active, staff |-> TRUE]]
       \/ /\ chosen => u \in manager \ Owners
          /\ ticked => chosen \/ u \in manager \cup Owners
          /\ form' = [form EXCEPT ![f] = [at |-> "save", user |-> u,
                         chosen |-> chosen, active |-> active,
                         staff |-> IF u \in Owners THEN ticked ELSE chosen]]
    /\ UNCHANGED <<groupLock, userLock>>

\* ensure_store_manager_assignment_available: lock the group, look again.
CheckAssignment(f) ==
    /\ At(f, "check")
    /\ groupLock = NoForm
    /\ OnlyManager(form[f].user)
    /\ groupLock' = f
    /\ Moves(f, "save")
    /\ UNCHANGED userLock

\* user.save writes every column of the row and so locks it.
SaveUser(f) ==
    /\ At(f, "save")
    /\ userLock[form[f].user] = NoForm
    /\ userLock' = [userLock EXCEPT ![form[f].user] = f]
    /\ Moves(f, "groups")
    /\ UNCHANGED groupLock

\* Mutant of SetGroups: the signal is not asked about an addition.
SetGroupsUnasked(f) ==
    /\ At(f, "groups")
    /\ Moves(f, "commit")
    /\ UNCHANGED <<groupLock, userLock>>

\* groups.set asks the signal about an addition: it takes the group's lock,
\* unless the form has it, and looks once more, at the row just written too.
SetGroups(f) ==
    LET u == form[f].user IN
    /\ At(f, "groups")
    /\ IF form[f].chosen /\ u \notin manager
       THEN /\ groupLock \in {NoForm, f} /\ groupLock' = f
            /\ u \notin Owners /\ form[f].active /\ OnlyManager(u)
       ELSE UNCHANGED groupLock
    /\ Moves(f, "commit")
    /\ UNCHANGED userLock

Releases(f) ==
    /\ groupLock' = IF groupLock = f THEN NoForm ELSE groupLock
    /\ userLock' = [u \in Staff |-> IF userLock[u] = f THEN NoForm ELSE userLock[u]]
    /\ form' = [form EXCEPT ![f] = IdleForm]

CommitForm(f) ==
    LET u == form[f].user
        with(S, b) == IF b THEN S \cup {u} ELSE S \ {u} IN
    /\ form[f].at = "commit"
    /\ manager' = with(manager, form[f].chosen)
    /\ panel' = with(panel, form[f].staff)
    /\ enabled' = with(enabled, form[f].active)
    /\ Releases(f)

\* A validation error, in the form or out of the signal, or PostgreSQL ends a
\* deadlock: the transaction is rolled back.
RollbackForm(f) ==
    /\ form[f].at # "idle"
    /\ Releases(f)
    /\ UNCHANGED <<manager, panel, enabled>>

RoleNext == \E f \in Forms :
    \/ \E u \in Staff, chosen, active, ticked \in BOOLEAN :
          Validate(f, u, chosen, active, ticked)
    \/ CheckAssignment(f) \/ SaveUser(f) \/ SetGroups(f)
    \/ CommitForm(f) \/ RollbackForm(f)

RoleSpec == RoleInit /\ [][RoleNext]_roleVars

-----------------------------------------------------------------------------
(* Properties *)

\* The shop has one manager at most, however many forms are saved at once
\* (enforce_single_store_manager).
SingleManager == Cardinality(manager \ Owners) <= 1

\* Nobody is appointed who is inactive when the appointment takes effect, even
\* by a form that validated an active account and deactivates it in the same
\* save (accounts/tests.py test_inactive_users_cannot_be_assigned_as_store_manager).
AppointedActive ==
    [][\A u \in Staff : u \in manager' \ manager => u \in enabled']_roleVars

\* Role and panel access change together: a save leaves an account that is no
\* owner with both or with neither (accounts/tests.py,
\* test_revoking_manager_role_revokes_is_staff_in_owner_form).
RoleAndPanelTogether ==
    [][\A u \in Staff \ Owners :
          (u \in manager) # (u \in manager') \/ (u \in panel) # (u \in panel')
             => ((u \in manager') <=> (u \in panel'))]_roleVars

\* What a form knows: the row it has written is locked, and an appointment that
\* is about to commit holds the group's row and has found no other manager.
FormKnows(f) ==
    LET u == form[f].user IN
    /\ form[f].at # "idle" =>
          /\ u \in Staff
          /\ u \notin Owners => form[f].staff = form[f].chosen
    /\ form[f].at \in {"groups", "commit"} => userLock[u] = f
    /\ form[f].at = "commit" /\ form[f].chosen =>
          \/ u \in manager
          \/ /\ groupLock = f /\ u \notin Owners /\ form[f].active /\ OnlyManager(u)

FormStates == [at : {"idle", "check", "save", "groups", "commit"},
               user : Staff \cup {NoUser}, chosen : BOOLEAN, active : BOOLEAN,
               staff : BOOLEAN]

\* The inductive invariant of the role; SingleManager without counting.
RoleConsistent ==
    /\ manager \subseteq Staff /\ panel \subseteq Staff /\ enabled \subseteq Staff
    /\ groupLock \in Forms \cup {NoForm}
    /\ userLock \in [Staff -> Forms \cup {NoForm}]
    /\ form \in [Forms -> FormStates]
    /\ \A u, v \in manager \ Owners : u = v
    /\ \A f \in Forms : FormKnows(f)
=============================================================================
