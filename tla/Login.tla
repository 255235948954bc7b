-------------------------------- MODULE Login --------------------------------
(***************************************************************************)
(* The login by one-time code: accounts/services/otp.py, the two views of   *)
(* accounts/otp_views.py, and the profile the signal of accounts/signals.py *)
(* gives a new user.                                                        *)
(*                                                                         *)
(* Nothing here runs in a transaction: every read or write of the cache and *)
(* every write of a row is an action, and requests interleave between them. *)
(* The cache forgets a key whenever its timeout has passed.  Texts, the     *)
(* digits of codes and numbers, hashing and redirects are left out; what    *)
(* the login does to carts is in module Carts.                              *)
(***************************************************************************)
EXTENDS Integers, FiniteSets

CONSTANTS
    Phones,
    Codes,
    Requests,    \* web workers that can be serving a login view at once
    MaxAttempts, \* SMSIRService.MAX_VERIFY_ATTEMPTS
    NoCode,
    NoPhone

ASSUME LoginConstants ==
    /\ MaxAttempts \in Nat \ {0}
    /\ NoCode \notin Codes /\ NoPhone \notin Phones

\* Two usernames make a phone's account: the number, and "user_" and the number.
Kinds == {"plain", "legacy"}

VARIABLES
    code,       \* otp_code: the code in the cache, NoCode without the key
    attempts,   \* otp_attempts: the count in the cache, 0 without the key
    cooldown,   \* otp_cooldown: is the key in the cache?
    account,    \* the User rows: "none", "active" or "inactive"
    profile,    \* the Profile rows: "none"; "blank" without a phone; "holds"
                \* the phone; "verified" holds it and is_verified
    login,      \* what each request is at, and what it has read so far
    sent,       \* history: the codes that an SMS took to a phone
    proved,     \* history: the phones whose code has been entered
    sessions    \* history: the accounts a phone has logged in to

cacheVars == <<code, attempts, cooldown>>
rowVars == <<account, profile>>
loginVars == <<code, attempts, cooldown, account, profile, login, sent, proved, sessions>>

IdleLogin == [at |-> "idle", phone |-> NoPhone, code |-> NoCode, seen |-> 0,
              kind |-> "plain", active |-> TRUE]

LoginInit ==
    /\ code = [p \in Phones |-> NoCode]
    /\ attempts = [p \in Phones |-> 0]
    /\ cooldown = [p \in Phones |-> FALSE]
    /\ account = [p \in Phones |-> [k \in Kinds |-> "none"]]
    /\ profile = [p \in Phones |-> [k \in Kinds |-> "none"]]
    /\ login = [r \in Requests |-> IdleLogin]
    /\ sent = [p \in Phones |-> {}]
    /\ proved = {}
    /\ sessions = [p \in Phones |-> {}]

Goes(r, at) == login' = [login EXCEPT ![r].at = at]
Ends(r) == login' = [login EXCEPT ![r] = IdleLogin]

-----------------------------------------------------------------------------
(* send_otp_view and send_otp *)

\* The cooldown is over and a code is drawn.
RequestCode(r, p, c) ==
    /\ login[r].at = "idle"
    /\ ~cooldown[p]
    /\ login' = [login EXCEPT ![r] = [IdleLogin EXCEPT !.at = "sms", !.phone = p, !.code = c]]
    /\ UNCHANGED <<cacheVars, rowVars, sent, proved, sessions>>

SmsSent(r) ==
    LET p == login[r].phone IN
    /\ login[r].at = "sms"
    /\ sent' = [sent EXCEPT ![p] = @ \cup {login[r].code}]
    /\ Goes(r, "store")
    /\ UNCHANGED <<cacheVars, rowVars, proved, sessions>>

\* Mutant of SmsFails: the result of the SMS is not looked at.
SmsIgnored(r) ==
    /\ login[r].at = "sms"
    /\ Goes(r, "store")
    /\ UNCHANGED <<cacheVars, rowVars, sent, proved, sessions>>

\* The provider refuses or does not answer in time; the SMS may go out even so.
SmsFails(r) ==
    LET p == login[r].phone IN
    /\ login[r].at = "sms"
    /\ sent' \in {sent, [sent EXCEPT ![p] = @ \cup {login[r].code}]}
    /\ Ends(r)
    /\ UNCHANGED <<cacheVars, rowVars, proved, sessions>>

StoreCode(r) ==
    /\ login[r].at = "store"
    /\ code' = [code EXCEPT ![login[r].phone] = login[r].code]
    /\ Goes(r, "cool")
    /\ UNCHANGED <<attempts, cooldown, rowVars, sent, proved, sessions>>

StoreCooldown(r) ==
    /\ login[r].at = "cool"
    /\ cooldown' = [cooldown EXCEPT ![login[r].phone] = TRUE]
    /\ Goes(r, "reset")
    /\ UNCHANGED <<code, attempts, rowVars, sent, proved, sessions>>

ResetAttempts(r) ==
    /\ login[r].at = "reset"
    /\ attempts' = [attempts EXCEPT ![login[r].phone] = 0]
    /\ Ends(r)
    /\ UNCHANGED <<code, cooldown, rowVars, sent, proved, sessions>>

-----------------------------------------------------------------------------
(* verify_otp *)

\* A code is entered and the counter read; too many misses refuse it.
EnterCode(r, p, c) ==
    /\ login[r].at = "idle"
    /\ attempts[p] < MaxAttempts
    /\ login' = [login EXCEPT ![r] = [IdleLogin EXCEPT
                    !.at = "entered", !.phone = p, !.code = c, !.seen = attempts[p]]]
    /\ UNCHANGED <<cacheVars, rowVars, sent, proved, sessions>>

Compare(r) ==
    LET stored == code[login[r].phone] IN
    /\ login[r].at = "entered"
    /\ \/ stored = NoCode /\ Ends(r)
       \/ stored # NoCode /\ stored # login[r].code /\ Goes(r, "miss")
       \/ stored # NoCode /\ stored = login[r].code /\ Goes(r, "hit")
    /\ UNCHANGED <<cacheVars, rowVars, sent, proved, sessions>>

\* Mutant of CountMiss: the counter is incremented after another look at it.
CountAgain(r) ==
    /\ login[r].at = "miss"
    /\ attempts' = [attempts EXCEPT ![login[r].phone] = @ + 1]
    /\ Ends(r)
    /\ UNCHANGED <<code, cooldown, rowVars, sent, proved, sessions>>

\* The count that was read, and one: not the count there is by now.
CountMiss(r) ==
    /\ login[r].at = "miss"
    /\ attempts' = [attempts EXCEPT ![login[r].phone] = login[r].seen + 1]
    /\ Ends(r)
    /\ UNCHANGED <<code, cooldown, rowVars, sent, proved, sessions>>

ConsumeCode(r) ==
    /\ login[r].at = "hit"
    /\ code' = [code EXCEPT ![login[r].phone] = NoCode]
    /\ proved' = proved \cup {login[r].phone}
    /\ Goes(r, "clear")
    /\ UNCHANGED <<attempts, cooldown, rowVars, sent, sessions>>

ClearAttempts(r) ==
    /\ login[r].at = "clear"
    /\ attempts' = [attempts EXCEPT ![login[r].phone] = 0]
    /\ Goes(r, "find")
    /\ UNCHANGED <<code, cooldown, rowVars, sent, proved, sessions>>

-----------------------------------------------------------------------------
(* verify_otp_view, the code verified *)

Holders(p) == {k \in Kinds : profile[p][k] \in {"holds", "verified"}}

\* Mutant of NewProfile: a number for a username counts as verified.
NewVerified(p) == IF Holders(p) = {} THEN "verified" ELSE "blank"

\* create_user_profile: a username with a number gives it to the profile,
\* unless some profile holds it.
NewProfile(p) == IF Holders(p) = {} THEN "holds" ELSE "blank"

\* The account whose profile holds the phone, else the one named like it, as
\* it is now; without either one is created.
FindAccount(r) ==
    LET p == login[r].phone
        found(k, at) == login' = [login EXCEPT ![r].at = at, ![r].kind = k,
                                               ![r].active = account[p][k] = "active"]
    IN
    /\ login[r].at = "find"
    /\ \/ \E k \in Holders(p) : found(k, "verify")
       \/ Holders(p) = {} /\ account[p]["plain"] # "none" /\ found("plain", "profile")
       \/ Holders(p) = {} /\ account[p]["plain"] = "none" /\ Goes(r, "create")
    /\ UNCHANGED <<cacheVars, rowVars, sent, proved, sessions>>

\* create_user fails when another request has created the username meanwhile.
CreateUser(r) ==
    LET p == login[r].phone IN
    /\ login[r].at = "create"
    /\ account[p]["plain"] = "none"
    /\ account' = [account EXCEPT ![p]["plain"] = "active"]
    /\ Goes(r, "signal")
    /\ UNCHANGED <<cacheVars, profile, sent, proved, sessions>>

\* The post_save signal of the new user.
SignalProfile(r) ==
    LET p == login[r].phone IN
    /\ login[r].at = "signal"
    /\ profile' = IF profile[p]["plain"] = "none"
                  THEN [profile EXCEPT ![p]["plain"] = NewProfile(p)] ELSE profile
    /\ Goes(r, "profile")
    /\ UNCHANGED <<cacheVars, account, sent, proved, sessions>>

\* Profile.objects.get_or_create of the account found by its username.
EnsureProfile(r) ==
    LET p == login[r].phone IN
    /\ login[r].at = "profile"
    /\ profile' = IF profile[p]["plain"] = "none"
                  THEN [profile EXCEPT ![p]["plain"] = "blank"] ELSE profile
    /\ Goes(r, "verify")
    /\ UNCHANGED <<cacheVars, account, sent, proved, sessions>>

\* Mutant of VerifyProfile: phone_number is not unique.
VerifyShared(r) ==
    LET p == login[r].phone
        k == login[r].kind IN
    /\ login[r].at = "verify" /\ login[r].active
    /\ profile' = [profile EXCEPT ![p][k] = "verified"]
    /\ Goes(r, "merge")
    /\ UNCHANGED <<cacheVars, account, sent, proved, sessions>>

\* An account that was active is verified: profile.save writes the phone and
\* is_verified, and no other profile may hold the phone.
VerifyProfile(r) ==
    LET p == login[r].phone
        k == login[r].kind IN
    /\ login[r].at = "verify" /\ login[r].active
    /\ Holders(p) \subseteq {k}
    /\ profile' = [profile EXCEPT ![p][k] = "verified"]
    /\ Goes(r, "merge")
    /\ UNCHANGED <<cacheVars, account, sent, proved, sessions>>

\* The carts have been merged; login() writes last_login and the session.
LogIn(r) ==
    LET p == login[r].phone IN
    /\ login[r].at = "merge"
    /\ sessions' = [sessions EXCEPT ![p] = @ \cup {login[r].kind}]
    /\ Ends(r)
    /\ UNCHANGED <<cacheVars, rowVars, sent, proved>>

\* An inactive account (403), a row gone or taken, a merge that fails (500), a
\* worker killed: what has been written stays.
LoginFails(r) ==
    /\ login[r].at # "idle"
    /\ Ends(r)
    /\ UNCHANGED <<cacheVars, rowVars, sent, proved, sessions>>

-----------------------------------------------------------------------------
(* Timeouts of the cache, and the owner's user administration *)

Expire(p) ==
    /\ \/ code[p] # NoCode /\ code' = [code EXCEPT ![p] = NoCode]
          /\ UNCHANGED <<attempts, cooldown>>
       \/ attempts[p] > 0 /\ attempts' = [attempts EXCEPT ![p] = 0]
          /\ UNCHANGED <<code, cooldown>>
       \/ cooldown[p] /\ cooldown' = [cooldown EXCEPT ![p] = FALSE]
          /\ UNCHANGED <<code, attempts>>
    /\ UNCHANGED <<rowVars, login, sent, proved, sessions>>

AddUser(p, k) ==
    /\ account[p][k] = "none"
    /\ account' = [account EXCEPT ![p][k] = "active"]
    /\ profile' = [profile EXCEPT ![p][k] = NewProfile(p)]
    /\ UNCHANGED <<cacheVars, login, sent, proved, sessions>>

ToggleActive(p, k) ==
    /\ account[p][k] # "none"
    /\ account' = [account EXCEPT ![p][k] = IF @ = "active" THEN "inactive" ELSE "active"]
    /\ UNCHANGED <<cacheVars, profile, login, sent, proved, sessions>>

\* The profile and the sessions of the account go with it, and a request that
\* has found the row will fail: a later user of that name is another row.
DeleteUser(p, k) ==
    /\ account[p][k] # "none"
    /\ login' = [r \in Requests |->
                    IF /\ login[r].phone = p /\ login[r].kind = k
                       /\ login[r].at \in {"signal", "profile", "verify", "merge"}
                    THEN [login[r] EXCEPT !.at = "refused"] ELSE login[r]]
    /\ account' = [account EXCEPT ![p][k] = "none"]
    /\ profile' = [profile EXCEPT ![p][k] = "none"]
    /\ sessions' = [sessions EXCEPT ![p] = @ \ {k}]
    /\ UNCHANGED <<cacheVars, sent, proved>>

SendView(r) ==
    \/ \E p \in Phones, c \in Codes : RequestCode(r, p, c)
    \/ SmsSent(r) \/ SmsFails(r)
    \/ StoreCode(r) \/ StoreCooldown(r) \/ ResetAttempts(r)

VerifyView(r) ==
    \/ \E p \in Phones, c \in Codes : EnterCode(r, p, c)
    \/ Compare(r) \/ CountMiss(r) \/ ConsumeCode(r) \/ ClearAttempts(r)
    \/ FindAccount(r) \/ CreateUser(r) \/ SignalProfile(r) \/ EnsureProfile(r)
    \/ VerifyProfile(r) \/ LogIn(r)

LoginNext ==
    \/ \E r \in Requests : SendView(r) \/ VerifyView(r) \/ LoginFails(r)
    \/ \E p \in Phones :
          \/ Expire(p)
          \/ \E k \in Kinds : AddUser(p, k) \/ ToggleActive(p, k) \/ DeleteUser(p, k)

LoginSpec == LoginInit /\ [][LoginNext]_loginVars

-----------------------------------------------------------------------------
(* Properties *)

\* The counter keeps within its limit however many verifications race: each
\* writes what it read and one, and none reads a full counter (verify_otp).
LoginTypeOK ==
    /\ code \in [Phones -> Codes \cup {NoCode}]
    /\ attempts \in [Phones -> 0..MaxAttempts]
    /\ account \in [Phones -> [Kinds -> {"none", "active", "inactive"}]]
    /\ profile \in [Phones -> [Kinds -> {"none", "blank", "holds", "verified"}]]
    /\ \A r \in Requests : login[r].seen \in 0..(MaxAttempts - 1)

\* A code that can be entered is one the phone has been sent: a send that
\* failed leaves no code behind, whatever other sends do (send_otp).
StoredCodeWasSent ==
    \A p \in Phones : code[p] # NoCode => code[p] \in sent[p]

\* A profile is verified only after a code sent to its phone was entered; a
\* username that looks like a number does not do (create_user_profile,
\* accounts/tests.py test_phone_shaped_username_does_not_imply_verified_mobile).
VerifiedByCode ==
    \A p \in Phones : "verified" \in {profile[p][k] : k \in Kinds} => p \in proved

\* A customer finds the same account, with its cart and orders, at every login
\* from one phone, even when racing first logins and the owner create accounts
\* with either username (verify_otp_view).
OneAccountPerPhone ==
    \A p \in Phones : Cardinality(sessions[p]) <= 1

\* A request knows its phone; it stores a code that was sent, and handles an
\* account only after a code was entered.
RequestKnows(r) ==
    LET p == login[r].phone
        k == login[r].kind IN
    /\ login[r].at # "idle" => p \in Phones
    /\ login[r].at = "sms" => login[r].code \in Codes
    /\ login[r].at = "store" => login[r].code \in sent[p] \cap Codes
    /\ login[r].at \in {"clear", "find", "create", "signal", "profile", "verify", "merge"}
          => p \in proved
    /\ login[r].at \notin {"verify", "merge", "refused"} => k = "plain"
    /\ login[r].at \in {"signal", "profile", "verify", "merge"} => account[p][k] # "none"
    /\ login[r].at = "merge" => profile[p][k] = "verified"

\* A phone is held by one profile, of an account that exists, and sessions are
\* of the account whose profile holds it.
PhoneHeldOnce ==
    \A p \in Phones :
        /\ \A j, k \in Holders(p) : j = k
        /\ \A k \in Kinds : profile[p][k] # "none" => account[p][k] # "none"
        /\ \A k \in sessions[p] : profile[p][k] = "verified"

LoginStates == [at : {"idle", "sms", "store", "cool", "reset", "entered", "miss", "hit",
                      "clear", "find", "create", "signal", "profile", "verify",
                      "merge", "refused"},
                phone : Phones \cup {NoPhone}, code : Codes \cup {NoCode},
                seen : 0..(MaxAttempts - 1), kind : Kinds, active : BOOLEAN]

\* The inductive invariant of the login.
LoginConsistent ==
    /\ LoginTypeOK
    /\ cooldown \in [Phones -> BOOLEAN] /\ login \in [Requests -> LoginStates]
    /\ sent \in [Phones -> SUBSET Codes] /\ proved \subseteq Phones
    /\ sessions \in [Phones -> SUBSET Kinds]
    /\ StoredCodeWasSent /\ VerifiedByCode
    /\ PhoneHeldOnce
    /\ \A r \in Requests : RequestKnows(r)
=============================================================================
