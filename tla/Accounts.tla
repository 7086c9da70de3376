------------------------------ MODULE Accounts ------------------------------
(***************************************************************************)
(* src/app/auth: sign-up, email verification, resend and Google sign-in,   *)
(* as transactions on the control-plane database.                          *)
(*                                                                         *)
(* The database is PostgreSQL at READ COMMITTED: a statement sees what is  *)
(* committed when it starts, writes take row locks that last until the     *)
(* transaction ends, and an insert waits for a transaction that inserted   *)
(* or deleted the same unique key.  Each statement that may wait is an     *)
(* action; the last statement of a transaction and its commit are one, and *)
(* the locks held are a function of pc.  Uncommitted writes are not in     *)
(* users, verified, linked, tokens: they take effect at the commit, so a   *)
(* rollback changes nothing there.                                         *)
(*                                                                         *)
(* Requests are one-shot: a request inserts at most one user and at most   *)
(* one verification token, so the request itself names both.  That a user  *)
(* id is never used twice (SERIAL) is built in.                            *)
(***************************************************************************)
EXTENDS Naturals, FiniteSets

CONSTANTS
  Requests,
  Emails,    \* normalized addresses
  Subs,      \* Google accounts (provider_user_id)
  None

ASSUME NoneIsNew == None \notin Requests

VARIABLES
  req,       \* what each request asks for
  pc,        \* the statement each request is at, or its answer
  found,     \* the user row each request works on, or None
  snap,      \* the token rows a request's DELETE works on
  users,     \* committed rows of users, named by the request that inserted them
  verified,  \* the users with email_verified_at
  linked,    \* oauth_identities: the user of each Google account, or None
  tokens,    \* committed rows of email_verifications, likewise
  issued,    \* every token ever committed (history)
  expired,   \* tokens past expires_at
  mailed     \* tokens whose link was sent

vars == <<req, pc, found, snap, users, verified, linked, tokens, issued, expired, mailed>>

database == <<users, verified, linked, tokens, issued>>

-----------------------------------------------------------------------------
Args == [op : {"signup", "verify", "resend", "oauth"}, email : Emails \cup {None},
         sub : Subs \cup {None}, token : Requests \cup {None}]

\* A client knows the tokens it was mailed; None is one that never existed.
ArgsNow == {a \in Args :
  CASE a.op = "verify" -> a.email = None /\ a.sub = None /\ a.token \in mailed \cup {None}
    [] a.op = "oauth" -> a.email # None /\ a.sub # None /\ a.token = None
    [] OTHER -> a.email # None /\ a.sub = None /\ a.token = None}

FirstStep == [signup |-> "signup_select", verify |-> "verify_select",
              resend |-> "resend_select", oauth |-> "oauth_identity"]

OAuthSteps == {"oauth_identity", "oauth_lock", "oauth_link", "oauth_delete", "oauth_insert"}

\* Statements inside a transaction; "mail" comes after it.
TxSteps == OAuthSteps \cup
  {"signup_select", "signup_insert", "signup_token",
   "verify_select", "verify_update", "verify_scan", "verify_delete",
   "resend_select", "resend_scan", "resend_delete", "resend_insert"}

\* "error" is a 500 for an error the database raised, "lost" a 500 for a
\* connection that broke.
Answers == {"created", "exists", "verified", "invalid", "ok", "login", "error", "lost"}

EmailOf(u) == req[u].email

UserOf(e) == {u \in users : EmailOf(u) = e}

TokensOf(u) == {t \in tokens : found[t] = u}

Goto(r, step) == pc' = [pc EXCEPT ![r] = step]

-----------------------------------------------------------------------------
(* Row locks *)

\* SELECT ... FOR UPDATE, held until the transaction ends.
LockedByOAuth(u) ==
  \E o \in Requests : found[o] = u /\ pc[o] \in {"oauth_link", "oauth_delete", "oauth_insert"}

\* UPDATE users, held by a verification until it ends.
LockedByVerify(u) ==
  u \in users /\ \E v \in Requests : found[v] = u /\ pc[v] \in {"verify_scan", "verify_delete"}

\* Token rows deleted by a resend that did not commit yet.
LockedByResend(t) == \E s \in Requests : pc[s] = "resend_insert" /\ t \in snap[s]

\* Token rows deleted with their user by a Google sign-in that did not commit.
LockedByCascade(t) ==
  \E o \in Requests : pc[o] = "oauth_insert" /\ found[o] # None /\ found[t] = found[o]

TokenLocked(t) == LockedByResend(t) \/ LockedByCascade(t)

\* Addresses in users rows that an open transaction inserted, or deleted.
EmailInserted(e) == \E s \in Requests : pc[s] = "signup_token" /\ EmailOf(s) = e

EmailDeleted(e) ==
  \E o \in Requests : pc[o] = "oauth_insert" /\ found[o] # None /\ EmailOf(found[o]) = e

-----------------------------------------------------------------------------
Init ==
  /\ req = [r \in Requests |-> None]
  /\ pc = [r \in Requests |-> "idle"]
  /\ found = [r \in Requests |-> None]
  /\ snap = [r \in Requests |-> {}]
  /\ users = {}
  /\ verified = {}
  /\ linked = [s \in Subs |-> None]
  /\ tokens = {}
  /\ issued = {}
  /\ expired = {}
  /\ mailed = {}

\* google_callback is a coroutine that runs its transaction on the event loop:
\* until that ends, no other request is taken up.
EventLoopBlocked == \E o \in Requests : pc[o] \in OAuthSteps

Begin(r) ==
  /\ pc[r] = "idle"
  /\ ~EventLoopBlocked
  /\ \E a \in ArgsNow :
       /\ req' = [req EXCEPT ![r] = a]
       /\ Goto(r, FirstStep[a.op])
  /\ UNCHANGED <<found, snap, database, expired, mailed>>

\* A statement that writes nothing that is committed.
Move(r, step) ==
  /\ Goto(r, step)
  /\ UNCHANGED <<req, database, expired, mailed>>

\* The transaction ends without a commit, by an exception or by a return.
End(r, answer) ==
  /\ Move(r, answer)
  /\ snap' = [snap EXCEPT ![r] = {}]
  /\ UNCHANGED found

-----------------------------------------------------------------------------
(* signup *)

SignupSelect(r) ==
  /\ pc[r] = "signup_select"
  /\ IF UserOf(EmailOf(r)) # {}
     THEN End(r, "exists")
     ELSE Move(r, "signup_insert") /\ UNCHANGED <<found, snap>>

\* Mutant: an insert that hits the unique address is tried again.
Mutant_SignupInsertRetries(r) ==
  /\ pc[r] = "signup_insert"
  /\ ~EmailInserted(EmailOf(r)) /\ ~EmailDeleted(EmailOf(r))
  /\ IF UserOf(EmailOf(r)) # {}
     THEN End(r, "signup_insert")
     ELSE Move(r, "signup_token") /\ UNCHANGED <<found, snap>>

\* UNIQUE (email): the IntegrityError of a duplicate is not caught.
SignupInsert(r) ==
  /\ pc[r] = "signup_insert"
  /\ ~EmailInserted(EmailOf(r)) /\ ~EmailDeleted(EmailOf(r))
  /\ IF UserOf(EmailOf(r)) # {}
     THEN End(r, "error")
     ELSE Move(r, "signup_token") /\ UNCHANGED <<found, snap>>

\* create_verification_token, and the commit of the user and its token.
SignupToken(r) ==
  /\ pc[r] = "signup_token"
  /\ Goto(r, "mail")
  /\ found' = [found EXCEPT ![r] = r]
  /\ users' = users \cup {r}
  /\ tokens' = tokens \cup {r}
  /\ issued' = issued \cup {r}
  /\ UNCHANGED <<req, snap, verified, linked, expired, mailed>>

-----------------------------------------------------------------------------
(* verify_email_token *)

VerifySelect(r) ==
  /\ pc[r] = "verify_select"
  /\ IF req[r].token \in tokens \ expired
     THEN /\ Move(r, "verify_update")
          /\ found' = [found EXCEPT ![r] = found[req[r].token]]
          /\ UNCHANGED snap
     ELSE End(r, "invalid")

\* Zero rows are updated when the user was deleted meanwhile.
VerifyUpdate(r) ==
  /\ pc[r] = "verify_update"
  /\ ~LockedByOAuth(found[r]) /\ ~LockedByVerify(found[r])
  /\ Move(r, "verify_scan")
  /\ UNCHANGED <<found, snap>>

\* The rows the DELETE finds in its snapshot.
VerifyScan(r) ==
  /\ pc[r] = "verify_scan"
  /\ Move(r, "verify_delete")
  /\ snap' = [snap EXCEPT ![r] = TokensOf(found[r])]
  /\ UNCHANGED found

\* It waits for rows others deleted and did not commit; then the commit.
VerifyDelete(r) ==
  /\ pc[r] = "verify_delete"
  /\ \A t \in snap[r] \cap tokens : ~TokenLocked(t)
  /\ Goto(r, "verified")
  /\ tokens' = tokens \ snap[r]
  /\ verified' = verified \cup ({found[r]} \cap users)
  /\ snap' = [snap EXCEPT ![r] = {}]
  /\ UNCHANGED <<req, found, users, linked, issued, expired, mailed>>

-----------------------------------------------------------------------------
(* resend_verification *)

ResendSelect(r) ==
  /\ pc[r] = "resend_select"
  /\ \/ /\ UserOf(EmailOf(r)) \subseteq verified
        /\ End(r, "ok")
     \/ \E u \in UserOf(EmailOf(r)) \ verified :
          /\ Move(r, "resend_scan")
          /\ found' = [found EXCEPT ![r] = u]
          /\ UNCHANGED snap

\* create_verification_token: the DELETE, in two actions as above.
ResendScan(r) ==
  /\ pc[r] = "resend_scan"
  /\ Move(r, "resend_delete")
  /\ snap' = [snap EXCEPT ![r] = TokensOf(found[r])]
  /\ UNCHANGED found

\* Mutant: the DELETE is committed by itself.
Mutant_ResendDeleteCommits(r) ==
  /\ pc[r] = "resend_delete"
  /\ \A t \in snap[r] \cap tokens : ~TokenLocked(t)
  /\ Goto(r, "resend_insert")
  /\ tokens' = tokens \ snap[r]
  /\ snap' = [snap EXCEPT ![r] = {}]
  /\ UNCHANGED <<req, found, users, verified, linked, issued, expired, mailed>>

\* The rows that are still there are deleted, and locked until the commit.
ResendDelete(r) ==
  /\ pc[r] = "resend_delete"
  /\ \A t \in snap[r] \cap tokens : ~TokenLocked(t)
  /\ Move(r, "resend_insert")
  /\ snap' = [snap EXCEPT ![r] = snap[r] \cap tokens]
  /\ UNCHANGED found

\* The foreign key locks the user's row, unless it is gone: then the insert
\* raises.  The commit follows.
ResendInsert(r) ==
  /\ pc[r] = "resend_insert"
  /\ ~LockedByOAuth(found[r])
  /\ \/ found[r] \notin users /\ End(r, "error")
     \/ /\ found[r] \in users
        /\ Goto(r, "mail")
        /\ tokens' = (tokens \ snap[r]) \cup {r}
        /\ issued' = issued \cup {r}
        /\ snap' = [snap EXCEPT ![r] = {}]
        /\ UNCHANGED <<req, found, users, verified, linked, expired, mailed>>

\* Both send the link after the commit; an error of the sender is logged.
Mail(r) ==
  /\ pc[r] = "mail"
  /\ Goto(r, IF req[r].op = "signup" THEN "created" ELSE "ok")
  /\ \/ mailed' = mailed \cup {r}
     \/ UNCHANGED mailed
  /\ UNCHANGED <<req, found, snap, database, expired>>

-----------------------------------------------------------------------------
(* find_or_create_oauth_user *)

OAuthIdentity(r) ==
  /\ pc[r] = "oauth_identity"
  /\ IF linked[req[r].sub] # None
     THEN End(r, "login")
     ELSE Move(r, "oauth_lock") /\ UNCHANGED <<found, snap>>

\* Mutant: the SELECT does not lock the row.
Mutant_OAuthLockNoWait(r) ==
  /\ pc[r] = "oauth_lock"
  /\ \/ /\ UserOf(EmailOf(r)) = {}
        /\ Move(r, "oauth_insert")
        /\ UNCHANGED <<found, snap>>
     \/ \E u \in UserOf(EmailOf(r)) :
          /\ Move(r, IF u \in verified THEN "oauth_link" ELSE "oauth_delete")
          /\ found' = [found EXCEPT ![r] = u]
          /\ UNCHANGED snap

\* Mutant: an account is linked whether its address is verified or not.
Mutant_OAuthLockLinks(r) ==
  /\ pc[r] = "oauth_lock"
  /\ \/ /\ UserOf(EmailOf(r)) = {}
        /\ Move(r, "oauth_insert")
        /\ UNCHANGED <<found, snap>>
     \/ \E u \in UserOf(EmailOf(r)) :
          /\ ~LockedByVerify(u)
          /\ Move(r, "oauth_link")
          /\ found' = [found EXCEPT ![r] = u]
          /\ UNCHANGED snap

\* SELECT ... FOR UPDATE: it waits for a verification of the row, and reads
\* what that committed.
OAuthLock(r) ==
  /\ pc[r] = "oauth_lock"
  /\ \/ /\ UserOf(EmailOf(r)) = {}
        /\ Move(r, "oauth_insert")
        /\ UNCHANGED <<found, snap>>
     \/ \E u \in UserOf(EmailOf(r)) :
          /\ ~LockedByVerify(u)
          /\ Move(r, IF u \in verified THEN "oauth_link" ELSE "oauth_delete")
          /\ found' = [found EXCEPT ![r] = u]
          /\ UNCHANGED snap

\* Mutant: the identity is given the row it found, not the row's id.
Mutant_OAuthLinkRow(r) ==
  /\ pc[r] = "oauth_link"
  /\ Goto(r, "login")
  /\ linked' = [linked EXCEPT ![req[r].sub] = req[found[r]]]
  /\ UNCHANGED <<req, found, snap, users, verified, tokens, issued, expired, mailed>>

OAuthLink(r) ==
  /\ pc[r] = "oauth_link"
  /\ Goto(r, "login")
  /\ linked' = [linked EXCEPT ![req[r].sub] = found[r]]
  /\ UNCHANGED <<req, found, snap, users, verified, tokens, issued, expired, mailed>>

\* DELETE FROM users, which cascades to the user's tokens and waits for those
\* a resend deleted.  oauth_identities does not cascade.
OAuthDelete(r) ==
  /\ pc[r] = "oauth_delete"
  /\ \A t \in TokensOf(found[r]) : ~LockedByResend(t)
  /\ IF \E s \in Subs : linked[s] = found[r]
     THEN End(r, "error")
     ELSE Move(r, "oauth_insert") /\ UNCHANGED <<found, snap>>

\* The new verified user and its identity, and the commit.
OAuthInsert(r) ==
  /\ pc[r] = "oauth_insert"
  /\ ~EmailInserted(EmailOf(r))
  /\ \/ UserOf(EmailOf(r)) \ {found[r]} # {} /\ End(r, "error")
     \/ /\ UserOf(EmailOf(r)) \subseteq {found[r]}
        /\ Goto(r, "login")
        /\ users' = (users \ {found[r]}) \cup {r}
        /\ verified' = verified \cup {r}
        /\ linked' = [linked EXCEPT ![req[r].sub] = r]
        /\ tokens' = {t \in tokens : found[t] # found[r]}
        /\ UNCHANGED <<req, found, snap, issued, expired, mailed>>

-----------------------------------------------------------------------------
(* PostgreSQL, the network and time *)

\* A sign-in that deletes a user waits for a resend that deleted its tokens,
\* and the resend's insert waits for the sign-in: PostgreSQL aborts either.
Deadlocked(o, s) ==
  /\ pc[o] = "oauth_delete" /\ pc[s] = "resend_insert"
  /\ found[o] = found[s]
  /\ snap[s] \cap tokens # {}

DeadlockAbort(r) ==
  /\ \E x \in Requests : Deadlocked(r, x) \/ Deadlocked(x, r)
  /\ End(r, "error")

\* The connection breaks, and the transaction is rolled back; at "mail" it
\* broke while the commit was confirmed.
Lose(r) ==
  /\ pc[r] \in TxSteps \cup {"mail"}
  /\ End(r, "lost")

Expire(t) ==
  /\ t \in tokens \ expired
  /\ expired' = expired \cup {t}
  /\ UNCHANGED <<req, pc, found, snap, database, mailed>>

Step(r) ==
  \/ SignupSelect(r) \/ SignupInsert(r) \/ SignupToken(r)
  \/ VerifySelect(r) \/ VerifyUpdate(r) \/ VerifyScan(r) \/ VerifyDelete(r)
  \/ ResendSelect(r) \/ ResendScan(r) \/ ResendDelete(r) \/ ResendInsert(r)
  \/ OAuthIdentity(r) \/ OAuthLock(r) \/ OAuthLink(r) \/ OAuthDelete(r) \/ OAuthInsert(r)
  \/ Mail(r)
  \/ DeadlockAbort(r)

Next ==
  \/ \E r \in Requests : Begin(r) \/ Step(r) \/ Lose(r)
  \/ \E t \in Requests : Expire(t)

Spec == Init /\ [][Next]_vars

\* A statement that does not wait for a lock ends, and PostgreSQL finds every
\* deadlock after deadlock_timeout.
FairSpec == Spec /\ \A r \in Requests : WF_vars(Step(r))

-----------------------------------------------------------------------------
(* Properties *)

\* Every variable has its type.
AccountsTypeOK ==
  /\ req \in [Requests -> Args \cup {None}]
  /\ pc \in [Requests -> {"idle", "mail"} \cup TxSteps \cup Answers]
  /\ found \in [Requests -> Requests \cup {None}]
  /\ snap \in [Requests -> SUBSET Requests]
  /\ linked \in [Subs -> Requests \cup {None}]
  /\ users \cup verified \cup tokens \cup issued \cup expired \cup mailed \subseteq Requests

\* A verified account is never deleted: a Google sign-in deletes an account
\* because it read it as unverified, and no verification commits in between.
VerifiedNeverLost == verified \subseteq users

(***************************************************************************)
(* No account is taken over before its address is proven: a Google account *)
(* is linked only to an existing, verified user, whom a Google sign-in     *)
(* created or a mailed link verified; and a sign-in that was answered      *)
(* stays linked.                                                           *)
(***************************************************************************)
LinkedIsProven ==
  /\ \A s \in Subs : linked[s] # None =>
       /\ linked[s] \in users \cap verified
       /\ req[linked[s]].op = "oauth" \/ \E t \in mailed : found[t] = linked[s]
  /\ \A r \in Requests : pc[r] = "login" => linked[req[r].sub] # None

\* Whatever resends, verifications and sign-ins overlap, an account that is
\* not verified has a token: the race of two resends does not delete both.
UnverifiedHasToken == \A u \in users \ verified : TokensOf(u) # {}

\* A link that can be clicked is of a token that was committed.
MailedAfterCommit == mailed \subseteq issued

\* Unverified accounts can be verified: they have a token, whatever is interrupted
\* between its commit and the mail, and no link is of a token that was rolled back.
LinksWork == UnverifiedHasToken /\ MailedAfterCommit

\* Every request that was taken up is answered: no lock is waited for forever.
RequestsAnswered == \A r \in Requests : pc[r] \in TxSteps ~> pc[r] \in Answers

(***************************************************************************)
(* What the repository says, and the code does not keep                    *)
(***************************************************************************)
\* NOTES.md: creating a token deletes the user's older ones.
OneTokenPerUser == \A u \in users : Cardinality(TokensOf(u)) <= 1
=============================================================================
