--------------------------- MODULE AccountsProofs ---------------------------
(***************************************************************************)
(* Proofs about Accounts: its safety invariants hold for every number of   *)
(* requests, addresses and Google accounts.                                *)
(*                                                                         *)
(* The inductive invariant says what each open transaction relies on.  A   *)
(* Google sign-in relies on the row it locked (SignInHolds), which no      *)
(* verification may write meanwhile (Exclusive) and, the event loop being  *)
(* blocked, no other sign-in (OneSignIn).  A verification relies on the    *)
(* token it read (Verifying), a DELETE of tokens on the rows it found      *)
(* (SnapsAreOwn).  Rows are named by requests, so the request that         *)
(* inserted a row is past its transaction (Settled) and its columns        *)
(* (req, found) do not change.                                             *)
(***************************************************************************)
EXTENDS Accounts, TLAPS

Past == {"mail"} \cup Answers

Settled(r) == r \in Requests /\ pc[r] \in Past

Locking == {"oauth_link", "oauth_delete", "oauth_insert"}

Taken ==
  \A r \in Requests : pc[r] # "idle" =>
    /\ req[r] \in Args
    /\ pc[r] \in OAuthSteps \cup {"login"} => req[r].op = "oauth" /\ req[r].sub \in Subs
    /\ pc[r] \in {"verify_select", "verify_update", "verify_scan", "verify_delete"} =>
         req[r].op = "verify"
    /\ req[r].op = "verify" => req[r].token \in mailed \cup {None}

NotFoundYet ==
  \A r \in Requests : pc[r] \in {"idle", "oauth_identity", "oauth_lock"} => found[r] = None

RowsAreSettled ==
  /\ \A r \in users \cup tokens \cup mailed : Settled(r)
  /\ \A r \in Requests : found[r] # None => Settled(found[r])

OneSignIn ==
  \A o, p \in Requests : pc[o] \in OAuthSteps /\ pc[p] \in OAuthSteps => o = p

SignInHolds ==
  \A o \in Requests :
    /\ pc[o] = "oauth_link" => found[o] \in users \cap verified
    /\ pc[o] = "oauth_delete" => found[o] \in users \ verified
    /\ pc[o] = "oauth_insert" /\ found[o] # None => found[o] \in users \ verified

Exclusive ==
  \A v, o \in Requests :
    /\ pc[v] \in {"verify_scan", "verify_delete"}
    /\ found[v] \in users
    /\ pc[o] \in Locking
    => found[o] # found[v]

Verifying ==
  \A v \in Requests : pc[v] \in {"verify_update", "verify_scan", "verify_delete"} =>
    /\ req[v].token \in mailed
    /\ found[v] = found[req[v].token]

Proven == \A u \in verified : req[u].op = "oauth" \/ \E t \in mailed : found[t] = u

Links ==
  /\ \A s \in Subs : linked[s] # None => linked[s] \in verified
  /\ \A r \in Requests : pc[r] = "login" => linked[req[r].sub] # None

SnapsAreOwn ==
  \A r \in Requests :
    /\ pc[r] \notin {"verify_delete", "resend_delete", "resend_insert"} => snap[r] = {}
    /\ \A t \in snap[r] : Settled(t) /\ found[t] = found[r]

Issues ==
  /\ \A r \in Requests : pc[r] = "mail" => r \in issued
  /\ mailed \subseteq issued

Inv ==
  /\ AccountsTypeOK
  /\ Taken
  /\ NotFoundYet
  /\ RowsAreSettled
  /\ OneSignIn
  /\ SignInHolds
  /\ Exclusive
  /\ Verifying
  /\ Proven
  /\ VerifiedNeverLost
  /\ Links
  /\ SnapsAreOwn
  /\ UnverifiedHasToken
  /\ Issues

(* A transaction that ends without a commit keeps the invariant. *)
LEMMA EndKeeps ==
  ASSUME Inv, NEW r \in Requests,
         NEW answer \in Answers,
         pc[r] \in TxSteps \cup {"mail"},
         answer = "login" => pc[r] = "oauth_identity" /\ linked[req[r].sub] # None,
         End(r, answer)
  PROVE  Inv'
<1>. USE DEF Inv
<1>1. AccountsTypeOK'
  BY DEF Move, End, Goto, database, TxSteps, OAuthSteps, Answers, AccountsTypeOK, Args, TxSteps, OAuthSteps, Answers
<1>2. Taken' /\ NotFoundYet' /\ OneSignIn'
  BY DEF Move, End, Goto, database, TxSteps, OAuthSteps, Answers, AccountsTypeOK, Taken, NotFoundYet, OneSignIn, OAuthSteps
<1>3. RowsAreSettled'
  BY DEF Move, End, Goto, database, TxSteps, OAuthSteps, Answers, AccountsTypeOK, RowsAreSettled, Settled, Past, Answers
<1>4. SignInHolds' /\ Exclusive'
  BY DEF Move, End, Goto, database, TxSteps, OAuthSteps, Answers, AccountsTypeOK, SignInHolds, Exclusive, Locking
<1>5. Verifying' /\ Proven'
  BY DEF Move, End, Goto, database, TxSteps, OAuthSteps, Answers, AccountsTypeOK, Taken, Verifying, Proven, RowsAreSettled, Settled, Past, Answers
<1>6. VerifiedNeverLost' /\ Links'
  BY DEF Move, End, Goto, database, TxSteps, OAuthSteps, Answers, AccountsTypeOK, Taken, VerifiedNeverLost, Links
<1>7. SnapsAreOwn'
  BY DEF Move, End, Goto, database, TxSteps, OAuthSteps, Answers, AccountsTypeOK, SnapsAreOwn, RowsAreSettled, Settled, Past, Answers
<1>8. UnverifiedHasToken' /\ Issues'
  BY DEF Move, End, Goto, database, TxSteps, OAuthSteps, Answers, AccountsTypeOK, UnverifiedHasToken, TokensOf, Issues, RowsAreSettled, Settled, Past, Answers
<1>. QED
  BY <1>1, <1>2, <1>3, <1>4, <1>5, <1>6, <1>7, <1>8 DEF Inv

(* A request that is taken up names a token it was mailed, and no sign-in is open. *)
LEMMA BeginKeeps ==
  ASSUME Inv, NEW r \in Requests,
         Begin(r)
  PROVE  Inv'
<1>. USE DEF Inv
<1>1. AccountsTypeOK'
  BY DEF Begin, FirstStep, ArgsNow, Args, EventLoopBlocked, Goto, database, OAuthSteps, AccountsTypeOK, Args, TxSteps, OAuthSteps, Answers
<1>2. Taken' /\ NotFoundYet' /\ OneSignIn'
  BY DEF Begin, FirstStep, ArgsNow, Args, EventLoopBlocked, Goto, database, OAuthSteps, AccountsTypeOK, Taken, NotFoundYet, OneSignIn, OAuthSteps
<1>3. RowsAreSettled'
  BY DEF Begin, FirstStep, ArgsNow, Args, EventLoopBlocked, Goto, database, OAuthSteps, AccountsTypeOK, RowsAreSettled, Settled, Past, Answers
<1>4. SignInHolds' /\ Exclusive'
  BY DEF Begin, FirstStep, ArgsNow, Args, EventLoopBlocked, Goto, database, OAuthSteps, AccountsTypeOK, SignInHolds, Exclusive, Locking
<1>5. Verifying' /\ Proven'
  BY DEF Begin, FirstStep, ArgsNow, Args, EventLoopBlocked, Goto, database, OAuthSteps, AccountsTypeOK, Taken, Verifying, Proven, RowsAreSettled, Settled, Past, Answers, VerifiedNeverLost
<1>6. VerifiedNeverLost' /\ Links'
  BY DEF Begin, FirstStep, ArgsNow, Args, EventLoopBlocked, Goto, database, OAuthSteps, AccountsTypeOK, Taken, VerifiedNeverLost, Links
<1>7. SnapsAreOwn'
  BY DEF Begin, FirstStep, ArgsNow, Args, EventLoopBlocked, Goto, database, OAuthSteps, AccountsTypeOK, SnapsAreOwn, RowsAreSettled, Settled, Past, Answers
<1>8. UnverifiedHasToken' /\ Issues'
  BY DEF Begin, FirstStep, ArgsNow, Args, EventLoopBlocked, Goto, database, OAuthSteps, AccountsTypeOK, UnverifiedHasToken, TokensOf, Issues, RowsAreSettled, Settled, Past, Answers
<1>. QED
  BY <1>1, <1>2, <1>3, <1>4, <1>5, <1>6, <1>7, <1>8 DEF Inv

(* The statements of a sign-up before its last. *)
LEMMA SignupMoves ==
  ASSUME Inv, NEW r \in Requests,
         pc[r] \in {"signup_select", "signup_insert"},
         NEW step \in {"signup_insert", "signup_token"},
         Move(r, step),
         UNCHANGED <<found, snap>>
  PROVE  Inv'
<1>. USE DEF Inv
<1>1. AccountsTypeOK'
  BY DEF Move, End, Goto, database, AccountsTypeOK, Args, TxSteps, OAuthSteps, Answers
<1>2. Taken' /\ NotFoundYet' /\ OneSignIn'
  BY DEF Move, End, Goto, database, AccountsTypeOK, Taken, NotFoundYet, OneSignIn, OAuthSteps
<1>3. RowsAreSettled'
  BY DEF Move, End, Goto, database, AccountsTypeOK, RowsAreSettled, Settled, Past, Answers
<1>4. SignInHolds' /\ Exclusive'
  BY DEF Move, End, Goto, database, AccountsTypeOK, SignInHolds, Exclusive, Locking
<1>5. Verifying' /\ Proven'
  BY DEF Move, End, Goto, database, AccountsTypeOK, Taken, Verifying, Proven, RowsAreSettled, Settled, Past, Answers
<1>6. VerifiedNeverLost' /\ Links'
  BY DEF Move, End, Goto, database, AccountsTypeOK, Taken, VerifiedNeverLost, Links
<1>7. SnapsAreOwn'
  BY DEF Move, End, Goto, database, AccountsTypeOK, SnapsAreOwn, RowsAreSettled, Settled, Past, Answers
<1>8. UnverifiedHasToken' /\ Issues'
  BY DEF Move, End, Goto, database, AccountsTypeOK, UnverifiedHasToken, TokensOf, Issues, RowsAreSettled, Settled, Past, Answers
<1>. QED
  BY <1>1, <1>2, <1>3, <1>4, <1>5, <1>6, <1>7, <1>8 DEF Inv

(* A sign-up commits its user with a token of its own. *)
LEMMA SignupTokenKeeps ==
  ASSUME Inv, NEW r \in Requests,
         SignupToken(r)
  PROVE  Inv'
<1>. USE DEF Inv
<1>1. AccountsTypeOK'
  BY DEF SignupToken, Goto, AccountsTypeOK, Args, TxSteps, OAuthSteps, Answers
<1>2. Taken' /\ NotFoundYet' /\ OneSignIn'
  BY DEF SignupToken, Goto, AccountsTypeOK, Taken, NotFoundYet, OneSignIn, OAuthSteps
<1>3. RowsAreSettled'
  BY DEF SignupToken, Goto, AccountsTypeOK, RowsAreSettled, Settled, Past, Answers
<1>4. SignInHolds' /\ Exclusive'
  BY NoneIsNew DEF SignupToken, Goto, AccountsTypeOK, SignInHolds, Exclusive, Locking, RowsAreSettled, Settled, Past, Answers
<1>5. Verifying' /\ Proven'
  BY DEF SignupToken, Goto, AccountsTypeOK, Taken, Verifying, Proven, RowsAreSettled, Settled, Past, Answers
<1>6. VerifiedNeverLost' /\ Links'
  BY DEF SignupToken, Goto, AccountsTypeOK, Taken, VerifiedNeverLost, Links
<1>7. SnapsAreOwn'
  BY DEF SignupToken, Goto, AccountsTypeOK, SnapsAreOwn, RowsAreSettled, Settled, Past, Answers
<1>8. UnverifiedHasToken' /\ Issues'
  BY DEF SignupToken, Goto, AccountsTypeOK, UnverifiedHasToken, TokensOf, Issues, RowsAreSettled, Settled, Past, Answers
<1>. QED
  BY <1>1, <1>2, <1>3, <1>4, <1>5, <1>6, <1>7, <1>8 DEF Inv

(* A verification finds a token that was mailed. *)
LEMMA VerifySelectKeeps ==
  ASSUME Inv, NEW r \in Requests,
         pc[r] = "verify_select",
         req[r].token \in tokens,
         Move(r, "verify_update"),
         found' = [found EXCEPT ![r] = found[req[r].token]],
         UNCHANGED snap
  PROVE  Inv'
<1>. USE DEF Inv
<1>1. AccountsTypeOK'
  BY DEF Move, End, Goto, database, AccountsTypeOK, Args, TxSteps, OAuthSteps, Answers
<1>2. Taken' /\ NotFoundYet' /\ OneSignIn'
  BY DEF Move, End, Goto, database, AccountsTypeOK, Taken, NotFoundYet, OneSignIn, OAuthSteps
<1>3. RowsAreSettled'
  BY DEF Move, End, Goto, database, AccountsTypeOK, RowsAreSettled, Settled, Past, Answers
<1>4. SignInHolds' /\ Exclusive'
  BY DEF Move, End, Goto, database, AccountsTypeOK, SignInHolds, Exclusive, Locking
<1>5. Verifying' /\ Proven'
  BY NoneIsNew DEF Move, End, Goto, database, AccountsTypeOK, Taken, Verifying, Proven, RowsAreSettled, Settled, Past, Answers
<1>6. VerifiedNeverLost' /\ Links'
  BY DEF Move, End, Goto, database, AccountsTypeOK, Taken, VerifiedNeverLost, Links
<1>7. SnapsAreOwn'
  BY DEF Move, End, Goto, database, AccountsTypeOK, SnapsAreOwn, RowsAreSettled, Settled, Past, Answers
<1>8. UnverifiedHasToken' /\ Issues'
  BY DEF Move, End, Goto, database, AccountsTypeOK, UnverifiedHasToken, TokensOf, Issues, RowsAreSettled, Settled, Past, Answers
<1>. QED
  BY <1>1, <1>2, <1>3, <1>4, <1>5, <1>6, <1>7, <1>8 DEF Inv

(* A verification locks the row only when no sign-in has. *)
LEMMA VerifyUpdateKeeps ==
  ASSUME Inv, NEW r \in Requests,
         VerifyUpdate(r)
  PROVE  Inv'
<1>. USE DEF Inv
<1>1. AccountsTypeOK'
  BY DEF VerifyUpdate, LockedByOAuth, Move, End, Goto, database, AccountsTypeOK, Args, TxSteps, OAuthSteps, Answers
<1>2. Taken' /\ NotFoundYet' /\ OneSignIn'
  BY DEF VerifyUpdate, LockedByOAuth, Move, End, Goto, database, AccountsTypeOK, Taken, NotFoundYet, OneSignIn, OAuthSteps
<1>3. RowsAreSettled'
  BY DEF VerifyUpdate, LockedByOAuth, Move, End, Goto, database, AccountsTypeOK, RowsAreSettled, Settled, Past, Answers
<1>4. SignInHolds' /\ Exclusive'
  BY DEF VerifyUpdate, LockedByOAuth, Move, End, Goto, database, AccountsTypeOK, SignInHolds, Exclusive, Locking
<1>5. Verifying' /\ Proven'
  BY DEF VerifyUpdate, LockedByOAuth, Move, End, Goto, database, AccountsTypeOK, Taken, Verifying, Proven, RowsAreSettled, Settled, Past, Answers
<1>6. VerifiedNeverLost' /\ Links'
  BY DEF VerifyUpdate, LockedByOAuth, Move, End, Goto, database, AccountsTypeOK, Taken, VerifiedNeverLost, Links
<1>7. SnapsAreOwn'
  BY DEF VerifyUpdate, LockedByOAuth, Move, End, Goto, database, AccountsTypeOK, SnapsAreOwn, RowsAreSettled, Settled, Past, Answers
<1>8. UnverifiedHasToken' /\ Issues'
  BY DEF VerifyUpdate, LockedByOAuth, Move, End, Goto, database, AccountsTypeOK, UnverifiedHasToken, TokensOf, Issues, RowsAreSettled, Settled, Past, Answers
<1>. QED
  BY <1>1, <1>2, <1>3, <1>4, <1>5, <1>6, <1>7, <1>8 DEF Inv

(* The rows a verification deletes are its user's. *)
LEMMA VerifyScanKeeps ==
  ASSUME Inv, NEW r \in Requests,
         VerifyScan(r)
  PROVE  Inv'
<1>. USE DEF Inv
<1>1. AccountsTypeOK'
  BY DEF VerifyScan, TokensOf, Move, End, Goto, database, AccountsTypeOK, Args, TxSteps, OAuthSteps, Answers
<1>2. Taken' /\ NotFoundYet' /\ OneSignIn'
  BY DEF VerifyScan, TokensOf, Move, End, Goto, database, AccountsTypeOK, Taken, NotFoundYet, OneSignIn, OAuthSteps
<1>3. RowsAreSettled'
  BY DEF VerifyScan, TokensOf, Move, End, Goto, database, AccountsTypeOK, RowsAreSettled, Settled, Past, Answers
<1>4. SignInHolds' /\ Exclusive'
  BY DEF VerifyScan, TokensOf, Move, End, Goto, database, AccountsTypeOK, SignInHolds, Exclusive, Locking
<1>5. Verifying' /\ Proven'
  BY DEF VerifyScan, TokensOf, Move, End, Goto, database, AccountsTypeOK, Taken, Verifying, Proven, RowsAreSettled, Settled, Past, Answers
<1>6. VerifiedNeverLost' /\ Links'
  BY DEF VerifyScan, TokensOf, Move, End, Goto, database, AccountsTypeOK, Taken, VerifiedNeverLost, Links
<1>7. SnapsAreOwn'
  BY DEF VerifyScan, TokensOf, Move, End, Goto, database, AccountsTypeOK, SnapsAreOwn, RowsAreSettled, Settled, Past, Answers
<1>8. UnverifiedHasToken' /\ Issues'
  BY DEF VerifyScan, TokensOf, Move, End, Goto, database, AccountsTypeOK, UnverifiedHasToken, TokensOf, Issues, RowsAreSettled, Settled, Past, Answers
<1>. QED
  BY <1>1, <1>2, <1>3, <1>4, <1>5, <1>6, <1>7, <1>8 DEF Inv

(* A verification that commits is of a user no sign-in holds. *)
LEMMA VerifyDeleteKeeps ==
  ASSUME Inv, NEW r \in Requests,
         VerifyDelete(r)
  PROVE  Inv'
<1>. USE DEF Inv
<1>1. AccountsTypeOK'
  BY DEF VerifyDelete, Move, End, Goto, database, AccountsTypeOK, Args, TxSteps, OAuthSteps, Answers
<1>2. Taken' /\ NotFoundYet' /\ OneSignIn'
  BY DEF VerifyDelete, Move, End, Goto, database, AccountsTypeOK, Taken, NotFoundYet, OneSignIn, OAuthSteps
<1>3. RowsAreSettled'
  BY DEF VerifyDelete, Move, End, Goto, database, AccountsTypeOK, RowsAreSettled, Settled, Past, Answers
<1>4. SignInHolds' /\ Exclusive'
  BY DEF VerifyDelete, Move, End, Goto, database, AccountsTypeOK, SignInHolds, Exclusive, Locking
<1>5. Verifying' /\ Proven'
  BY DEF VerifyDelete, Move, End, Goto, database, AccountsTypeOK, Taken, Verifying, Proven, RowsAreSettled, Settled, Past, Answers
<1>6. VerifiedNeverLost' /\ Links'
  BY DEF VerifyDelete, Move, End, Goto, database, AccountsTypeOK, Taken, VerifiedNeverLost, Links
<1>7. SnapsAreOwn'
  BY DEF VerifyDelete, Move, End, Goto, database, AccountsTypeOK, SnapsAreOwn, RowsAreSettled, Settled, Past, Answers
<1>8. UnverifiedHasToken' /\ Issues'
  BY DEF VerifyDelete, Move, End, Goto, database, AccountsTypeOK, UnverifiedHasToken, TokensOf, Issues, RowsAreSettled, Settled, Past, Answers, SnapsAreOwn
<1>. QED
  BY <1>1, <1>2, <1>3, <1>4, <1>5, <1>6, <1>7, <1>8 DEF Inv

(* A resend finds a user. *)
LEMMA ResendSelectKeeps ==
  ASSUME Inv, NEW r \in Requests,
         NEW u \in users,
         pc[r] = "resend_select",
         Move(r, "resend_scan"),
         found' = [found EXCEPT ![r] = u],
         UNCHANGED snap
  PROVE  Inv'
<1>. USE DEF Inv
<1>1. AccountsTypeOK'
  BY DEF Move, End, Goto, database, AccountsTypeOK, Args, TxSteps, OAuthSteps, Answers
<1>2. Taken' /\ NotFoundYet' /\ OneSignIn'
  BY DEF Move, End, Goto, database, AccountsTypeOK, Taken, NotFoundYet, OneSignIn, OAuthSteps
<1>3. RowsAreSettled'
  BY DEF Move, End, Goto, database, AccountsTypeOK, RowsAreSettled, Settled, Past, Answers
<1>4. SignInHolds' /\ Exclusive'
  BY DEF Move, End, Goto, database, AccountsTypeOK, SignInHolds, Exclusive, Locking
<1>5. Verifying' /\ Proven'
  BY DEF Move, End, Goto, database, AccountsTypeOK, Taken, Verifying, Proven, RowsAreSettled, Settled, Past, Answers
<1>6. VerifiedNeverLost' /\ Links'
  BY DEF Move, End, Goto, database, AccountsTypeOK, Taken, VerifiedNeverLost, Links
<1>7. SnapsAreOwn'
  BY DEF Move, End, Goto, database, AccountsTypeOK, SnapsAreOwn, RowsAreSettled, Settled, Past, Answers
<1>8. UnverifiedHasToken' /\ Issues'
  BY DEF Move, End, Goto, database, AccountsTypeOK, UnverifiedHasToken, TokensOf, Issues, RowsAreSettled, Settled, Past, Answers
<1>. QED
  BY <1>1, <1>2, <1>3, <1>4, <1>5, <1>6, <1>7, <1>8 DEF Inv

(* The rows a resend deletes are its user's. *)
LEMMA ResendScanKeeps ==
  ASSUME Inv, NEW r \in Requests,
         ResendScan(r)
  PROVE  Inv'
<1>. USE DEF Inv
<1>1. AccountsTypeOK'
  BY DEF ResendScan, TokensOf, Move, End, Goto, database, AccountsTypeOK, Args, TxSteps, OAuthSteps, Answers
<1>2. Taken' /\ NotFoundYet' /\ OneSignIn'
  BY DEF ResendScan, TokensOf, Move, End, Goto, database, AccountsTypeOK, Taken, NotFoundYet, OneSignIn, OAuthSteps
<1>3. RowsAreSettled'
  BY DEF ResendScan, TokensOf, Move, End, Goto, database, AccountsTypeOK, RowsAreSettled, Settled, Past, Answers
<1>4. SignInHolds' /\ Exclusive'
  BY DEF ResendScan, TokensOf, Move, End, Goto, database, AccountsTypeOK, SignInHolds, Exclusive, Locking
<1>5. Verifying' /\ Proven'
  BY DEF ResendScan, TokensOf, Move, End, Goto, database, AccountsTypeOK, Taken, Verifying, Proven, RowsAreSettled, Settled, Past, Answers
<1>6. VerifiedNeverLost' /\ Links'
  BY DEF ResendScan, TokensOf, Move, End, Goto, database, AccountsTypeOK, Taken, VerifiedNeverLost, Links
<1>7. SnapsAreOwn'
  BY DEF ResendScan, TokensOf, Move, End, Goto, database, AccountsTypeOK, SnapsAreOwn, RowsAreSettled, Settled, Past, Answers
<1>8. UnverifiedHasToken' /\ Issues'
  BY DEF ResendScan, TokensOf, Move, End, Goto, database, AccountsTypeOK, UnverifiedHasToken, TokensOf, Issues, RowsAreSettled, Settled, Past, Answers
<1>. QED
  BY <1>1, <1>2, <1>3, <1>4, <1>5, <1>6, <1>7, <1>8 DEF Inv

(* Fewer of them may be left. *)
LEMMA ResendDeleteKeeps ==
  ASSUME Inv, NEW r \in Requests,
         ResendDelete(r)
  PROVE  Inv'
<1>. USE DEF Inv
<1>1. AccountsTypeOK'
  BY DEF ResendDelete, Move, End, Goto, database, AccountsTypeOK, Args, TxSteps, OAuthSteps, Answers
<1>2. Taken' /\ NotFoundYet' /\ OneSignIn'
  BY DEF ResendDelete, Move, End, Goto, database, AccountsTypeOK, Taken, NotFoundYet, OneSignIn, OAuthSteps
<1>3. RowsAreSettled'
  BY DEF ResendDelete, Move, End, Goto, database, AccountsTypeOK, RowsAreSettled, Settled, Past, Answers
<1>4. SignInHolds' /\ Exclusive'
  BY DEF ResendDelete, Move, End, Goto, database, AccountsTypeOK, SignInHolds, Exclusive, Locking
<1>5. Verifying' /\ Proven'
  BY DEF ResendDelete, Move, End, Goto, database, AccountsTypeOK, Taken, Verifying, Proven, RowsAreSettled, Settled, Past, Answers
<1>6. VerifiedNeverLost' /\ Links'
  BY DEF ResendDelete, Move, End, Goto, database, AccountsTypeOK, Taken, VerifiedNeverLost, Links
<1>7. SnapsAreOwn'
  BY DEF ResendDelete, Move, End, Goto, database, AccountsTypeOK, SnapsAreOwn, RowsAreSettled, Settled, Past, Answers
<1>8. UnverifiedHasToken' /\ Issues'
  BY DEF ResendDelete, Move, End, Goto, database, AccountsTypeOK, UnverifiedHasToken, TokensOf, Issues, RowsAreSettled, Settled, Past, Answers
<1>. QED
  BY <1>1, <1>2, <1>3, <1>4, <1>5, <1>6, <1>7, <1>8 DEF Inv

(* A resend that commits leaves its user a token. *)
LEMMA ResendInsertKeeps ==
  ASSUME Inv, NEW r \in Requests,
         pc[r] = "resend_insert",
         found[r] \in users,
         ResendInsert(r),
         Goto(r, "mail"),
         tokens' = (tokens \ snap[r]) \cup {r},
         issued' = issued \cup {r},
         snap' = [snap EXCEPT ![r] = {}],
         UNCHANGED <<req, found, users, verified, linked, expired, mailed>>
  PROVE  Inv'
<1>. USE DEF Inv
<1>1. AccountsTypeOK'
  BY DEF Goto, AccountsTypeOK, Args, TxSteps, OAuthSteps, Answers
<1>2. Taken' /\ NotFoundYet' /\ OneSignIn'
  BY DEF Goto, AccountsTypeOK, Taken, NotFoundYet, OneSignIn, OAuthSteps
<1>3. RowsAreSettled'
  BY DEF Goto, AccountsTypeOK, RowsAreSettled, Settled, Past, Answers
<1>4. SignInHolds' /\ Exclusive'
  BY DEF Goto, AccountsTypeOK, SignInHolds, Exclusive, Locking
<1>5. Verifying' /\ Proven'
  BY DEF Goto, AccountsTypeOK, Taken, Verifying, Proven, RowsAreSettled, Settled, Past, Answers
<1>6. VerifiedNeverLost' /\ Links'
  BY DEF Goto, AccountsTypeOK, Taken, VerifiedNeverLost, Links
<1>7. SnapsAreOwn'
  BY DEF Goto, AccountsTypeOK, SnapsAreOwn, RowsAreSettled, Settled, Past, Answers
<1>8. UnverifiedHasToken' /\ Issues'
  BY DEF Goto, AccountsTypeOK, UnverifiedHasToken, TokensOf, Issues, RowsAreSettled, Settled, Past, Answers, SnapsAreOwn
<1>. QED
  BY <1>1, <1>2, <1>3, <1>4, <1>5, <1>6, <1>7, <1>8 DEF Inv

(* A link is sent after the commit of its token. *)
LEMMA MailKeeps ==
  ASSUME Inv, NEW r \in Requests,
         Mail(r)
  PROVE  Inv'
<1>. USE DEF Inv
<1>1. AccountsTypeOK'
  BY DEF Mail, Goto, database, AccountsTypeOK, Args, TxSteps, OAuthSteps, Answers
<1>2. Taken' /\ NotFoundYet' /\ OneSignIn'
  BY DEF Mail, Goto, database, AccountsTypeOK, Taken, NotFoundYet, OneSignIn, OAuthSteps
<1>3. RowsAreSettled'
  BY DEF Mail, Goto, database, AccountsTypeOK, RowsAreSettled, Settled, Past, Answers
<1>4. SignInHolds' /\ Exclusive'
  BY DEF Mail, Goto, database, AccountsTypeOK, SignInHolds, Exclusive, Locking
<1>5. Verifying' /\ Proven'
  BY DEF Mail, Goto, database, AccountsTypeOK, Taken, Verifying, Proven, RowsAreSettled, Settled, Past, Answers
<1>6. VerifiedNeverLost' /\ Links'
  BY DEF Mail, Goto, database, AccountsTypeOK, Taken, VerifiedNeverLost, Links
<1>7. SnapsAreOwn'
  BY DEF Mail, Goto, database, AccountsTypeOK, SnapsAreOwn, RowsAreSettled, Settled, Past, Answers
<1>8. UnverifiedHasToken' /\ Issues'
  BY DEF Mail, Goto, database, AccountsTypeOK, UnverifiedHasToken, TokensOf, Issues, RowsAreSettled, Settled, Past, Answers
<1>. QED
  BY <1>1, <1>2, <1>3, <1>4, <1>5, <1>6, <1>7, <1>8 DEF Inv

(* A sign-in whose Google account is not linked goes on. *)
LEMMA OAuthIdentityKeeps ==
  ASSUME Inv, NEW r \in Requests,
         pc[r] = "oauth_identity",
         Move(r, "oauth_lock"),
         UNCHANGED <<found, snap>>
  PROVE  Inv'
<1>. USE DEF Inv
<1>1. AccountsTypeOK'
  BY DEF Move, End, Goto, database, AccountsTypeOK, Args, TxSteps, OAuthSteps, Answers
<1>2. Taken' /\ NotFoundYet' /\ OneSignIn'
  BY DEF Move, End, Goto, database, AccountsTypeOK, Taken, NotFoundYet, OneSignIn, OAuthSteps
<1>3. RowsAreSettled'
  BY DEF Move, End, Goto, database, AccountsTypeOK, RowsAreSettled, Settled, Past, Answers
<1>4. SignInHolds' /\ Exclusive'
  BY DEF Move, End, Goto, database, AccountsTypeOK, SignInHolds, Exclusive, Locking
<1>5. Verifying' /\ Proven'
  BY DEF Move, End, Goto, database, AccountsTypeOK, Taken, Verifying, Proven, RowsAreSettled, Settled, Past, Answers
<1>6. VerifiedNeverLost' /\ Links'
  BY DEF Move, End, Goto, database, AccountsTypeOK, Taken, VerifiedNeverLost, Links
<1>7. SnapsAreOwn'
  BY DEF Move, End, Goto, database, AccountsTypeOK, SnapsAreOwn, RowsAreSettled, Settled, Past, Answers
<1>8. UnverifiedHasToken' /\ Issues'
  BY DEF Move, End, Goto, database, AccountsTypeOK, UnverifiedHasToken, TokensOf, Issues, RowsAreSettled, Settled, Past, Answers
<1>. QED
  BY <1>1, <1>2, <1>3, <1>4, <1>5, <1>6, <1>7, <1>8 DEF Inv

(* A sign-in whose address has no row inserts one. *)
LEMMA OAuthNoRowKeeps ==
  ASSUME Inv, NEW r \in Requests,
         pc[r] = "oauth_lock",
         Move(r, "oauth_insert"),
         UNCHANGED <<found, snap>>
  PROVE  Inv'
<1>. USE DEF Inv
<1>1. AccountsTypeOK'
  BY DEF Move, End, Goto, database, AccountsTypeOK, Args, TxSteps, OAuthSteps, Answers
<1>2. Taken' /\ NotFoundYet' /\ OneSignIn'
  BY DEF Move, End, Goto, database, AccountsTypeOK, Taken, NotFoundYet, OneSignIn, OAuthSteps
<1>3. RowsAreSettled'
  BY DEF Move, End, Goto, database, AccountsTypeOK, RowsAreSettled, Settled, Past, Answers
<1>4. SignInHolds' /\ Exclusive'
  BY NoneIsNew DEF Move, End, Goto, database, AccountsTypeOK, SignInHolds, Exclusive, Locking, NotFoundYet
<1>5. Verifying' /\ Proven'
  BY DEF Move, End, Goto, database, AccountsTypeOK, Taken, Verifying, Proven, RowsAreSettled, Settled, Past, Answers
<1>6. VerifiedNeverLost' /\ Links'
  BY DEF Move, End, Goto, database, AccountsTypeOK, Taken, VerifiedNeverLost, Links
<1>7. SnapsAreOwn'
  BY DEF Move, End, Goto, database, AccountsTypeOK, SnapsAreOwn, RowsAreSettled, Settled, Past, Answers
<1>8. UnverifiedHasToken' /\ Issues'
  BY DEF Move, End, Goto, database, AccountsTypeOK, UnverifiedHasToken, TokensOf, Issues, RowsAreSettled, Settled, Past, Answers
<1>. QED
  BY <1>1, <1>2, <1>3, <1>4, <1>5, <1>6, <1>7, <1>8 DEF Inv

(* A sign-in that locks a row knows whether it is verified. *)
LEMMA OAuthLockKeeps ==
  ASSUME Inv, NEW r \in Requests,
         pc[r] = "oauth_lock",
         NEW u \in users,
         ~LockedByVerify(u),
         Move(r, IF u \in verified THEN "oauth_link" ELSE "oauth_delete"),
         found' = [found EXCEPT ![r] = u],
         UNCHANGED snap
  PROVE  Inv'
<1>. USE DEF Inv
<1>1. AccountsTypeOK'
  BY DEF LockedByVerify, Move, End, Goto, database, AccountsTypeOK, Args, TxSteps, OAuthSteps, Answers
<1>2. Taken' /\ NotFoundYet' /\ OneSignIn'
  BY DEF LockedByVerify, Move, End, Goto, database, AccountsTypeOK, Taken, NotFoundYet, OneSignIn, OAuthSteps
<1>3. RowsAreSettled'
  BY DEF LockedByVerify, Move, End, Goto, database, AccountsTypeOK, RowsAreSettled, Settled, Past, Answers
<1>4. SignInHolds' /\ Exclusive'
  BY DEF LockedByVerify, Move, End, Goto, database, AccountsTypeOK, SignInHolds, Exclusive, Locking
<1>5. Verifying' /\ Proven'
  BY DEF LockedByVerify, Move, End, Goto, database, AccountsTypeOK, Taken, Verifying, Proven, RowsAreSettled, Settled, Past, Answers
<1>6. VerifiedNeverLost' /\ Links'
  BY DEF LockedByVerify, Move, End, Goto, database, AccountsTypeOK, Taken, VerifiedNeverLost, Links
<1>7. SnapsAreOwn'
  BY DEF LockedByVerify, Move, End, Goto, database, AccountsTypeOK, SnapsAreOwn, RowsAreSettled, Settled, Past, Answers
<1>8. UnverifiedHasToken' /\ Issues'
  BY DEF LockedByVerify, Move, End, Goto, database, AccountsTypeOK, UnverifiedHasToken, TokensOf, Issues, RowsAreSettled, Settled, Past, Answers
<1>. QED
  BY <1>1, <1>2, <1>3, <1>4, <1>5, <1>6, <1>7, <1>8 DEF Inv

(* A sign-in links the verified user it locked. *)
LEMMA OAuthLinkKeeps ==
  ASSUME Inv, NEW r \in Requests,
         OAuthLink(r)
  PROVE  Inv'
<1>. USE DEF Inv
<1>1. AccountsTypeOK'
  BY DEF OAuthLink, Goto, AccountsTypeOK, Args, TxSteps, OAuthSteps, Answers
<1>2. Taken' /\ NotFoundYet' /\ OneSignIn'
  BY DEF OAuthLink, Goto, AccountsTypeOK, Taken, NotFoundYet, OneSignIn, OAuthSteps
<1>3. RowsAreSettled'
  BY DEF OAuthLink, Goto, AccountsTypeOK, RowsAreSettled, Settled, Past, Answers
<1>4. SignInHolds' /\ Exclusive'
  BY DEF OAuthLink, Goto, AccountsTypeOK, SignInHolds, Exclusive, Locking
<1>5. Verifying' /\ Proven'
  BY DEF OAuthLink, Goto, AccountsTypeOK, Taken, Verifying, Proven, RowsAreSettled, Settled, Past, Answers
<1>6. VerifiedNeverLost' /\ Links'
  BY NoneIsNew DEF OAuthLink, Goto, AccountsTypeOK, Taken, VerifiedNeverLost, Links, SignInHolds, OAuthSteps
<1>7. SnapsAreOwn'
  BY DEF OAuthLink, Goto, AccountsTypeOK, SnapsAreOwn, RowsAreSettled, Settled, Past, Answers
<1>8. UnverifiedHasToken' /\ Issues'
  BY DEF OAuthLink, Goto, AccountsTypeOK, UnverifiedHasToken, TokensOf, Issues, RowsAreSettled, Settled, Past, Answers
<1>. QED
  BY <1>1, <1>2, <1>3, <1>4, <1>5, <1>6, <1>7, <1>8 DEF Inv

(* The row stays locked while the new one is inserted. *)
LEMMA OAuthDeleteKeeps ==
  ASSUME Inv, NEW r \in Requests,
         pc[r] = "oauth_delete",
         Move(r, "oauth_insert"),
         UNCHANGED <<found, snap>>
  PROVE  Inv'
<1>. USE DEF Inv
<1>1. AccountsTypeOK'
  BY DEF Move, End, Goto, database, AccountsTypeOK, Args, TxSteps, OAuthSteps, Answers
<1>2. Taken' /\ NotFoundYet' /\ OneSignIn'
  BY DEF Move, End, Goto, database, AccountsTypeOK, Taken, NotFoundYet, OneSignIn, OAuthSteps
<1>3. RowsAreSettled'
  BY DEF Move, End, Goto, database, AccountsTypeOK, RowsAreSettled, Settled, Past, Answers
<1>4. SignInHolds' /\ Exclusive'
  BY DEF Move, End, Goto, database, AccountsTypeOK, SignInHolds, Exclusive, Locking
<1>5. Verifying' /\ Proven'
  BY DEF Move, End, Goto, database, AccountsTypeOK, Taken, Verifying, Proven, RowsAreSettled, Settled, Past, Answers
<1>6. VerifiedNeverLost' /\ Links'
  BY DEF Move, End, Goto, database, AccountsTypeOK, Taken, VerifiedNeverLost, Links
<1>7. SnapsAreOwn'
  BY DEF Move, End, Goto, database, AccountsTypeOK, SnapsAreOwn, RowsAreSettled, Settled, Past, Answers
<1>8. UnverifiedHasToken' /\ Issues'
  BY DEF Move, End, Goto, database, AccountsTypeOK, UnverifiedHasToken, TokensOf, Issues, RowsAreSettled, Settled, Past, Answers
<1>. QED
  BY <1>1, <1>2, <1>3, <1>4, <1>5, <1>6, <1>7, <1>8 DEF Inv

(* A sign-in that commits deletes no verified user. *)
LEMMA OAuthInsertKeeps ==
  ASSUME Inv, NEW r \in Requests,
         pc[r] = "oauth_insert",
         Goto(r, "login"),
         users' = (users \ {found[r]}) \cup {r},
         verified' = verified \cup {r},
         linked' = [linked EXCEPT ![req[r].sub] = r],
         tokens' = {t \in tokens : found[t] # found[r]},
         UNCHANGED <<req, found, snap, issued, expired, mailed>>
  PROVE  Inv'
<1>. USE DEF Inv
<1>1. AccountsTypeOK'
  BY DEF Goto, AccountsTypeOK, Args, TxSteps, OAuthSteps, Answers
<1>2. Taken' /\ NotFoundYet' /\ OneSignIn'
  BY DEF Goto, AccountsTypeOK, Taken, NotFoundYet, OneSignIn, OAuthSteps
<1>3. RowsAreSettled'
  BY DEF Goto, AccountsTypeOK, RowsAreSettled, Settled, Past, Answers
<1>4. SignInHolds' /\ Exclusive'
  BY DEF Goto, AccountsTypeOK, SignInHolds, Exclusive, Locking, OneSignIn, OAuthSteps, RowsAreSettled, Settled, Past, Answers
<1>5. Verifying' /\ Proven'
  BY DEF Goto, AccountsTypeOK, Taken, Verifying, Proven, RowsAreSettled, Settled, Past, Answers, VerifiedNeverLost, OAuthSteps
<1>6. VerifiedNeverLost' /\ Links'
  BY NoneIsNew DEF Goto, AccountsTypeOK, Taken, VerifiedNeverLost, Links, SignInHolds, OAuthSteps
<1>7. SnapsAreOwn'
  BY DEF Goto, AccountsTypeOK, SnapsAreOwn, RowsAreSettled, Settled, Past, Answers
<1>8. UnverifiedHasToken' /\ Issues'
  BY DEF Goto, AccountsTypeOK, UnverifiedHasToken, TokensOf, Issues, RowsAreSettled, Settled, Past, Answers
<1>. QED
  BY <1>1, <1>2, <1>3, <1>4, <1>5, <1>6, <1>7, <1>8 DEF Inv

(* A token that expires disturbs nothing. *)
LEMMA ExpireKeeps ==
  ASSUME Inv, NEW r \in Requests,
         Expire(r)
  PROVE  Inv'
<1>. USE DEF Inv
<1>1. AccountsTypeOK'
  BY DEF Expire, database, AccountsTypeOK, Args, TxSteps, OAuthSteps, Answers
<1>2. Taken' /\ NotFoundYet' /\ OneSignIn'
  BY DEF Expire, database, AccountsTypeOK, Taken, NotFoundYet, OneSignIn, OAuthSteps
<1>3. RowsAreSettled'
  BY DEF Expire, database, AccountsTypeOK, RowsAreSettled, Settled, Past, Answers
<1>4. SignInHolds' /\ Exclusive'
  BY DEF Expire, database, AccountsTypeOK, SignInHolds, Exclusive, Locking
<1>5. Verifying' /\ Proven'
  BY DEF Expire, database, AccountsTypeOK, Taken, Verifying, Proven, RowsAreSettled, Settled, Past, Answers
<1>6. VerifiedNeverLost' /\ Links'
  BY DEF Expire, database, AccountsTypeOK, Taken, VerifiedNeverLost, Links
<1>7. SnapsAreOwn'
  BY DEF Expire, database, AccountsTypeOK, SnapsAreOwn, RowsAreSettled, Settled, Past, Answers
<1>8. UnverifiedHasToken' /\ Issues'
  BY DEF Expire, database, AccountsTypeOK, UnverifiedHasToken, TokensOf, Issues, RowsAreSettled, Settled, Past, Answers
<1>. QED
  BY <1>1, <1>2, <1>3, <1>4, <1>5, <1>6, <1>7, <1>8 DEF Inv

-----------------------------------------------------------------------------
(* Nothing is there at first. *)
LEMMA InitKeeps == Init => Inv
<1> SUFFICES ASSUME Init PROVE Inv
  OBVIOUS
<1>1. AccountsTypeOK /\ Taken /\ NotFoundYet /\ OneSignIn /\ SignInHolds /\ Exclusive
  BY DEF Init, AccountsTypeOK, Taken, NotFoundYet, OneSignIn, OAuthSteps, SignInHolds, Exclusive
<1>2. RowsAreSettled /\ Verifying /\ Proven /\ VerifiedNeverLost /\ Links
  BY DEF Init, RowsAreSettled, Verifying, Proven, VerifiedNeverLost, Links
<1>3. SnapsAreOwn /\ UnverifiedHasToken /\ Issues
  BY DEF Init, SnapsAreOwn, UnverifiedHasToken, Issues
<1>. QED
  BY <1>1, <1>2, <1>3 DEF Inv

(* The steps of a sign-up and of a verification, and the link sent. *)
LEMMA SignupVerifyKeep ==
  ASSUME Inv, NEW r \in Requests,
         \/ SignupSelect(r) \/ SignupInsert(r) \/ SignupToken(r)
         \/ VerifySelect(r) \/ VerifyUpdate(r) \/ VerifyScan(r) \/ VerifyDelete(r)
         \/ Mail(r)
  PROVE  Inv'
<1>1. CASE SignupSelect(r)
  BY <1>1, EndKeeps, SignupMoves DEF SignupSelect, Answers, TxSteps
<1>2. CASE SignupInsert(r)
  BY <1>2, EndKeeps, SignupMoves DEF SignupInsert, Answers, TxSteps
<1>3. CASE VerifySelect(r)
  <2>1. CASE req[r].token \in tokens \ expired
    BY <1>3, <2>1, VerifySelectKeeps DEF VerifySelect
  <2>2. CASE req[r].token \notin tokens \ expired
    BY <1>3, <2>2, EndKeeps DEF VerifySelect, Answers, TxSteps
  <2>. QED
    BY <2>1, <2>2
<1>. QED
  BY <1>1, <1>2, <1>3, SignupTokenKeeps, VerifyUpdateKeeps, VerifyScanKeeps, VerifyDeleteKeeps,
     MailKeeps

(* The steps of a resend. *)
LEMMA ResendKeeps ==
  ASSUME Inv, NEW r \in Requests,
         ResendSelect(r) \/ ResendScan(r) \/ ResendDelete(r) \/ ResendInsert(r)
  PROVE  Inv'
<1>1. CASE ResendSelect(r)
  <2>1. CASE End(r, "ok")
    BY <1>1, <2>1, EndKeeps DEF ResendSelect, Answers, TxSteps
  <2>2. ASSUME NEW u \in UserOf(EmailOf(r)) \ verified,
               Move(r, "resend_scan"), found' = [found EXCEPT ![r] = u], UNCHANGED snap
        PROVE  Inv'
    BY <1>1, <2>2, ResendSelectKeeps DEF ResendSelect, UserOf
  <2>. QED
    BY <1>1, <2>1, <2>2 DEF ResendSelect
<1>2. CASE ResendInsert(r)
  <2>1. CASE End(r, "error")
    BY <1>2, <2>1, EndKeeps DEF ResendInsert, Answers, TxSteps
  <2>2. CASE ~End(r, "error")
    BY <1>2, <2>2, ResendInsertKeeps DEF ResendInsert
  <2>. QED
    BY <2>1, <2>2
<1>. QED
  BY <1>1, <1>2, ResendScanKeeps, ResendDeleteKeeps

(* The steps of a Google sign-in. *)
LEMMA OAuthKeeps ==
  ASSUME Inv, NEW r \in Requests,
         \/ OAuthIdentity(r) \/ OAuthLock(r) \/ OAuthLink(r) \/ OAuthDelete(r) \/ OAuthInsert(r)
  PROVE  Inv'
<1>1. CASE OAuthIdentity(r)
  BY <1>1, EndKeeps, OAuthIdentityKeeps DEF OAuthIdentity, Answers, TxSteps, OAuthSteps
<1>2. CASE OAuthLock(r)
  <2>1. CASE Move(r, "oauth_insert") /\ UNCHANGED <<found, snap>>
    BY <1>2, <2>1, OAuthNoRowKeeps DEF OAuthLock
  <2>2. ASSUME NEW u \in UserOf(EmailOf(r)), ~LockedByVerify(u),
               Move(r, IF u \in verified THEN "oauth_link" ELSE "oauth_delete"),
               found' = [found EXCEPT ![r] = u], UNCHANGED snap
        PROVE  Inv'
    BY <1>2, <2>2, OAuthLockKeeps DEF OAuthLock, UserOf
  <2>. QED
    BY <1>2, <2>1, <2>2 DEF OAuthLock
<1>3. CASE OAuthDelete(r)
  BY <1>3, EndKeeps, OAuthDeleteKeeps DEF OAuthDelete, Answers, TxSteps, OAuthSteps
<1>4. CASE OAuthInsert(r)
  <2>1. CASE End(r, "error")
    BY <1>4, <2>1, EndKeeps DEF OAuthInsert, Answers, TxSteps, OAuthSteps
  <2>2. CASE ~End(r, "error")
    BY <1>4, <2>2, OAuthInsertKeeps DEF OAuthInsert
  <2>. QED
    BY <2>1, <2>2
<1>. QED
  BY <1>1, <1>2, <1>3, <1>4, OAuthLinkKeeps

(* Every step of the system. *)
LEMMA NextKeeps == Inv /\ [Next]_vars => Inv'
<1> SUFFICES ASSUME Inv, [Next]_vars PROVE Inv'
  OBVIOUS
<1>1. ASSUME NEW r \in Requests, Begin(r) PROVE Inv'
  BY <1>1, BeginKeeps
<1>2. ASSUME NEW r \in Requests, Step(r) PROVE Inv'
  <2>1. CASE DeadlockAbort(r)
    BY <2>1, EndKeeps DEF DeadlockAbort, Deadlocked, Answers, TxSteps, OAuthSteps
  <2>. QED
    BY <1>2, <2>1, SignupVerifyKeep, ResendKeeps, OAuthKeeps DEF Step
<1>3. ASSUME NEW r \in Requests, Lose(r) PROVE Inv'
  BY <1>3, EndKeeps DEF Lose, Answers
<1>4. ASSUME NEW t \in Requests, Expire(t) PROVE Inv'
  BY <1>4, ExpireKeeps
<1>5. CASE UNCHANGED vars
  BY <1>5 DEF vars, Inv, AccountsTypeOK, Taken, NotFoundYet, RowsAreSettled, Settled, OneSignIn,
     SignInHolds, Exclusive, Verifying, Proven, VerifiedNeverLost, Links, SnapsAreOwn,
     UnverifiedHasToken, TokensOf, Issues
<1>. QED
  BY <1>1, <1>2, <1>3, <1>4, <1>5 DEF Next

(* The inductive invariant holds. *)
LEMMA InvHolds == Spec => []Inv
  BY InitKeeps, NextKeeps, PTL DEF Spec

(***************************************************************************)
(* find_or_create_oauth_user deletes no account that was verified before   *)
(* it commits: for any number of requests, the row lock of its SELECT and  *)
(* of the verification's UPDATE order the two.                             *)
(***************************************************************************)
THEOREM VerifiedIsKept == Spec => []VerifiedNeverLost
<1>1. Inv => VerifiedNeverLost
  BY DEF Inv
<1>. QED
  BY <1>1, InvHolds, PTL

(***************************************************************************)
(* A Google account is linked to no account whose address was not proven,  *)
(* and a sign-in that was answered stays linked.                           *)
(***************************************************************************)
THEOREM NoTakeover == Spec => []LinkedIsProven
<1>1. Inv => LinkedIsProven
  BY DEF Inv, LinkedIsProven, Links, Proven, VerifiedNeverLost
<1>. QED
  BY <1>1, InvHolds, PTL

(***************************************************************************)
(* No race of resends, verifications and sign-ins leaves an unverified     *)
(* account without a token, and no link is sent before its token is        *)
(* committed.                                                              *)
(***************************************************************************)
THEOREM LinksCanWork == Spec => []LinksWork
<1>1. Inv => LinksWork
  BY DEF Inv, Issues, LinksWork, MailedAfterCommit
<1>. QED
  BY <1>1, InvHolds, PTL

\* Every variable of Accounts keeps its type.
THEOREM AccountsTypeCorrect == Spec => []AccountsTypeOK
<1>1. Inv => AccountsTypeOK
  BY DEF Inv
<1>. QED
  BY <1>1, InvHolds, PTL
=============================================================================
