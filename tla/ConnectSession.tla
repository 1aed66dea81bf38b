--------------------------- MODULE ConnectSession ---------------------------
(***************************************************************************)
(* Connect sessions of one workspace and the credentials they leave: OAuth *)
(* callbacks that complete a session (each a chain of a read, a code       *)
(* exchange and a READ COMMITTED transaction), the rotation of the keys    *)
(* that seal refresh tokens, and the operator's rewrap command, which      *)
(* works from a listing of all credentials.                                *)
(***************************************************************************)
EXTENDS Naturals, FiniteSets, MailboxOperationalState

CONSTANTS
    Sessions,      \* connect sessions
    Identities,    \* (tenantExternalId, mailboxExternalId) pairs
    GmailAccounts, \* accounts a user may choose on Google's page
    Callbacks,     \* OAuth callbacks, each with a code of its own
    KeyIds         \* ids of refresh token encryption keys, in the order they are made

OldMailbox == "old mailbox" \* connected before, perhaps by an older version
OldGrant == "old grant"
MailboxIds == Callbacks \cup {OldMailbox} \* a callback creates at most one
NoMailbox == "no mailbox"
NoKey == 0

ASSUME CallbacksAssumption == {OldMailbox, OldGrant, NoMailbox} \cap Callbacks = {}
ASSUME KeysAssumption == KeyIds \subseteq Nat \ {NoKey}
ASSUME OldMailboxAssumption == Identities # {} /\ GmailAccounts # {} \* whose the old mailbox is

VARIABLES
    session,    \* mailbox_connect_sessions
    mailbox,    \* mailboxes: a function on the ids there are
    credential, \* gmail_mailbox_credentials: a function on the same ids
    callback,   \* where every callback stands, and what it holds
    active,     \* the key that the API seals with
    ring,       \* the keys it can open with
    rewrap,     \* the rewrap command
    granted,    \* history: the callback whose connection a mailbox committed last
    lateSealed, \* history: mailboxes whose token was sealed before a rotation and stored after it
    reconnected \* history: mailboxes that reconnected after the command had listed them

keys == << active, ring >>
connectVars ==
    << session, mailbox, credential, callback, keys, rewrap, granted, lateSealed, reconnected >>

-----------------------------------------------------------------------------
(* refresh-token-cipher.ts: a stored token is plaintext, or an envelope that *)
(* names its key, or an older one that does not.                             *)

Plaintext == [ kid |-> NoKey, key |-> NoKey ]
Sealed(k) == [ kid |-> k, key |-> k ]
SealedWithoutKid(k) == [ kid |-> NoKey, key |-> k ]
StoredForms == {Plaintext} \cup { Sealed(k) : k \in KeyIds } \cup { SealedWithoutKid(k) : k \in KeyIds }

(* Inspection and rewrap take plaintext as it is; an envelope without a key  *)
(* id is tried with every key.                                               *)
CanOpen(stored, openKeys) ==
    stored = Plaintext \/ stored.key \in openKeys

(* Mutant: an envelope that names no key is left as it is. *)
NamesOldKey(stored, activeKey) == stored.kid \notin {activeKey, NoKey}

NeedsRewrap(stored, activeKey) == stored.kid # activeKey

(* Mutant: a credential under an older key is reported as unreadable. *)
NotCurrent(stored) == stored.kid # rewrap.active

Unreadable(stored) == ~CanOpen(stored, rewrap.ring)

-----------------------------------------------------------------------------

OldIdentity == CHOOSE i \in Identities : TRUE
OldAccount == CHOOSE g \in GmailAccounts : TRUE

NoSession == [ state |-> "none", identity |-> OldIdentity, mailbox |-> NoMailbox ]

Idle(at) == [ step |-> at, session |-> NoMailbox, account |-> NoMailbox,
              found |-> NoMailbox, sealed |-> Plaintext ]

NoRewrap == [ step |-> "idle", marks |-> FALSE, active |-> NoKey, ring |-> {},
              listed |-> << >>, unreadable |-> {} ]

Row(identity, account) ==
    [ identity |-> identity, account |-> account,
      ops |-> [ status |-> "active", syncState |-> "initializing", lastError |-> NoError ] ]

Credential(account, grant, stored) == [ account |-> account, grant |-> grant, stored |-> stored ]
CredentialRows ==
    [ account : GmailAccounts, grant : Callbacks \cup {OldGrant}, stored : StoredForms ]

ConnectTypeOK ==
    /\ session \in [ Sessions -> [ state : { "none", "open", "expired", "completed" },
                                   identity : Identities, mailbox : MailboxIds \cup {NoMailbox} ] ]
    /\ DOMAIN mailbox \subseteq MailboxIds /\ DOMAIN credential = DOMAIN mailbox
    /\ \A m \in DOMAIN mailbox :
         /\ mailbox[m].identity \in Identities /\ mailbox[m].account \in GmailAccounts
         /\ mailbox[m].ops \in OperationalState
         /\ credential[m] \in CredentialRows
    /\ \A k \in Callbacks :
         /\ callback[k].step \in { "idle", "exchanging", "completing", "storing", "dispatching",
                                   "over" }
         /\ callback[k].sealed \in StoredForms
    /\ active \in KeyIds /\ active \in ring /\ ring \subseteq KeyIds
    /\ rewrap.step \in { "idle", "running", "done" } /\ DOMAIN rewrap.listed \subseteq MailboxIds
    /\ granted \in [ DOMAIN mailbox -> Callbacks \cup {OldGrant} ]
    /\ lateSealed \subseteq MailboxIds /\ reconnected \subseteq MailboxIds

ConnectInit ==
    /\ session = [ s \in Sessions |-> NoSession ]
    /\ mailbox = [ m \in {OldMailbox} |-> Row(OldIdentity, OldAccount) ]
    /\ \E stored \in StoredForms :
         credential = [ m \in {OldMailbox} |-> Credential(OldAccount, OldGrant, stored) ]
    /\ callback = [ k \in Callbacks |-> Idle("idle") ]
    /\ active \in KeyIds /\ (\A k \in KeyIds : active <= k) /\ ring = {active}
    /\ rewrap = NoRewrap
    /\ granted = [ m \in {OldMailbox} |-> OldGrant ]
    /\ lateSealed = {} /\ reconnected = {}

-----------------------------------------------------------------------------
(* Sessions and callbacks. *)

CreateSession(s, i) ==
    /\ session[s].state = "none"
    /\ session' = [ session EXCEPT ![s].state = "open", ![s].identity = i ]
    /\ UNCHANGED << mailbox, credential, callback, keys, rewrap, granted, lateSealed, reconnected >>

(* Its fifteen minutes are over. *)
SessionExpires(s) ==
    /\ session[s].state = "open"
    /\ session' = [ session EXCEPT ![s].state = "expired" ]
    /\ UNCHANGED << mailbox, credential, callback, keys, rewrap, granted, lateSealed, reconnected >>

(* completeGmailMailboxConnectSession up to the exchange of the code: a      *)
(* session completed before is answered from its mailbox, which is           *)
(* dispatched again while it is not initialized.                             *)
ReceiveCallback(k, s) ==
    /\ callback[k].step = "idle"
    /\ session[s].state # "none"
    /\ callback' = [ callback EXCEPT ![k] =
         CASE session[s].state = "open"      -> [ Idle("exchanging") EXCEPT !.session = s ]
           [] session[s].state = "expired"   -> Idle("over")
           [] session[s].state = "completed" -> Idle("dispatching") ]
    /\ UNCHANGED << session, mailbox, credential, keys, rewrap, granted, lateSealed, reconnected >>

(* completeAuthorization, and the sealing of its refresh token.              *)
ExchangeCode(k, account) ==
    /\ callback[k].step = "exchanging"
    /\ callback' = [ callback EXCEPT ![k].step = "completing", ![k].account = account,
                                     ![k].sealed = Sealed(active) ]
    /\ UNCHANGED << session, mailbox, credential, keys, rewrap, granted, lateSealed, reconnected >>

Matches(identity, account) ==
    { m \in DOMAIN mailbox : mailbox[m].account = account \/ mailbox[m].identity = identity }

(* The reads of completeConnectSession: a session that was completed         *)
(* meanwhile answers its mailbox and drops the new token; else one mailbox   *)
(* of the account or of the identity is taken, whichever comes first.        *)
FindMailbox(k) ==
    /\ callback[k].step = "completing"
    /\ LET s == session[callback[k].session]
           found == Matches(s.identity, callback[k].account) IN
         IF s.mailbox # NoMailbox
         THEN callback' = [ callback EXCEPT ![k] = Idle("dispatching") ]
         ELSE \E m \in IF found = {} THEN {NoMailbox} ELSE found :
                callback' = [ callback EXCEPT ![k].step = "storing", ![k].found = m ]
    /\ UNCHANGED << session, mailbox, credential, keys, rewrap, granted, lateSealed, reconnected >>

CallbackFails(k) ==
    /\ callback[k].step \in { "exchanging", "completing", "storing" }
    /\ callback' = [ callback EXCEPT ![k] = Idle("over") ]
    /\ UNCHANGED << session, mailbox, credential, keys, rewrap, granted, lateSealed, reconnected >>

Set(f, x, v) == [ y \in DOMAIN f \cup {x} |-> IF y = x THEN v ELSE f[y] ]

StoreCredential(m, c) == Set(credential, m, c)

(* The writes and the commit.  The two unique constraints of mailboxes let   *)
(* them pass or fail; a concurrent completion of the same row waits at the   *)
(* row's update, so that row and credential are written together.            *)
StoreConnection(k) ==
    /\ callback[k].step = "storing"
    /\ LET c == callback[k]
           identity == session[c.session].identity
           m == IF c.found = NoMailbox THEN k ELSE c.found IN
       IF Matches(identity, c.account) \subseteq {m}
       THEN /\ mailbox' = Set(mailbox, m, Row(identity, c.account))
            /\ credential' = StoreCredential(m, Credential(c.account, k, c.sealed))
            /\ session' = [ session EXCEPT ![c.session].state = "completed",
                                           ![c.session].mailbox = m ]
            /\ callback' = [ callback EXCEPT ![k] = Idle("dispatching") ]
            /\ granted' = Set(granted, m, k)
            /\ lateSealed' = IF c.sealed = Sealed(active) THEN lateSealed \ {m} ELSE lateSealed \cup {m}
            /\ reconnected' = IF m \in DOMAIN rewrap.listed THEN reconnected \cup {m} ELSE reconnected
       ELSE /\ callback' = [ callback EXCEPT ![k] = Idle("over") ]
            /\ UNCHANGED << session, mailbox, credential, granted, lateSealed, reconnected >>
    /\ UNCHANGED << keys, rewrap >>

(* Whether it succeeds or fails, no row of the workspace depends on it. *)
DispatchFirstSync(k) ==
    /\ callback[k].step = "dispatching"
    /\ callback' = [ callback EXCEPT ![k] = Idle("over") ]
    /\ UNCHANGED << session, mailbox, credential, keys, rewrap, granted, lateSealed, reconnected >>

-----------------------------------------------------------------------------
(* Keys. *)

(* A deployment with a newer active key that keeps the keys it could open.   *)
RotateKey(k) ==
    /\ k > active
    /\ active' = k /\ ring' = ring \cup {k}
    /\ UNCHANGED << session, mailbox, credential, callback, rewrap, granted, lateSealed, reconnected >>

RetireKey(k) ==
    /\ k \in ring \ {active}
    /\ ring' = ring \ {k}
    /\ UNCHANGED << session, mailbox, credential, callback, active, rewrap, granted, lateSealed, reconnected >>

(* rewrapGmailMailboxCredentials lists every credential.                     *)
StartRewrap(marks) ==
    /\ rewrap.step = "idle"
    /\ rewrap' = [ step |-> "running", marks |-> marks, active |-> active, ring |-> ring,
                   listed |-> credential, unreadable |-> {} ]
    /\ reconnected' = {}
    /\ UNCHANGED << session, mailbox, credential, callback, keys, granted, lateSealed >>

(* Mutant: the update asks only for a credential of that mailbox. *)
IsStored(m) == m \in DOMAIN credential

(* The update's WHERE clause compares the ciphertext. *)
IsUnchanged(m) == credential[m] = rewrap.listed[m]

RewrapOne(m) ==
    /\ rewrap.step = "running"
    /\ m \in DOMAIN rewrap.listed
    /\ LET c == rewrap.listed[m]
           rest == [ y \in DOMAIN rewrap.listed \ {m} |-> rewrap.listed[y] ] IN
       IF Unreadable(c.stored)
       THEN /\ mailbox' = IF rewrap.marks
                          THEN [ mailbox EXCEPT ![m].ops = TransitionForCredentialUnreadable(@) ]
                          ELSE mailbox
            /\ rewrap' = [ rewrap EXCEPT !.listed = rest, !.unreadable = @ \cup {m} ]
            /\ UNCHANGED credential
       ELSE /\ credential' = IF NeedsRewrap(c.stored, rewrap.active) /\ IsUnchanged(m)
                             THEN [ credential EXCEPT ![m] = [ c EXCEPT !.stored = Sealed(rewrap.active) ] ]
                             ELSE credential
            /\ rewrap' = [ rewrap EXCEPT !.listed = rest ]
            /\ UNCHANGED mailbox
    /\ UNCHANGED << session, callback, keys, granted, lateSealed, reconnected >>

RewrapEnds ==
    /\ rewrap.step = "running" /\ DOMAIN rewrap.listed = {}
    /\ rewrap' = [ rewrap EXCEPT !.step = "done" ]
    /\ UNCHANGED << session, mailbox, credential, callback, keys, granted, lateSealed, reconnected >>

ConnectNext ==
    \/ \E s \in Sessions : SessionExpires(s) \/ \E i \in Identities : CreateSession(s, i)
    \/ \E k \in Callbacks :
         \/ \E s \in Sessions : ReceiveCallback(k, s)
         \/ \E g \in GmailAccounts : ExchangeCode(k, g)
         \/ FindMailbox(k) \/ StoreConnection(k) \/ DispatchFirstSync(k) \/ CallbackFails(k)
    \/ \E k \in KeyIds : RotateKey(k) \/ RetireKey(k)
    \/ \E marks \in BOOLEAN : StartRewrap(marks)
    \/ \E m \in MailboxIds : RewrapOne(m)
    \/ RewrapEnds

ConnectSpec == ConnectInit /\ [][ConnectNext]_connectVars

-----------------------------------------------------------------------------

(* The stored credential of a mailbox is the one of its latest connection    *)
(* and opens the account the row names, however completions of sessions and  *)
(* a rewrap that read the credential before them interleave.                 *)
CredentialIsLatest ==
    \A m \in DOMAIN mailbox :
        credential[m].grant = granted[m] /\ credential[m].account = mailbox[m].account

(* The rewrap command asks for a new consent only where the stored token     *)
(* cannot be opened, except for a mailbox that reconnected after it was      *)
(* listed: that one is marked by its old credential.                         *)
MarkedMailboxIsUnreadable ==
    \A m \in DOMAIN mailbox :
        mailbox[m].ops.status = "reconnect_required" =>
            ~CanOpen(credential[m].stored, rewrap.ring) \/ m \in reconnected

(* When the command has ended and its key is still the active one, every     *)
(* token is sealed with that key, so that the others can be retired: all but *)
(* those it reports as unreadable and those that a callback sealed before    *)
(* the rotation and stored after it.                                         *)
RewrapRetiresOldKeys ==
    rewrap.step = "done" /\ rewrap.active = active =>
        \A m \in DOMAIN credential :
            credential[m].stored = Sealed(active) \/ m \in rewrap.unreadable \cup lateSealed

=============================================================================
