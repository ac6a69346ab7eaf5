------------------------------ MODULE Accounts ------------------------------
(***************************************************************************)
(* Access requests, users, login links and browser sessions.               *)
(*                                                                         *)
(* A person asks for access, verifies the address with a mailed link, and  *)
(* the owner decides.  An approved (or directly granted) person has a user *)
(* row and is mailed a link; following it consumes the token and logs the  *)
(* browser in.  Consuming is a transaction of two statements, each waiting *)
(* for the row another transaction holds, and the session is saved after   *)
(* its commit.  The owner may revoke and reactivate a user at any time.    *)
(*                                                                         *)
(* A request of a logged-in browser reads the user when it arrives and     *)
(* runs to its end with what it read.  The store of express-session writes *)
(* a session again when its request changed it, also when the row was      *)
(* deleted meanwhile.                                                      *)
(***************************************************************************)
EXTENDS Naturals, Sequences

CONSTANTS
  Persons,    \* the e-mail addresses
  Clients,    \* the browsers, one request in flight in each
  Nobody,     \* no person
  MaxTokens   \* bound: login links sent

ASSUME AccountsAssumption ==
  /\ Nobody \notin Persons
  /\ MaxTokens \in Nat

VARIABLES
  request,     \* access_requests: [Persons -> [status, verified]]
  verifiable,  \* persons with a live access_verify token
  user,        \* users: [Persons -> {"none", "active", "revoked"}]
  tokens,      \* the auth_tokens of kind invite and login, in the order issued
  login,       \* [Clients -> a callback being handled, or NoLogin]
  session,     \* the session row: [Clients -> Persons \cup {Nobody}]
  handling,    \* whose request is in flight: [Clients -> Persons \cup {Nobody}]
  redeemed     \* history: [1..MaxTokens -> the clients a token logged in]

accountVars == <<request, verifiable, user, tokens, login, session, handling, redeemed>>

NoLogin == [token |-> 0, phase |-> "none"]

Request == [status : {"none", "unverified", "pending", "approved", "rejected"},
            verified : BOOLEAN]
Token == [person : Persons, state : {"live", "consumed", "expired"}]
Login == [token : 0..MaxTokens, phase : {"none", "taken", "committed"}]

AccountsTypeOK ==
  /\ request \in [Persons -> Request]
  /\ verifiable \subseteq Persons
  /\ user \in [Persons -> {"none", "active", "revoked"}]
  /\ tokens \in Seq(Token) /\ Len(tokens) <= MaxTokens
  /\ login \in [Clients -> Login]
  /\ session \in [Clients -> Persons \cup {Nobody}]
  /\ handling \in [Clients -> Persons \cup {Nobody}]
  /\ redeemed \in [1..MaxTokens -> SUBSET Clients]

AccountsInit ==
  /\ request = [p \in Persons |-> [status |-> "none", verified |-> FALSE]]
  /\ verifiable = {}
  /\ user = [p \in Persons |-> "none"]
  /\ tokens = << >>
  /\ login = [c \in Clients |-> NoLogin]
  /\ session = [c \in Clients |-> Nobody]
  /\ handling = [c \in Clients |-> Nobody]
  /\ redeemed = [n \in 1..MaxTokens |-> {}]

-----------------------------------------------------------------------------
(* Asking for access *)

\* A bug to catch: the rejected request of an address never verified goes to the owner.
Resubmitted_Pending(r) ==
  CASE r.status = "approved" -> r
    [] r.status = "rejected" -> [r EXCEPT !.status = "pending"]
    [] OTHER -> [status |-> "unverified", verified |-> FALSE]

\* A new request, or the same address again: what was approved stays approved
\* and what was verified stays verified.
Resubmitted(r) ==
  CASE r.status = "approved" -> r
    [] r.status # "approved" /\ r.verified -> [r EXCEPT !.status = "pending"]
    [] OTHER -> [status |-> "unverified", verified |-> FALSE]

\* The server may die before it has stored the link.
CreateAccessRequest(p) ==
  LET r == Resubmitted(request[p]) IN
  /\ request' = [request EXCEPT ![p] = r]
  /\ \/ r.status = "unverified" /\ verifiable' = verifiable \cup {p}
     \/ verifiable' = verifiable
  /\ UNCHANGED <<user, tokens, login, session, handling, redeemed>>

Verified(r) ==
  [status |-> IF r.status = "unverified" THEN "pending" ELSE r.status, verified |-> TRUE]

\* Another verification link may still be live.
VerifyAccessRequest(p) ==
  /\ p \in verifiable
  /\ \/ verifiable' = verifiable \ {p}
     \/ verifiable' = verifiable
  /\ request' = [request EXCEPT ![p] = Verified(@)]
  /\ UNCHANGED <<user, tokens, login, session, handling, redeemed>>

VerificationsExpire(p) ==
  /\ verifiable' = verifiable \ {p}
  /\ UNCHANGED <<request, user, tokens, login, session, handling, redeemed>>

-----------------------------------------------------------------------------
(* The owner *)

Issue(p) ==
  /\ Len(tokens) < MaxTokens
  /\ tokens' = Append(tokens, [person |-> p, state |-> "live"])

\* createOrReactivatePgViewer and an invitation, in the caller's transaction.
Admit(p) ==
  /\ user' = [user EXCEPT ![p] = "active"]
  /\ Issue(p)

ApproveAccessRequest(p) ==
  /\ request[p].status # "none"
  /\ request[p].verified
  /\ request' = [request EXCEPT ![p].status = "approved"]
  /\ Admit(p)
  /\ UNCHANGED <<verifiable, login, session, handling, redeemed>>

RejectAccessRequest(p) ==
  /\ request[p].status # "none"
  /\ request' = [request EXCEPT ![p].status = "rejected"]
  /\ UNCHANGED <<verifiable, user, tokens, login, session, handling, redeemed>>

GrantUserAccess(p) ==
  /\ Admit(p)
  /\ UNCHANGED <<request, verifiable, login, session, handling, redeemed>>

\* The session rows of the user go with the status, in one transaction.
Revoke(p) ==
  /\ user[p] # "none"
  /\ user' = [user EXCEPT ![p] = "revoked"]
  /\ session' = [c \in Clients |-> IF session[c] = p THEN Nobody ELSE session[c]]
  /\ UNCHANGED <<request, verifiable, tokens, login, handling, redeemed>>

Reactivate(p) ==
  /\ user[p] # "none"
  /\ user' = [user EXCEPT ![p] = "active"]
  /\ UNCHANGED <<request, verifiable, tokens, login, session, handling, redeemed>>

\* requestEmailLogin, and the owner's resent invitation.
SendLink(p) ==
  /\ user[p] = "active"
  /\ Issue(p)
  /\ UNCHANGED <<request, verifiable, user, login, session, handling, redeemed>>

ExpireToken(n) ==
  /\ tokens[n].state = "live"
  /\ \A c \in Clients : login[c].phase = "taken" => login[c].token # n
  /\ tokens' = [tokens EXCEPT ![n].state = "expired"]
  /\ UNCHANGED <<request, verifiable, user, login, session, handling, redeemed>>

-----------------------------------------------------------------------------
(* POST /auth/email/callback *)

\* A bug to catch: the token is looked up first and marked later: two callbacks may find it live.
TakeToken_Unlocked(c, n) ==
  /\ login[c] = NoLogin
  /\ tokens[n].state = "live"
  /\ login' = [login EXCEPT ![c] = [token |-> n, phase |-> "taken"]]
  /\ UNCHANGED <<request, verifiable, user, tokens, session, handling, redeemed>>

\* The first statement finds the token live, and holds its row.
TakeToken(c, n) ==
  /\ login[c] = NoLogin
  /\ tokens[n].state = "live"
  /\ \A d \in Clients : login[d].phase = "taken" => login[d].token # n
  /\ login' = [login EXCEPT ![c] = [token |-> n, phase |-> "taken"]]
  /\ UNCHANGED <<request, verifiable, user, tokens, session, handling, redeemed>>

\* The second statement finds the user active: commit.
LoginUser(c) ==
  LET n == login[c].token IN
  /\ login[c].phase = "taken"
  /\ user[tokens[n].person] = "active"
  /\ tokens' = [tokens EXCEPT ![n].state = "consumed"]
  /\ login' = [login EXCEPT ![c].phase = "committed"]
  /\ redeemed' = [redeemed EXCEPT ![n] = @ \cup {c}]
  /\ UNCHANGED <<request, verifiable, user, session, handling>>

\* It does not, or fails, or the server dies: rollback, and the token is live.
LoginRollsBack(c) ==
  /\ login[c].phase = "taken"
  /\ login' = [login EXCEPT ![c] = NoLogin]
  /\ UNCHANGED <<request, verifiable, user, tokens, session, handling, redeemed>>

\* req.login: a new session replaces the browser's old one.
SaveSession(c) ==
  /\ login[c].phase = "committed"
  /\ session' = [session EXCEPT ![c] = tokens[login[c].token].person]
  /\ login' = [login EXCEPT ![c] = NoLogin]
  /\ UNCHANGED <<request, verifiable, user, tokens, handling, redeemed>>

\* req.login fails, or the server dies, before or after the old session went.
LoginLost(c) ==
  /\ login[c].phase = "committed"
  /\ session' \in {session, [session EXCEPT ![c] = Nobody]}
  /\ login' = [login EXCEPT ![c] = NoLogin]
  /\ UNCHANGED <<request, verifiable, user, tokens, handling, redeemed>>

-----------------------------------------------------------------------------
(* Requests of a logged-in browser *)

\* A bug to catch: requireUser trusts the session.
Authenticate_Trusting(c) ==
  /\ handling[c] = Nobody /\ session[c] # Nobody
  /\ handling' = [handling EXCEPT ![c] = session[c]]
  /\ UNCHANGED <<request, verifiable, user, tokens, login, session, redeemed>>

\* deserializeUser reads the user, requireUser lets an active one through.
Authenticate(c) ==
  /\ handling[c] = Nobody /\ session[c] # Nobody
  /\ user[session[c]] = "active"
  /\ handling' = [handling EXCEPT ![c] = session[c]]
  /\ UNCHANGED <<request, verifiable, user, tokens, login, session, redeemed>>

\* A revoked user gets 403 and loses the session.
Forbid(c) ==
  /\ handling[c] = Nobody /\ session[c] # Nobody
  /\ user[session[c]] = "revoked"
  /\ session' = [session EXCEPT ![c] = Nobody]
  /\ UNCHANGED <<request, verifiable, user, tokens, login, handling, redeemed>>

\* The session is saved again when the request put a CSRF token into it.
FinishRequest(c) ==
  /\ handling[c] # Nobody
  /\ \/ session' = session
     \/ session[c] = Nobody /\ session' = [session EXCEPT ![c] = handling[c]]
  /\ handling' = [handling EXCEPT ![c] = Nobody]
  /\ UNCHANGED <<request, verifiable, user, tokens, login, redeemed>>

\* POST /auth/logout destroys the session it came with.
Logout(c) ==
  /\ handling[c] # Nobody
  /\ session' = [session EXCEPT ![c] = IF @ = handling[c] THEN Nobody ELSE @]
  /\ handling' = [handling EXCEPT ![c] = Nobody]
  /\ UNCHANGED <<request, verifiable, user, tokens, login, redeemed>>

\* Two weeks without a request.
SessionExpires(c) ==
  /\ session[c] # Nobody
  /\ session' = [session EXCEPT ![c] = Nobody]
  /\ UNCHANGED <<request, verifiable, user, tokens, login, handling, redeemed>>

\* What a crash of the server loses: transactions roll back.
ServerLoses ==
  /\ login' = [c \in Clients |-> NoLogin]
  /\ handling' = [c \in Clients |-> Nobody]
  /\ UNCHANGED <<request, verifiable, user, tokens, session, redeemed>>

AccountsNext ==
  \/ \E p \in Persons :
       \/ CreateAccessRequest(p) \/ VerifyAccessRequest(p) \/ VerificationsExpire(p)
       \/ ApproveAccessRequest(p) \/ RejectAccessRequest(p) \/ GrantUserAccess(p)
       \/ Revoke(p) \/ Reactivate(p) \/ SendLink(p)
  \/ \E n \in 1..Len(tokens) :
       \/ ExpireToken(n)
       \/ \E c \in Clients : TakeToken(c, n)
  \/ \E c \in Clients :
       \/ LoginUser(c) \/ LoginRollsBack(c) \/ SaveSession(c) \/ LoginLost(c)
       \/ Authenticate(c) \/ Forbid(c) \/ FinishRequest(c)
       \/ Logout(c) \/ SessionExpires(c)
  \/ ServerLoses

-----------------------------------------------------------------------------

\* The owner is only asked about, and only approves, addresses that were
\* verified, whatever sequence of resubmissions, late verification links and
\* rejections led there (createAccessRequest, verifyAccessRequestToken).
OwnerSeesVerified ==
  \A p \in Persons :
    /\ request[p].status \in {"pending", "approved"} => request[p].verified
    /\ request[p].status \in {"none", "unverified"} => ~request[p].verified

\* A link logs in one browser at most, and whoever has a session, or a request
\* in flight, once followed a link sent to that person: no race of callbacks,
\* rollback, revocation or late save makes a session out of nothing.
LoginsAreEarned ==
  /\ \A n \in 1..MaxTokens : \A c, d \in redeemed[n] : c = d
  /\ \A c \in Clients :
       \A p \in {session[c], handling[c]} \ {Nobody} :
         \E n \in 1..Len(tokens) : tokens[n].person = p /\ c \in redeemed[n]
=============================================================================
