------------------------ MODULE PushDelivery_proofs ------------------------
(***************************************************************************)
(* Proofs about accounts and push delivery, for any persons, browsers,     *)
(* links, devices and triggers: the types, that the owner is only asked    *)
(* about verified addresses, that every session was earned by a link of    *)
(* its own, that a device gets a message once while its row lives, and     *)
(* that the delivery table is true.                                        *)
(*                                                                         *)
(* LoginsAreEarned is not inductive: a callback between its two statements *)
(* must hold a live link alone, one between commit and save must be among  *)
(* those the link logged in, and a link that logged somebody in must be    *)
(* consumed (LinksHold).  SentOnce and LedgerIsHonest need what is known   *)
(* of the delivery the worker is at (SendingIsClaimed).                    *)
(***************************************************************************)
EXTENDS PushDelivery, TLAPS

LinksHold ==
  /\ \A c \in Clients : login[c].phase # "none" => login[c].token \in 1..Len(tokens)
  /\ \A c \in Clients : login[c].phase = "taken" =>
       /\ tokens[login[c].token].state = "live"
       /\ \A d \in Clients :
            login[d].phase = "taken" /\ login[d].token = login[c].token => c = d
  /\ \A c \in Clients : login[c].phase = "committed" => c \in redeemed[login[c].token]
  /\ \A n \in 1..MaxTokens :
       redeemed[n] # {} => n \in 1..Len(tokens) /\ tokens[n].state = "consumed"

\* Verification links are sent for requests.
LinkIsAsked == \A p \in verifiable : request[p].status # "none"

AccountsInv == AccountsTypeOK /\ LinkIsAsked /\ OwnerSeesVerified /\ LinksHold /\ LoginsAreEarned

EnabledIsOwned == \A d \in Devices : subs[d].enabled => subs[d].owner \in Persons

SendingIsClaimed ==
  sending # Idle =>
    LET pair == sending.pair IN
    /\ deliveries[pair] # "none"
    /\ sending.phase = "claimed" => deliveries[pair] = "claimed" /\ received[pair] = 0
    /\ sending.phase = "accepted" => received[pair] = 1
    /\ sending.phase = "sentMarked" => received[pair] = 1

IInv == TypeOK /\ AccountsInv /\ EnabledIsOwned /\ SendingIsClaimed /\ SentOnce /\ LedgerIsHonest

-----------------------------------------------------------------------------
(* The accounts *)

LEMMA AccountsStart == AccountsInit => AccountsInv
BY AccountsAssumption
   DEF AccountsInit, AccountsInv, AccountsTypeOK, OwnerSeesVerified, LinkIsAsked, LinksHold,
       LoginsAreEarned, NoLogin, Login, Request

\* What concerns logins reads these variables only.
LEMMA LoginsUntouched ==
  ASSUME LinksHold, LoginsAreEarned,
         UNCHANGED <<tokens, login, session, handling, redeemed>>
  PROVE  LinksHold' /\ LoginsAreEarned'
BY DEF LinksHold, LoginsAreEarned

LEMMA RequestsKeep ==
  ASSUME AccountsInv, NEW p \in Persons,
         \/ CreateAccessRequest(p) \/ VerifyAccessRequest(p) \/ VerificationsExpire(p)
         \/ RejectAccessRequest(p)
  PROVE  AccountsInv'
<1>1. request[p] \in Request
  BY DEF AccountsInv, AccountsTypeOK
<1> DEFINE r == request[p]
<1>2. /\ Resubmitted(r) \in Request /\ Verified(r) \in Request
      /\ [r EXCEPT !.status = "rejected"] \in Request
  BY <1>1 DEF Resubmitted, Verified, Request
<1>3. AccountsTypeOK'
  <2>1. request' \in [Persons -> Request]
    BY <1>1, <1>2 DEF AccountsInv, AccountsTypeOK, CreateAccessRequest, VerifyAccessRequest,
       VerificationsExpire, RejectAccessRequest
  <2>2. verifiable' \subseteq Persons
    BY DEF AccountsInv, AccountsTypeOK, CreateAccessRequest, VerifyAccessRequest,
       VerificationsExpire, RejectAccessRequest
  <2> QED
    BY <2>1, <2>2 DEF AccountsInv, AccountsTypeOK, CreateAccessRequest, VerifyAccessRequest,
       VerificationsExpire, RejectAccessRequest
<1>4. OwnerSeesVerified'
  <2>0. /\ r.status \in {"pending", "approved"} => r.verified
        /\ r.status \in {"none", "unverified"} => ~r.verified
    BY DEF AccountsInv, OwnerSeesVerified
  <2>1. /\ Resubmitted(r).status \in {"pending", "approved"} => Resubmitted(r).verified
        /\ Resubmitted(r).status \in {"none", "unverified"} => ~Resubmitted(r).verified
    BY <1>1, <2>0 DEF Resubmitted, Request
  <2>2. r.status # "none" => Verified(r).status \notin {"none", "unverified"}
    BY <1>1 DEF Verified, Request
  <2>3. Verified(r).verified
    BY DEF Verified
  <2>4. [r EXCEPT !.status = "rejected"].status = "rejected"
    BY <1>1 DEF Request
  <2>5. CASE CreateAccessRequest(p)
    BY <2>1, <2>5 DEF AccountsInv, AccountsTypeOK, OwnerSeesVerified, CreateAccessRequest
  <2>6. CASE VerifyAccessRequest(p)
    <3>1. r.status # "none" /\ request' = [request EXCEPT ![p] = Verified(r)]
      BY <2>6 DEF AccountsInv, LinkIsAsked, VerifyAccessRequest
    <3> QED
      BY <2>2, <2>3, <3>1 DEF AccountsInv, AccountsTypeOK, OwnerSeesVerified
  <2>7. CASE RejectAccessRequest(p)
    <3>1. request' = [request EXCEPT ![p] = [r EXCEPT !.status = "rejected"]]
      BY <2>7 DEF AccountsInv, AccountsTypeOK, RejectAccessRequest
    <3> QED
      BY <2>4, <3>1 DEF AccountsInv, AccountsTypeOK, OwnerSeesVerified
  <2>8. CASE VerificationsExpire(p)
    BY <2>8 DEF AccountsInv, OwnerSeesVerified, VerificationsExpire
  <2> QED
    BY <2>5, <2>6, <2>7, <2>8
<1>6. LinkIsAsked'
  <2>1. Resubmitted(r).status # "none" \/ r.status = "approved"
    BY <1>1 DEF Resubmitted, Request
  <2>2. r.status # "none" => Verified(r).status # "none" /\ Resubmitted(r).status # "none"
    BY <1>1 DEF Resubmitted, Verified, Request
  <2>3. [r EXCEPT !.status = "rejected"].status = "rejected"
    BY <1>1 DEF Request
  <2> QED
    BY <2>1, <2>2, <2>3 DEF AccountsInv, AccountsTypeOK, LinkIsAsked, CreateAccessRequest, VerifyAccessRequest,
       VerificationsExpire, RejectAccessRequest
<1>5. UNCHANGED <<tokens, login, session, handling, redeemed>>
  BY DEF CreateAccessRequest, VerifyAccessRequest, VerificationsExpire, RejectAccessRequest
<1> QED
  BY <1>3, <1>4, <1>5, <1>6, LoginsUntouched DEF AccountsInv

\* A new link disturbs none of the old ones.
LEMMA IssueKeeps ==
  ASSUME AccountsInv, NEW p \in Persons, Issue(p),
         UNCHANGED <<login, session, handling, redeemed>>
  PROVE  /\ tokens' \in Seq(Token) /\ Len(tokens') <= MaxTokens
         /\ LinksHold' /\ LoginsAreEarned'
<1>1. tokens \in Seq(Token) /\ [person |-> p, state |-> "live"] \in Token
  BY DEF AccountsInv, AccountsTypeOK, Token
<1>2. /\ tokens' \in Seq(Token) /\ Len(tokens') = Len(tokens) + 1
      /\ \A n \in 1..Len(tokens) : tokens'[n] = tokens[n] /\ n \in 1..Len(tokens')
  BY <1>1 DEF Issue
<1>3. Len(tokens') <= MaxTokens
  BY <1>1, <1>2, AccountsAssumption DEF Issue
<1>4. LinksHold'
  BY <1>2 DEF AccountsInv, LinksHold
<1>5. LoginsAreEarned'
  <2>1. \A n \in 1..MaxTokens : \A c, d \in redeemed'[n] : c = d
    BY DEF AccountsInv, LoginsAreEarned
  <2>2. ASSUME NEW c \in Clients, NEW q \in {session'[c], handling'[c]} \ {Nobody}
        PROVE  \E n \in 1..Len(tokens') : tokens'[n].person = q /\ c \in redeemed'[n]
    <3>1. PICK n \in 1..Len(tokens) : tokens[n].person = q /\ c \in redeemed[n]
      BY <2>2 DEF AccountsInv, LoginsAreEarned
    <3> QED
      BY <1>2, <3>1
  <2> QED
    BY <2>1, <2>2 DEF LoginsAreEarned
<1> QED
  BY <1>2, <1>3, <1>4, <1>5

LEMMA InvitationsKeep ==
  ASSUME AccountsInv, NEW p \in Persons,
         ApproveAccessRequest(p) \/ GrantUserAccess(p) \/ SendLink(p)
  PROVE  AccountsInv'
<1>1. /\ tokens' \in Seq(Token) /\ Len(tokens') <= MaxTokens
      /\ LinksHold' /\ LoginsAreEarned'
  BY IssueKeeps DEF ApproveAccessRequest, GrantUserAccess, SendLink, Admit
<1>2. request' \in [Persons -> Request] /\ OwnerSeesVerified' /\ LinkIsAsked'
  <2>1. request[p] \in Request
    BY DEF AccountsInv, AccountsTypeOK
  <2>2. /\ [request[p] EXCEPT !.status = "approved"] \in Request
        /\ [request[p] EXCEPT !.status = "approved"].status = "approved"
        /\ [request[p] EXCEPT !.status = "approved"].verified = request[p].verified
    BY <2>1 DEF Request
  <2>3. CASE ApproveAccessRequest(p)
    BY <2>2, <2>3 DEF AccountsInv, AccountsTypeOK, OwnerSeesVerified, LinkIsAsked, ApproveAccessRequest
  <2>4. CASE GrantUserAccess(p) \/ SendLink(p)
    BY <2>4 DEF AccountsInv, AccountsTypeOK, OwnerSeesVerified, LinkIsAsked, GrantUserAccess, SendLink
  <2> QED
    BY <2>3, <2>4
<1>3. user' \in [Persons -> {"none", "active", "revoked"}]
  BY DEF AccountsInv, AccountsTypeOK, ApproveAccessRequest, GrantUserAccess, SendLink, Admit
<1>4. UNCHANGED <<verifiable, login, session, handling, redeemed>>
  BY DEF ApproveAccessRequest, GrantUserAccess, SendLink
<1> QED
  BY <1>1, <1>2, <1>3, <1>4 DEF AccountsInv, AccountsTypeOK

LEMMA StatusKeeps ==
  ASSUME AccountsInv, NEW p \in Persons, Revoke(p) \/ Reactivate(p)
  PROVE  AccountsInv'
<1>1. AccountsTypeOK' /\ OwnerSeesVerified' /\ LinkIsAsked'
  BY DEF AccountsInv, AccountsTypeOK, OwnerSeesVerified, LinkIsAsked, Revoke, Reactivate
<1>2. UNCHANGED <<tokens, login, handling, redeemed>>
  BY DEF Revoke, Reactivate
<1>3. \A c \in Clients : session'[c] \in {session[c], Nobody}
  BY DEF Revoke, Reactivate
<1>4. LinksHold'
  BY <1>2 DEF AccountsInv, LinksHold
<1>5. LoginsAreEarned'
  <2>1. ASSUME NEW c \in Clients, NEW q \in {session'[c], handling'[c]} \ {Nobody}
        PROVE  \E n \in 1..Len(tokens) : tokens[n].person = q /\ c \in redeemed[n]
    <3>1. q \in {session[c], handling[c]} \ {Nobody}
      BY <1>2, <1>3, <2>1
    <3> QED
      BY <3>1 DEF AccountsInv, LoginsAreEarned
  <2> QED
    BY <1>2, <2>1 DEF AccountsInv, LoginsAreEarned
<1> QED
  BY <1>1, <1>4, <1>5 DEF AccountsInv

LEMMA ExpireTokenKeeps ==
  ASSUME AccountsInv, NEW n \in 1..Len(tokens), ExpireToken(n)
  PROVE  AccountsInv'
<1>1. /\ tokens \in Seq(Token) /\ tokens[n] \in Token
      /\ tokens' = [tokens EXCEPT ![n].state = "expired"]
  BY DEF AccountsInv, AccountsTypeOK, ExpireToken
<1>2. /\ tokens' \in Seq(Token) /\ Len(tokens') = Len(tokens)
      /\ \A m \in 1..Len(tokens) :
           tokens'[m].person = tokens[m].person /\ (m # n => tokens'[m] = tokens[m])
  BY <1>1 DEF Token
<1>3. AccountsTypeOK' /\ OwnerSeesVerified' /\ LinkIsAsked'
  BY <1>2 DEF AccountsInv, AccountsTypeOK, OwnerSeesVerified, LinkIsAsked, ExpireToken
<1>4. LinksHold'
  BY <1>2 DEF AccountsInv, LinksHold, ExpireToken
<1>5. LoginsAreEarned'
  BY <1>2 DEF AccountsInv, LoginsAreEarned, ExpireToken
<1> QED
  BY <1>3, <1>4, <1>5 DEF AccountsInv

\* Sessions and requests stay earned as long as new ones are somebody's already.
LEMMA BrowsersKeep ==
  ASSUME AccountsInv, NEW c \in Clients,
         \/ Authenticate(c) \/ Forbid(c) \/ FinishRequest(c) \/ Logout(c)
         \/ SessionExpires(c)
  PROVE  AccountsInv'
<1>1. AccountsTypeOK' /\ OwnerSeesVerified' /\ LinkIsAsked'
  BY DEF AccountsInv, AccountsTypeOK, OwnerSeesVerified, LinkIsAsked, Authenticate, Forbid,
     FinishRequest, Logout, SessionExpires
<1>2. UNCHANGED <<tokens, login, redeemed>>
  BY DEF Authenticate, Forbid, FinishRequest, Logout, SessionExpires
<1>3. ASSUME NEW d \in Clients
      PROVE  {session'[d], handling'[d]} \subseteq {session[d], handling[d], Nobody}
  BY DEF AccountsInv, AccountsTypeOK, Authenticate, Forbid, FinishRequest, Logout, SessionExpires
<1>4. LinksHold'
  BY <1>2 DEF AccountsInv, LinksHold
<1>5. LoginsAreEarned'
  <2>1. ASSUME NEW d \in Clients, NEW q \in {session'[d], handling'[d]} \ {Nobody}
        PROVE  \E n \in 1..Len(tokens) : tokens[n].person = q /\ d \in redeemed[n]
    <3>1. q \in {session[d], handling[d]} \ {Nobody}
      BY <1>3, <2>1
    <3> QED
      BY <3>1 DEF AccountsInv, LoginsAreEarned
  <2> QED
    BY <1>2, <2>1 DEF AccountsInv, LoginsAreEarned
<1> QED
  BY <1>1, <1>4, <1>5 DEF AccountsInv

\* The first statement takes a live link that nobody holds.
LEMMA TakeTokenKeeps ==
  ASSUME AccountsInv, NEW c \in Clients, NEW n \in 1..Len(tokens), TakeToken(c, n)
  PROVE  AccountsInv'
<1>1. /\ n \in 0..MaxTokens
      /\ login' = [login EXCEPT ![c] = [token |-> n, phase |-> "taken"]]
  BY AccountsAssumption DEF AccountsInv, AccountsTypeOK, TakeToken
<1>2. AccountsTypeOK' /\ OwnerSeesVerified' /\ LinkIsAsked'
  BY <1>1 DEF AccountsInv, AccountsTypeOK, OwnerSeesVerified, LinkIsAsked, TakeToken, Login
<1>3. /\ login'[c].token = n /\ login'[c].phase = "taken"
      /\ \A d \in Clients : d # c => login'[d] = login[d]
  BY <1>1 DEF AccountsInv, AccountsTypeOK
<1>4. LinksHold'
  BY <1>3 DEF AccountsInv, LinksHold, TakeToken
<1>5. LoginsAreEarned'
  BY DEF AccountsInv, LoginsAreEarned, TakeToken
<1> QED
  BY <1>2, <1>4, <1>5 DEF AccountsInv

\* The commit consumes the link the callback held, so it logs in nobody else.
LEMMA LoginUserKeeps ==
  ASSUME AccountsInv, NEW c \in Clients, LoginUser(c)
  PROVE  AccountsInv'
<1> DEFINE n == login[c].token
<1>1. /\ n \in 1..Len(tokens) /\ n \in 1..MaxTokens
      /\ tokens[n].state = "live" /\ redeemed[n] = {}
  <2>1. n \in 1..Len(tokens) /\ tokens[n].state = "live"
    BY DEF AccountsInv, LinksHold, LoginUser
  <2>2. n \in 1..MaxTokens
    BY <2>1, AccountsAssumption DEF AccountsInv, AccountsTypeOK
  <2> QED
    BY <2>1, <2>2 DEF AccountsInv, LinksHold
<1>2. /\ tokens' \in Seq(Token) /\ Len(tokens') = Len(tokens)
      /\ tokens'[n].state = "consumed"
      /\ \A m \in 1..Len(tokens) :
           tokens'[m].person = tokens[m].person /\ (m # n => tokens'[m] = tokens[m])
  <2>1. /\ tokens \in Seq(Token) /\ tokens[n] \in Token
        /\ tokens' = [tokens EXCEPT ![n].state = "consumed"]
    BY <1>1 DEF AccountsInv, AccountsTypeOK, LoginUser
  <2> QED
    BY <1>1, <2>1 DEF Token
<1>3. /\ login[c] \in Login
      /\ login' = [login EXCEPT ![c] = [login[c] EXCEPT !.phase = "committed"]]
  BY DEF AccountsInv, AccountsTypeOK, LoginUser
<1>4. [login[c] EXCEPT !.phase = "committed"] = [token |-> n, phase |-> "committed"]
  BY <1>3 DEF Login
<1>5. /\ login'[c].token = n /\ login'[c].phase = "committed" /\ login' \in [Clients -> Login]
      /\ \A d \in Clients : d # c => login'[d] = login[d]
  <2>1. [token |-> n, phase |-> "committed"] \in Login
    BY <1>3 DEF Login
  <2> QED
    BY <1>3, <1>4, <2>1 DEF AccountsInv, AccountsTypeOK
<1>6. redeemed' = [redeemed EXCEPT ![n] = {c}]
  BY <1>1 DEF LoginUser
<1>7. AccountsTypeOK' /\ OwnerSeesVerified' /\ LinkIsAsked'
  BY <1>1, <1>2, <1>5, <1>6 DEF AccountsInv, AccountsTypeOK, OwnerSeesVerified, LinkIsAsked, LoginUser
<1>8. /\ redeemed'[n] = {c}
      /\ \A m \in 1..MaxTokens : m # n => redeemed'[m] = redeemed[m]
  BY <1>1, <1>6 DEF AccountsInv, AccountsTypeOK
<1>9. LinksHold'
  <2>1. \A d \in Clients : d # c /\ login[d].phase = "taken" => login[d].token # n
    BY DEF AccountsInv, LinksHold, LoginUser
  <2>2. \A d \in Clients : d # c /\ login[d].phase = "committed" =>
          login[d].token # n /\ login[d].token \in 1..MaxTokens
    BY <1>1, AccountsAssumption DEF AccountsInv, LinksHold, AccountsTypeOK
  <2>3. \A d \in Clients : login'[d].phase # "none" => login'[d].token \in 1..Len(tokens')
    BY <1>1, <1>2, <1>5 DEF AccountsInv, LinksHold
  <2>4. \A d \in Clients : login'[d].phase = "taken" =>
          /\ tokens'[login'[d].token].state = "live"
          /\ \A e \in Clients :
               login'[e].phase = "taken" /\ login'[e].token = login'[d].token => d = e
    BY <1>2, <1>5, <2>1 DEF AccountsInv, LinksHold
  <2>5. \A d \in Clients : login'[d].phase = "committed" => d \in redeemed'[login'[d].token]
    BY <1>5, <1>8, <2>2 DEF AccountsInv, LinksHold
  <2>6. \A m \in 1..MaxTokens :
          redeemed'[m] # {} => m \in 1..Len(tokens') /\ tokens'[m].state = "consumed"
    BY <1>1, <1>2, <1>8 DEF AccountsInv, LinksHold
  <2> QED
    BY <2>3, <2>4, <2>5, <2>6 DEF LinksHold
<1>10. LoginsAreEarned'
  <2>1. \A m \in 1..MaxTokens : \A d, e \in redeemed'[m] : d = e
    BY <1>8 DEF AccountsInv, LoginsAreEarned
  <2>2. ASSUME NEW d \in Clients, NEW q \in {session'[d], handling'[d]} \ {Nobody}
        PROVE  \E m \in 1..Len(tokens') : tokens'[m].person = q /\ d \in redeemed'[m]
    <3>1. PICK m \in 1..Len(tokens) : tokens[m].person = q /\ d \in redeemed[m]
      BY <2>2 DEF AccountsInv, LoginsAreEarned, LoginUser
    <3>2. m \in 1..MaxTokens
      BY <3>1, AccountsAssumption DEF AccountsInv, AccountsTypeOK
    <3>3. d \in redeemed'[m]
      BY <1>1, <1>8, <3>1, <3>2
    <3> QED
      BY <1>2, <3>1, <3>3
  <2> QED
    BY <2>1, <2>2 DEF LoginsAreEarned
<1> QED
  BY <1>7, <1>9, <1>10 DEF AccountsInv

\* Callbacks that end without a login leave what the others hold.
LEMMA CallbackEndsKeep ==
  ASSUME AccountsInv, NEW c \in Clients, LoginRollsBack(c) \/ SaveSession(c) \/ LoginLost(c)
  PROVE  AccountsInv'
<1>1. /\ login[c].phase # "none" /\ login[c].token \in 1..Len(tokens)
      /\ login' = [login EXCEPT ![c] = NoLogin]
      /\ UNCHANGED <<tokens, handling, redeemed>>
  BY DEF LoginRollsBack, SaveSession, LoginLost, AccountsInv, LinksHold
<1>2. tokens[login[c].token].person \in Persons
  <2>1. tokens[login[c].token] \in Token
    BY <1>1 DEF AccountsInv, AccountsTypeOK
  <2> QED
    BY <2>1 DEF Token
<1>3. NoLogin \in Login
  BY AccountsAssumption DEF NoLogin, Login
<1>4. AccountsTypeOK' /\ OwnerSeesVerified' /\ LinkIsAsked'
  BY <1>1, <1>2, <1>3 DEF AccountsInv, AccountsTypeOK, OwnerSeesVerified, LinkIsAsked,
     LoginRollsBack, SaveSession, LoginLost
<1>5. \A d \in Clients : login'[d] \in {login[d], NoLogin}
  BY <1>1 DEF AccountsInv, AccountsTypeOK
<1>6. LinksHold'
  BY <1>1, <1>5 DEF AccountsInv, LinksHold, NoLogin
<1>7. ASSUME NEW d \in Clients, NEW q \in {session'[d], handling'[d]} \ {Nobody}
      PROVE  \E n \in 1..Len(tokens) : tokens[n].person = q /\ d \in redeemed[n]
  <2>1. CASE q \in {session[d], handling[d]}
    BY <1>7, <2>1 DEF AccountsInv, LoginsAreEarned
  <2>2. CASE q \notin {session[d], handling[d]}
    <3>1. d = c /\ login[c].phase = "committed" /\ q = tokens[login[c].token].person
      BY <1>1, <1>7, <2>2 DEF AccountsInv, AccountsTypeOK, LoginRollsBack, SaveSession, LoginLost
    <3> QED
      BY <1>1, <3>1 DEF AccountsInv, LinksHold
  <2> QED
    BY <2>1, <2>2
<1>8. LoginsAreEarned'
  BY <1>1, <1>7 DEF AccountsInv, LoginsAreEarned
<1> QED
  BY <1>4, <1>6, <1>8 DEF AccountsInv

LEMMA ServerLosesKeeps == AccountsInv /\ ServerLoses => AccountsInv'
<1> SUFFICES ASSUME AccountsInv, ServerLoses PROVE AccountsInv'
  OBVIOUS
<1>1. NoLogin \in Login
  BY AccountsAssumption DEF NoLogin, Login
<1>2. AccountsTypeOK' /\ OwnerSeesVerified' /\ LinkIsAsked'
  BY <1>1 DEF AccountsInv, AccountsTypeOK, OwnerSeesVerified, LinkIsAsked, ServerLoses
<1>3. \A c \in Clients : login'[c].phase = "none"
  BY DEF ServerLoses, NoLogin
<1>4. LinksHold'
  BY <1>3 DEF AccountsInv, LinksHold, ServerLoses
<1>5. ASSUME NEW c \in Clients, NEW q \in {session'[c], handling'[c]} \ {Nobody}
      PROVE  \E n \in 1..Len(tokens) : tokens[n].person = q /\ c \in redeemed[n]
  <2>1. q \in {session[c], handling[c]} \ {Nobody}
    BY <1>5 DEF ServerLoses
  <2> QED
    BY <2>1 DEF AccountsInv, LoginsAreEarned
<1>6. LoginsAreEarned'
  BY <1>5 DEF AccountsInv, LoginsAreEarned, ServerLoses
<1> QED
  BY <1>2, <1>4, <1>6 DEF AccountsInv

LEMMA AccountsStep == AccountsInv /\ AccountsNext => AccountsInv'
BY RequestsKeep, InvitationsKeep, StatusKeeps, ExpireTokenKeeps, TakeTokenKeeps, LoginUserKeeps,
   CallbackEndsKeep, BrowsersKeep, ServerLosesKeeps DEF AccountsNext

LEMMA AccountsStutter == AccountsInv /\ UNCHANGED accountVars => AccountsInv'
BY DEF AccountsInv, AccountsTypeOK, OwnerSeesVerified, LinkIsAsked, LinksHold, LoginsAreEarned,
   accountVars

-----------------------------------------------------------------------------
(* The deliveries *)

LEMMA Start == Init => IInv
<1> SUFFICES ASSUME Init PROVE IInv
  OBVIOUS
<1>1. AccountsInv
  BY AccountsStart DEF Init
<1>2. TypeOK
  BY <1>1 DEF Init, TypeOK, AccountsInv
<1>3. EnabledIsOwned /\ SendingIsClaimed /\ SentOnce /\ LedgerIsHonest
  BY DEF Init, EnabledIsOwned, SendingIsClaimed, SentOnce, LedgerIsHonest
<1> QED
  BY <1>1, <1>2, <1>3 DEF IInv

\* The worker is at a delivery unless it is idle.
LEMMA AtPair ==
  ASSUME TypeOK, sending.phase # "idle"
  PROVE  sending # Idle /\ sending.pair \in Pairs /\ sending \in [pair : Pairs, phase : Phases]
BY DEF TypeOK, Idle

\* Steps that leave the worker's delivery, the rows and the devices alone.
LEMMA DeliveriesUntouched ==
  ASSUME SendingIsClaimed, SentOnce, LedgerIsHonest,
         UNCHANGED <<deliveries, received>>, sending' \in {sending, Idle}
  PROVE  SendingIsClaimed' /\ SentOnce' /\ LedgerIsHonest'
BY DEF SendingIsClaimed, SentOnce, LedgerIsHonest

LEMMA DevicesKeep ==
  ASSUME IInv, NEW c \in Clients, NEW d \in Devices, Subscribe(c, d) \/ Unsubscribe(c, d)
  PROVE  IInv'
<1>1. AccountsInv' /\ UNCHANGED <<deliveries, list, todo, sending, received>>
  BY AccountsStutter DEF IInv, Subscribe, Unsubscribe
<1>2. handling[c] \in Persons
  BY DEF IInv, TypeOK, AccountsTypeOK, Subscribe, Unsubscribe
<1> DEFINE Sub == [owner : Persons \cup {Nobody}, enabled : BOOLEAN]
<1>3. \E s \in Sub : s.owner \in Persons /\ subs' = [subs EXCEPT ![d] = s]
  <2>1. CASE Subscribe(c, d)
    BY <1>2, <2>1 DEF Subscribe
  <2>2. CASE Unsubscribe(c, d)
    <3>1. subs[d] \in Sub /\ subs[d].owner = handling[c]
          /\ subs' = [subs EXCEPT ![d] = [subs[d] EXCEPT !.enabled = FALSE]]
      BY <2>2 DEF Unsubscribe, IInv, TypeOK
    <3>2. /\ [subs[d] EXCEPT !.enabled = FALSE] \in Sub
          /\ [subs[d] EXCEPT !.enabled = FALSE].owner = handling[c]
      BY <3>1
    <3> QED
      BY <1>2, <3>1, <3>2
  <2> QED
    BY <2>1, <2>2
<1> HIDE DEF Sub
<1>4. subs \in [Devices -> Sub]
  BY DEF IInv, TypeOK, Sub
<1>5. subs' \in [Devices -> Sub] /\ EnabledIsOwned'
  BY <1>3, <1>4 DEF IInv, EnabledIsOwned
<1>6. TypeOK'
  BY <1>1, <1>5 DEF IInv, TypeOK, AccountsInv, Sub
<1> QED
  BY <1>1, <1>5, <1>6, DeliveriesUntouched DEF IInv

LEMMA StartDeliveryKeeps ==
  ASSUME IInv, NEW triggers \in SUBSET Triggers, StartDelivery(triggers)
  PROVE  IInv'
<1>1. AccountsInv' /\ UNCHANGED <<subs, deliveries, sending, received>>
  BY AccountsStutter DEF IInv, StartDelivery
<1>2. \A d \in Devices : Deliverable(d) => subs[d].owner \in Persons
  BY DEF IInv, EnabledIsOwned, Deliverable
<1>3. list' \subseteq [device : Devices, owner : Persons] /\ todo' \subseteq Pairs
  BY <1>2 DEF StartDelivery, Pairs
<1>4. TypeOK'
  BY <1>1, <1>3 DEF IInv, TypeOK, AccountsInv
<1>5. EnabledIsOwned'
  BY <1>1 DEF IInv, EnabledIsOwned
<1> QED
  BY <1>1, <1>4, <1>5, DeliveriesUntouched DEF IInv

\* Only a pair without a row is claimed, and of such a pair nothing was sent.
LEMMA ClaimKeeps ==
  ASSUME IInv, NEW pair \in Pairs, Claim(pair)
  PROVE  IInv'
<1>1. AccountsInv' /\ UNCHANGED <<subs, list, received>> /\ sending = Idle
  BY AccountsStutter DEF IInv, Claim
<1>2. EnabledIsOwned' /\ SentOnce'
  BY <1>1 DEF IInv, EnabledIsOwned, SentOnce
<1>3. CASE deliveries[pair] = "none"
  <2>1. /\ deliveries' = [deliveries EXCEPT ![pair] = "claimed"]
        /\ sending' = [pair |-> pair, phase |-> "claimed"]
        /\ todo' \subseteq todo
    BY <1>3 DEF Claim
  <2>2. received[pair] = 0
    BY <1>3 DEF IInv, LedgerIsHonest
  <2>3. TypeOK'
    BY <1>1, <2>1 DEF IInv, TypeOK, AccountsInv, Phases
  <2>4. SendingIsClaimed' /\ LedgerIsHonest'
    BY <1>1, <2>1, <2>2 DEF IInv, TypeOK, SendingIsClaimed, LedgerIsHonest
  <2> QED
    BY <1>1, <1>2, <2>3, <2>4 DEF IInv
<1>4. CASE deliveries[pair] # "none"
  <2>1. UNCHANGED <<deliveries, sending>> /\ todo' \subseteq todo
    BY <1>4 DEF Claim
  <2>2. TypeOK'
    BY <1>1, <2>1 DEF IInv, TypeOK, AccountsInv
  <2> QED
    BY <1>1, <1>2, <2>1, <2>2, DeliveriesUntouched DEF IInv
<1> QED
  BY <1>3, <1>4

\* A step of the delivery at hand: its new phase, status and count suffice.
LEMMA SendingKeeps ==
  ASSUME IInv, UNCHANGED <<accountVars, subs, list, todo>>,
         sending.phase # "idle",
         NEW phase \in Phases, sending' = [sending EXCEPT !.phase = phase],
         NEW status \in {"claimed", "sent", "failed"}, NEW count \in 0..1,
         deliveries' = [deliveries EXCEPT ![sending.pair] = status],
         received' = [received EXCEPT ![sending.pair] = count],
         phase = "claimed" => status = "claimed" /\ count = 0,
         phase \in {"accepted", "sentMarked"} => count = 1,
         status = "sent" => count = 1
  PROVE  IInv'
<1>1. /\ sending.pair \in Pairs
      /\ sending' = [pair |-> sending.pair, phase |-> phase]
  BY AtPair DEF IInv
<1>2. AccountsInv' /\ EnabledIsOwned'
  BY AccountsStutter DEF IInv, EnabledIsOwned
<1>3. TypeOK'
  <2>1. sending' \in [pair : Pairs, phase : Phases]
    BY <1>1
  <2>2. deliveries' \in [Pairs -> {"none", "claimed", "sent", "failed"}]
    BY <1>1 DEF IInv, TypeOK
  <2>3. received' \in [Pairs -> 0..2]
    BY <1>1 DEF IInv, TypeOK
  <2> QED
    BY <1>2, <2>1, <2>2, <2>3 DEF IInv, TypeOK, AccountsInv
<1>4. SendingIsClaimed'
  BY <1>1 DEF IInv, TypeOK, SendingIsClaimed
<1>5. SentOnce' /\ LedgerIsHonest'
  BY <1>1 DEF IInv, TypeOK, SentOnce, LedgerIsHonest
<1> QED
  BY <1>2, <1>3, <1>4, <1>5 DEF IInv

LEMMA SendKeeps == IInv /\ Send => IInv'
<1> SUFFICES ASSUME IInv, Send PROVE IInv'
  OBVIOUS
<1> DEFINE pair == sending.pair
<1>1. sending.phase = "claimed" /\ pair \in Pairs /\ sending # Idle
  BY AtPair DEF Send, IInv
<1>2. deliveries[pair] = "claimed" /\ received[pair] = 0
  BY <1>1 DEF IInv, SendingIsClaimed
<1>3. /\ deliveries' = [deliveries EXCEPT ![pair] = "claimed"]
      /\ UNCHANGED <<accountVars, subs, list, todo>>
  BY <1>1, <1>2 DEF Send, IInv, TypeOK
<1>4. PICK phase \in {"accepted", "failed", "gone"}, count \in 0..1 :
        /\ sending' = [sending EXCEPT !.phase = phase]
        /\ received' = [received EXCEPT ![pair] = count]
        /\ phase = "accepted" => count = 1
  <2>1. CASE received' = [received EXCEPT ![pair] = @ + 1]
    BY <1>2, <2>1 DEF Send, Answered
  <2>2. CASE received' # [received EXCEPT ![pair] = @ + 1]
    <3>1. received' = [received EXCEPT ![pair] = 0]
      BY <1>1, <1>2, <2>2 DEF Send, IInv, TypeOK
    <3>2. Answered("failed") \/ Answered("gone")
      BY <2>2 DEF Send
    <3> QED
      BY <3>1, <3>2 DEF Answered
  <2> QED
    BY <2>1, <2>2
<1>5. phase \in Phases
  BY DEF Phases
<1> QED
  BY <1>1, <1>3, <1>4, <1>5, SendingKeeps

LEMMA MarkDeliveryKeeps ==
  ASSUME IInv,
         \/ MarkDelivery("accepted", "sent", "sentMarked")
         \/ MarkDelivery("failed", "failed", "failedMarked")
         \/ MarkDelivery("gone", "failed", "goneMarked")
  PROVE  IInv'
<1> DEFINE pair == sending.pair
<1>1. /\ sending.phase \in {"accepted", "failed", "gone"}
      /\ UNCHANGED <<accountVars, subs, list, todo, received>>
  BY DEF MarkDelivery
<1>2. sending # Idle /\ pair \in Pairs
  BY <1>1, AtPair DEF IInv
<1>3. /\ received[pair] \in 0..1 /\ received' = [received EXCEPT ![pair] = received[pair]]
      /\ sending.phase = "accepted" => received[pair] = 1
  BY <1>1, <1>2 DEF IInv, TypeOK, SentOnce, SendingIsClaimed
<1>4. PICK status \in {"sent", "failed"}, phase \in {"sentMarked", "failedMarked", "goneMarked"} :
        /\ deliveries' = [deliveries EXCEPT ![pair] = status]
        /\ sending' = [sending EXCEPT !.phase = phase]
        /\ status = "sent" \/ phase = "sentMarked" => sending.phase = "accepted"
  BY DEF MarkDelivery
<1>5. phase \in Phases
  BY DEF Phases
<1> QED
  BY <1>1, <1>3, <1>4, <1>5, SendingKeeps

LEMMA MarkSentThrowsKeeps == IInv /\ MarkSentThrows => IInv'
<1> SUFFICES ASSUME IInv, MarkSentThrows PROVE IInv'
  OBVIOUS
<1> DEFINE pair == sending.pair
<1>1. /\ sending.phase \in {"accepted", "sentMarked"}
      /\ UNCHANGED <<accountVars, subs, deliveries, list, todo, received>>
      /\ sending' = [sending EXCEPT !.phase = "failed"]
  BY DEF MarkSentThrows
<1>2. sending # Idle /\ pair \in Pairs
  BY <1>1, AtPair DEF IInv
<1>3. received[pair] = 1 /\ deliveries[pair] \in {"claimed", "sent", "failed"}
  BY <1>1, <1>2 DEF IInv, TypeOK, SendingIsClaimed
<1>4. PICK status \in {"claimed", "sent", "failed"}, count \in 0..1 :
        /\ deliveries' = [deliveries EXCEPT ![pair] = status]
        /\ received' = [received EXCEPT ![pair] = count]
        /\ count = 1
  BY <1>1, <1>2, <1>3 DEF IInv, TypeOK
<1>5. "failed" \in Phases
  BY DEF Phases
<1> QED
  BY <1>1, <1>3, <1>4, <1>5, SendingKeeps

LEMMA MarkSubscriptionKeeps == IInv /\ MarkSubscription => IInv'
<1> SUFFICES ASSUME IInv, MarkSubscription PROVE IInv'
  OBVIOUS
<1>1. AccountsInv' /\ UNCHANGED <<deliveries, list, todo, received>> /\ sending' = Idle
  BY AccountsStutter DEF IInv, MarkSubscription
<1> DEFINE Sub == [owner : Persons \cup {Nobody}, enabled : BOOLEAN]
<1>2. \A d \in Devices :
        subs[d] \in Sub /\ [subs[d] EXCEPT !.enabled = FALSE] \in Sub
        /\ ~[subs[d] EXCEPT !.enabled = FALSE].enabled
  BY DEF IInv, TypeOK
<1> HIDE DEF Sub
<1>3. subs \in [Devices -> Sub]
  BY DEF IInv, TypeOK, Sub
<1>4. subs' = subs \/ \E d \in Devices : subs' = [subs EXCEPT ![d] = [subs[d] EXCEPT !.enabled = FALSE]]
  <2>1. sending.pair[2] \in Devices
    BY AtPair DEF IInv, MarkSubscription, Pairs
  <2> QED
    BY <1>3, <2>1 DEF MarkSubscription
<1>5. subs' \in [Devices -> Sub] /\ EnabledIsOwned'
  BY <1>2, <1>3, <1>4 DEF IInv, EnabledIsOwned
<1>6. TypeOK'
  BY <1>1, <1>5 DEF IInv, TypeOK, AccountsInv, Sub
<1> QED
  BY <1>1, <1>5, <1>6, DeliveriesUntouched DEF IInv

LEMMA StopsKeep == IInv /\ Stops => IInv'
<1> SUFFICES ASSUME IInv, Stops PROVE IInv'
  OBVIOUS
<1>1. /\ AccountsInv' /\ UNCHANGED <<subs, deliveries, received>>
      /\ list' = {} /\ todo' = {} /\ sending' = Idle
  BY AccountsStutter DEF IInv, Stops
<1>2. TypeOK' /\ EnabledIsOwned'
  BY <1>1 DEF IInv, TypeOK, AccountsInv, EnabledIsOwned
<1> QED
  BY <1>1, <1>2, DeliveriesUntouched DEF IInv

LEMMA PruneKeeps ==
  ASSUME IInv, NEW pair \in Pairs, PruneDelivery(pair)
  PROVE  IInv'
<1>1. AccountsInv' /\ UNCHANGED <<subs, list, todo, sending>>
  BY AccountsStutter DEF IInv, PruneDelivery
<1>2. /\ deliveries' = [deliveries EXCEPT ![pair] = "none"]
      /\ received' = [received EXCEPT ![pair] = 0]
      /\ sending = Idle \/ sending.pair # pair
  BY DEF PruneDelivery
<1>3. TypeOK' /\ EnabledIsOwned'
  BY <1>1, <1>2 DEF IInv, TypeOK, AccountsInv, EnabledIsOwned
<1>4. sending # Idle => sending.pair \in Pairs
  BY DEF IInv, TypeOK
<1>5. SendingIsClaimed'
  BY <1>1, <1>2, <1>4 DEF IInv, TypeOK, SendingIsClaimed
<1>6. SentOnce' /\ LedgerIsHonest'
  BY <1>2 DEF IInv, TypeOK, SentOnce, LedgerIsHonest
<1> QED
  BY <1>1, <1>3, <1>5, <1>6 DEF IInv

LEMMA AccountsKeepPush ==
  ASSUME IInv, AccountsInv', UNCHANGED pushVars
  PROVE  IInv'
<1>1. TypeOK' /\ EnabledIsOwned'
  BY DEF IInv, TypeOK, AccountsInv, EnabledIsOwned, pushVars
<1>2. SendingIsClaimed' /\ SentOnce' /\ LedgerIsHonest'
  BY DeliveriesUntouched DEF IInv, pushVars
<1> QED
  BY <1>1, <1>2 DEF IInv

LEMMA Step == IInv /\ [Next]_vars => IInv'
<1> SUFFICES ASSUME IInv, [Next]_vars PROVE IInv'
  OBVIOUS
<1>1. CASE AccountsNext /\ UNCHANGED pushVars
  BY <1>1, AccountsStep, AccountsKeepPush DEF IInv
<1>2. CASE UNCHANGED vars
  BY <1>2, AccountsStutter, AccountsKeepPush DEF IInv, vars
<1>3. CASE PushNext
  BY <1>3, DevicesKeep, StartDeliveryKeeps, ClaimKeeps, SendKeeps, MarkDeliveryKeeps,
     MarkSubscriptionKeeps, MarkSentThrowsKeeps, StopsKeep, PruneKeeps
     DEF PushNext, WorkerStep, FinishDelivery, DeliveryAborts
<1> QED
  BY <1>1, <1>2, <1>3 DEF Next

LEMMA Invariance == Spec => []IInv
<1> QED
  BY Start, Step, PTL DEF Spec

\* Every reachable state of accounts and deliveries has its types.
THEOREM TypeCorrect == Spec => []TypeOK
<1>1. IInv => TypeOK
  BY DEF IInv
<1> QED
  BY Invariance, <1>1, PTL

\* No sequence of resubmissions, late links and decisions approves, or shows
\* the owner as pending, an address that was not verified.
THEOREM ApprovalsAreVerified == Spec => []OwnerSeesVerified
<1>1. IInv => OwnerSeesVerified
  BY DEF IInv, AccountsInv
<1> QED
  BY Invariance, <1>1, PTL

\* A link logs in one browser, and every session comes from such a login.
THEOREM SessionsAreEarned == Spec => []LoginsAreEarned
<1>1. IInv => LoginsAreEarned
  BY DEF IInv, AccountsInv
<1> QED
  BY Invariance, <1>1, PTL

\* No device gets a message twice while its delivery row lives.
THEOREM AtMostOnce == Spec => []SentOnce
<1>1. IInv => SentOnce
  BY DEF IInv
<1> QED
  BY Invariance, <1>1, PTL

\* A row that says "sent" was delivered; what has no row was not.
THEOREM LedgerTrue == Spec => []LedgerIsHonest
<1>1. IInv => LedgerIsHonest
  BY DEF IInv
<1> QED
  BY Invariance, <1>1, PTL
=============================================================================
