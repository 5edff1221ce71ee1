------------------------- MODULE AuthSessionProofs -------------------------
(***************************************************************************)
(* Theorems about sign-in, renewal and sign-out, for any number of         *)
(* accounts, browsers and requests, and any lives of the two tokens.       *)
(***************************************************************************)
EXTENDS AuthSession, TLAPS

(***************************************************************************)
(* What a step does to the requests under way.                             *)
(***************************************************************************)

\* Same(q, r): q is r at another await.
Same(q, r) ==
    /\ q.browser = r.browser
    /\ q.user = r.user
    /\ q.via = r.via
    /\ q.void = r.void

\* A new request is like no other under way (fetch() in the pages).
LEMMA Sent ==
    ASSUME requests \subseteq Request,
           NEW pc \in RequestPc, NEW b \in Browsers, NEW e \in Emails,
           NEW p \in OAuthProvider \cup {None},
           Send(pc, b, e, p)
    PROVE  /\ requests' \subseteq Request
           /\ requests \subseteq requests'
           /\ \A q \in requests' \ requests :
                 q.pc = pc /\ q.browser = b /\ q.user = e /\ q.via = p
<1> DEFINE n(id) == [id |-> id, pc |-> pc, browser |-> b, user |-> e, via |-> p,
                     void |-> FALSE]
<1>1. PICK id \in RequestIds : requests' = requests \cup {n(id)}
  BY DEF Send
<1>2. n(id) \in Request
  BY DEF Request
<1>3. /\ n(id).pc = pc /\ n(id).browser = b /\ n(id).user = e
      /\ n(id).via = p
  OBVIOUS
<1> HIDE DEF n
<1> QED
  BY <1>1, <1>2, <1>3

\* A call that resolves an await is at the next one and otherwise unchanged.
LEMMA Awaited ==
    ASSUME requests \subseteq Request,
           NEW r \in requests, NEW pc \in RequestPc,
           Await(r, pc)
    PROVE  /\ requests' \subseteq Request
           /\ \A q \in requests : q # r => q \in requests'
           /\ \A q \in requests' : q \in requests \/ (q.pc = pc /\ Same(q, r))
           /\ \E q \in requests' : q.pc = pc /\ Same(q, r)
<1> DEFINE n == [r EXCEPT !.pc = pc]
<1>1. n \in Request /\ n.pc = pc /\ Same(n, r)
  BY DEF Request, Same
<1>2. requests' = (requests \ {r}) \cup {n}
  BY DEF Await
<1> HIDE DEF n
<1> QED
  BY <1>1, <1>2

\* An answered call is under way no more.
LEMMA Finished ==
    ASSUME requests \subseteq Request, NEW r \in requests, Finish(r)
    PROVE  /\ requests' \subseteq requests
           /\ requests' \subseteq Request
           /\ \A q \in requests : q # r => q \in requests'
  BY DEF Finish

\* signout() at removeRefreshToken(): its own call goes on, and the sign-ins
\* of the account that were stored are void.
LEMMA Forgotten ==
    ASSUME requests \subseteq Request, NEW r \in requests, ForgetRefreshToken(r)
    PROVE  /\ requests' \subseteq Request
           /\ \A q \in requests' :
                 \/ q \in requests /\ ~ (q.pc = "signed" /\ q.user = r.user)
                 \/ q.pc = "cleared" /\ Same(q, r)
                 \/ /\ q.pc = "signed" /\ q.user = r.user /\ q.void
                    /\ \E o \in requests : /\ o.pc = "signed" /\ o.user = q.user
                                          /\ o.browser = q.browser /\ o.via = q.via
           /\ \A q \in requests :
                 q # r /\ q.pc \in {"guard", "renewed"} => q \in requests'
<1> DEFINE revoked == {q \in requests : q.pc = "signed" /\ q.user = r.user}
           c == [r EXCEPT !.pc = "cleared"]
           v(q) == [q EXCEPT !.void = TRUE]
<1>1. c \in Request /\ c.pc = "cleared" /\ Same(c, r)
  BY DEF Request, RequestPc, Same
<1>2. \A q \in revoked : /\ v(q) \in Request
                         /\ v(q).pc = "signed" /\ v(q).user = r.user /\ v(q).void
                         /\ v(q).browser = q.browser /\ v(q).via = q.via
  BY DEF Request
<1>3. requests' = (requests \ (revoked \cup {r})) \cup {v(q) : q \in revoked} \cup {c}
  BY DEF ForgetRefreshToken
<1>4. \A q \in revoked : q \in requests /\ q.pc = "signed" /\ q.user = r.user
  OBVIOUS
<1>5. \A q \in requests : q \notin revoked => ~ (q.pc = "signed" /\ q.user = r.user)
  OBVIOUS
<1> HIDE DEF c, v, revoked
<1> QED
  BY <1>1, <1>2, <1>3, <1>4, <1>5

(***************************************************************************)
(* Type correctness.                                                       *)
(***************************************************************************)

\* The steps that only send or answer a request.
LEMMA RequestsType ==
    ASSUME TypeOK, requests' \subseteq Request,
           UNCHANGED <<usersVars, cookieVars, historyVars>>
    PROVE  TypeOK'
  BY DEF TypeOK, UsersTypeOK, usersVars, cookieVars, historyVars

\* A token just made fits its cookie (auth.service.ts createToken()).
LEMMA TokenType ==
    ASSUME NEW e \in Emails, NEW life \in Nat
    PROVE  /\ Token(e, life) \in Cookie(life)
           /\ Token(e, life).user = e
           /\ Token(e, life).left = life
           /\ NoCookie \in Cookie(life)
           /\ ~ Held(NoCookie)
  BY DEF Token, Cookie, NoCookie, Held

\* A cookie gets older by one tick, and is dropped at its end.
LEMMA OlderType ==
    ASSUME NEW life \in Nat, NEW c \in Cookie(life)
    PROVE  /\ Older(c) \in Cookie(life)
           /\ Held(Older(c)) => /\ c.left > 1 /\ Held(c)
                                /\ Older(c).left = c.left - 1
                                /\ Older(c).user = c.user
           /\ c.left > 1 => Held(Older(c))
<1>1. CASE c.left > 1
  <2>1. Older(c) = [user |-> c.user, left |-> c.left - 1]
    BY <1>1 DEF Older, Cookie
  <2> QED
    BY <1>1, <2>1 DEF Cookie, Held
<1>2. CASE ~ (c.left > 1)
  BY <1>2 DEF Older, Cookie, NoCookie, Held
<1> QED
  BY <1>1, <1>2

LEMMA InitType == Init => TypeOK
  BY LifeAssumption
  DEF Init, UsersInit, TypeOK, UsersTypeOK, Cookie, NoCookie, Held, None, Absent

\* Every call on the server keeps the types.
LEMMA ServerType ==
    ASSUME TypeOK, NEW r \in requests, Server(r)
    PROVE  TypeOK'
<1> USE NoUserAssumption, LifeAssumption
<1>1. /\ requests \subseteq Request /\ r \in Request
      /\ r.user \in Emails /\ r.browser \in Browsers
      /\ r.via \in OAuthProvider \cup {None}
  BY DEF TypeOK, Request
<1>2. UsersTypeOK
  BY DEF TypeOK
<1>a. CASE CreateUser(r)
  <2>1. requests' \subseteq Request
    BY <1>1, <1>a, Awaited DEF CreateUser, RequestPc
  <2>2. UsersTypeOK'
    BY <1>1, <1>2, <1>a DEF CreateUser, Insert, UsersTypeOK, usersVars
  <2> QED
    BY <1>a, <2>1, <2>2 DEF CreateUser, TypeOK, cookieVars, historyVars
<1>b. CASE CreateWithOAuth(r)
  <2>1. requests' \subseteq Request
    BY <1>1, <1>b, Awaited DEF CreateWithOAuth, RequestPc
  <2>2. UsersTypeOK'
    BY <1>1, <1>2, <1>b
    DEF CreateWithOAuth, InsertWithOAuth, Insert, UsersTypeOK, usersVars
  <2> QED
    BY <1>b, <2>1, <2>2 DEF CreateWithOAuth, TypeOK, cookieVars, historyVars
<1>c. CASE LookForUser(r)
  <2>1. PICK pc \in RequestPc : Await(r, pc)
    BY <1>c DEF LookForUser, RequestPc
  <2> QED
    BY <1>1, <1>c, <2>1, Awaited, RequestsType DEF LookForUser
<1>d. CASE FindUser(r)
  <2>1. PICK pc \in RequestPc : Await(r, pc)
    BY <1>d DEF FindUser, RequestPc
  <2> QED
    BY <1>1, <1>d, <2>1, Awaited, RequestsType DEF FindUser
<1>e. CASE UpdateUser(r)
  BY <1>1, <1>e, Awaited, RequestsType DEF UpdateUser, RequestPc
<1>f. CASE ValidateCredentials(r)
  BY <1>1, <1>f, Awaited, RequestsType DEF ValidateCredentials, RequestPc
<1>g. CASE StoreRefreshToken(r)
  <2>1. requests' \subseteq Request
    BY <1>1, <1>g, Awaited DEF StoreRefreshToken, RequestPc
  <2> QED
    BY <1>1, <1>g, <2>1
    DEF StoreRefreshToken, SetRefreshToken, TypeOK, UsersTypeOK, cookieVars
<1>h. CASE AnswerSignIn(r)
  <2>1. requests' \subseteq Request
    BY <1>1, <1>h, Finished DEF AnswerSignIn
  <2> QED
    BY <1>1, <1>h, <2>1, TokenType
    DEF AnswerSignIn, TypeOK, UsersTypeOK, usersVars, Held
<1>i. CASE Guard(r)
  BY <1>1, <1>i, Awaited, RequestsType DEF Guard, RequestPc
<1>j. CASE AnswerRenewal(r)
  <2>1. requests' \subseteq Request
    BY <1>1, <1>j, Finished DEF AnswerRenewal
  <2> QED
    BY <1>1, <1>j, <2>1, TokenType
    DEF AnswerRenewal, TypeOK, UsersTypeOK, usersVars, historyVars, Held
<1>k. CASE ForgetRefreshToken(r)
  <2>1. requests' \subseteq Request
    BY <1>1, <1>k, Forgotten
  <2>2. UsersTypeOK'
    BY <1>2, <1>k DEF ForgetRefreshToken, RemoveRefreshToken, UsersTypeOK
  <2> QED
    BY <1>k, <2>1, <2>2 DEF ForgetRefreshToken, TypeOK, cookieVars
<1>l. CASE AnswerSignOut(r)
  <2>1. requests' \subseteq Request
    BY <1>1, <1>l, Finished DEF AnswerSignOut
  <2> QED
    BY <1>1, <1>l, <2>1, TokenType
    DEF AnswerSignOut, TypeOK, UsersTypeOK, usersVars, Held
<1>m. CASE Refuse(r)
  BY <1>1, <1>m, Finished, RequestsType DEF Refuse
<1>n. CASE Lose(r)
  BY <1>1, <1>n, Finished DEF Lose, TypeOK, UsersTypeOK, usersVars, cookieVars
<1> QED
  BY <1>a, <1>b, <1>c, <1>d, <1>e, <1>f, <1>g, <1>h, <1>i, <1>j, <1>k, <1>l,
     <1>m, <1>n
  DEF Server

\* So does everything a browser does.
LEMMA BrowserType ==
    ASSUME TypeOK, NEW b \in Browsers, Browser(b)
    PROVE  TypeOK'
<1> USE NoUserAssumption, LifeAssumption
<1>1. /\ requests \subseteq Request
      /\ Held(refresh[b]) => refresh[b].user \in Emails
      /\ Held(access[b]) => access[b].user \in Emails
  BY DEF TypeOK, Cookie
<1>a. ASSUME NEW e \in Emails,
             SignUp(b, e) \/ SignIn(b, e) \/ SignInWithGoogle(b, e)
                 \/ SignInWithNaver(b, e)
      PROVE  TypeOK'
  <2>1. PICK pc \in RequestPc, p \in OAuthProvider \cup {None} : Send(pc, b, e, p)
    BY <1>a DEF SignUp, SignIn, SignInWithGoogle, SignInWithNaver, SignInWith,
                RequestPc, OAuthProvider
  <2>2. requests' \subseteq Request
    BY <1>1, <2>1, Sent
  <2> QED
    BY <1>a, <2>2, RequestsType
    DEF SignUp, SignIn, SignInWithGoogle, SignInWithNaver, SignInWith
<1>b. CASE Renew(b)
  <2>1. requests' \subseteq Request
    BY <1>1, <1>b, Sent DEF Renew, RequestPc
  <2> QED
    BY <1>b, <2>1 DEF Renew, TypeOK, UsersTypeOK, usersVars, historyVars
<1>c. CASE RenewInTab(b)
  <2>1. requests' \subseteq Request
    BY <1>1, <1>c, Sent DEF RenewInTab, RequestPc
  <2> QED
    BY <1>c, <2>1, RequestsType DEF RenewInTab
<1>d. CASE SignOut(b)
  <2>1. requests' \subseteq Request
    BY <1>1, <1>d, Sent DEF SignOut, RequestPc
  <2> QED
    BY <1>d, <2>1, RequestsType DEF SignOut
<1>e. CASE Load(b)
  BY <1>e DEF Load, TypeOK, UsersTypeOK, usersVars
<1> QED
  BY <1>a, <1>b, <1>c, <1>d, <1>e DEF Browser

\* So does time.
LEMMA TickType ==
    ASSUME TypeOK, Tick
    PROVE  TypeOK'
<1> USE LifeAssumption
<1>1. \A b \in Browsers : /\ Older(access[b]) \in Cookie(AccessLife)
                          /\ Older(refresh[b]) \in Cookie(RefreshLife)
                          /\ Held(Older(access[b])) => access[b].user # NoUser
                          /\ Held(Older(refresh[b])) => refresh[b].user # NoUser
                          /\ Held(Older(access[b])) =>
                                Older(access[b]).user = access[b].user
                          /\ Held(Older(refresh[b])) =>
                                Older(refresh[b]).user = refresh[b].user
  <2> TAKE b \in Browsers
  <2>1. access[b] \in Cookie(AccessLife) /\ refresh[b] \in Cookie(RefreshLife)
    BY DEF TypeOK
  <2>2. /\ Held(access[b]) => access[b].user # NoUser
        /\ Held(refresh[b]) => refresh[b].user # NoUser
    BY DEF TypeOK
  <2> QED
    BY <2>1, <2>2, OlderType
<1>2. /\ access' \in [Browsers -> Cookie(AccessLife)]
      /\ refresh' \in [Browsers -> Cookie(RefreshLife)]
  BY <1>1 DEF Tick
<1>3. \A b \in Browsers : /\ Held(access'[b]) => access'[b].user # NoUser
                          /\ Held(refresh'[b]) => refresh'[b].user # NoUser
  BY <1>1 DEF Tick
<1>4. timer' \in [Browsers -> 0 .. RenewEvery]
  BY DEF Tick, TypeOK
<1>5. sinceOut' \in [Emails -> 0 .. AccessLife]
  BY DEF Tick, TypeOK
<1> QED
  BY <1>2, <1>3, <1>4, <1>5 DEF Tick, TypeOK, UsersTypeOK, usersVars

LEMMA TypeStep == TypeOK /\ [Next]_vars => TypeOK'
<1>1. ASSUME TypeOK, Next PROVE TypeOK'
  BY <1>1, ServerType, BrowserType, TickType DEF Next
<1>2. ASSUME TypeOK, UNCHANGED vars PROVE TypeOK'
  BY <1>2 DEF TypeOK, UsersTypeOK, vars, usersVars, cookieVars, historyVars
<1> QED
  BY <1>1, <1>2

\* Every variable keeps its type; in particular no request is made in nobody's
\* name and no cookie outlives its token.
THEOREM TypeCorrect == Spec => []TypeOK
  BY InitType, TypeStep, PTL DEF Spec

(***************************************************************************)
(* ProviderKept.                                                           *)
(***************************************************************************)

\* Until its account is found or made nothing is known of it, and then it
\* keeps its provider (users.service.ts createWithOAuth()).
LEMMA ProviderStep ==
    ASSUME TypeOK, ProviderKept, PasswordOnly, Next
    PROVE  ProviderKept' /\ PasswordOnly'
<1>1. /\ requests \subseteq Request
      /\ \A r \in requests : r.user \in Emails
      /\ provider \in [Emails -> OAuthProvider \cup {None, Absent}]
  BY DEF TypeOK, UsersTypeOK, Request
<1>k. ASSUME requests' \subseteq requests, provider' = provider
      PROVE  ProviderKept' /\ PasswordOnly'
  BY <1>k DEF ProviderKept, PasswordOnly
<1>n. ASSUME NEW pc \in RequestPc, NEW b \in Browsers, NEW e \in Emails,
             NEW p \in OAuthProvider \cup {None},
             Send(pc, b, e, p), provider' = provider,
             pc \notin {"update", "store", "signed"},
             pc = "validate" => p = None
      PROVE  ProviderKept' /\ PasswordOnly'
  <2>1. \A q \in requests' \ requests : q.pc = pc /\ q.via = p
    BY <1>1, <1>n, Sent
  <2> QED
    BY <1>n, <2>1 DEF ProviderKept, PasswordOnly
<1>a. ASSUME NEW r \in requests, NEW pc \in RequestPc, Await(r, pc),
             provider' = provider,
             pc = "validate" => r.via = None,
             pc \in {"update", "store", "signed"} /\ r.via # None =>
                 provider[r.user] = r.via
      PROVE  ProviderKept' /\ PasswordOnly'
  <2>1. \A q \in requests' : \/ q \in requests
                             \/ q.pc = pc /\ q.via = r.via /\ q.user = r.user
    BY <1>1, <1>a, Awaited DEF Same
  <2> QED
    BY <1>a, <2>1 DEF ProviderKept, PasswordOnly
<1>i. ASSUME NEW r \in requests, NEW pc \in {"validate", "store"}, Await(r, pc),
             Insert(r.user, r.via), pc = "validate" => r.via = None
      PROVE  ProviderKept' /\ PasswordOnly'
  <2>1. \A q \in requests' : \/ q \in requests
                             \/ q.pc = pc /\ q.via = r.via /\ q.user = r.user
    BY <1>1, <1>i, Awaited DEF Same, RequestPc
  <2>2. \A e \in Emails : e # r.user => provider'[e] = provider[e]
    BY <1>1, <1>i DEF Insert
  <2>3. provider'[r.user] = r.via
    BY <1>1, <1>i DEF Insert
  <2>4. \A q \in requests : q.via # None /\ q.pc \in {"update", "store", "signed"}
                            => q.user # r.user
    BY <1>1, <1>i DEF ProviderKept, Insert, Exists, Request, OAuthProvider, None,
                      Absent
  <2> QED
    BY <1>1, <1>i, <2>1, <2>2, <2>3, <2>4 DEF ProviderKept, PasswordOnly
<1>s. ASSUME NEW r \in requests, Server(r)
      PROVE  ProviderKept' /\ PasswordOnly'
  <2>1. CASE CreateUser(r)
    BY <1>i, <2>1 DEF CreateUser
  <2>2. CASE CreateWithOAuth(r)
    BY <1>i, <2>2 DEF CreateWithOAuth, InsertWithOAuth
  <2>3. CASE LookForUser(r)
    BY <1>a, <2>3 DEF LookForUser, RequestPc, usersVars
  <2>4. CASE FindUser(r)
    BY <1>a, <2>4 DEF FindUser, RequestPc, usersVars
  <2>5. CASE UpdateUser(r)
    BY <1>a, <2>5 DEF UpdateUser, RequestPc, usersVars, ProviderKept
  <2>6. CASE ValidateCredentials(r)
    BY <1>a, <2>6 DEF ValidateCredentials, RequestPc, usersVars, PasswordOnly
  <2>7. CASE StoreRefreshToken(r)
    BY <1>a, <2>7 DEF StoreRefreshToken, SetRefreshToken, RequestPc, ProviderKept
  <2>8. CASE AnswerSignIn(r) \/ AnswerRenewal(r) \/ AnswerSignOut(r)
             \/ Refuse(r) \/ Lose(r)
    BY <1>k, <2>8
    DEF AnswerSignIn, AnswerRenewal, AnswerSignOut, Refuse, Lose, Finish, usersVars
  <2>9. CASE Guard(r)
    BY <1>a, <2>9 DEF Guard, RequestPc, usersVars
  <2>10. CASE ForgetRefreshToken(r)
    <3>1. \A q \in requests' :
             \/ q \in requests
             \/ q.pc = "cleared"
             \/ q.pc = "signed" /\ \E o \in requests :
                   o.pc = "signed" /\ o.user = q.user /\ o.via = q.via
      BY <1>1, <2>10, Forgotten
    <3>2. provider' = provider
      BY <2>10 DEF ForgetRefreshToken, RemoveRefreshToken
    <3> QED
      BY <3>1, <3>2 DEF ProviderKept, PasswordOnly
  <2> QED
    BY <1>s, <2>1, <2>2, <2>3, <2>4, <2>5, <2>6, <2>7, <2>8, <2>9, <2>10
    DEF Server
<1>b. ASSUME NEW b \in Browsers, Browser(b)
      PROVE  ProviderKept' /\ PasswordOnly'
  <2>1. /\ Held(refresh[b]) => refresh[b].user \in Emails
        /\ Held(access[b]) => access[b].user \in Emails
    BY DEF TypeOK, Cookie
  <2>2. ASSUME NEW e \in Emails,
               SignUp(b, e) \/ SignIn(b, e) \/ SignInWithGoogle(b, e)
                   \/ SignInWithNaver(b, e)
        PROVE  ProviderKept' /\ PasswordOnly'
    BY <1>n, <2>2 DEF SignUp, SignIn, SignInWithGoogle, SignInWithNaver,
                      SignInWith, OAuthProvider, usersVars, RequestPc
  <2>3. CASE Renew(b) \/ RenewInTab(b)
    BY <1>k, <1>n, <2>1, <2>3 DEF Renew, RenewInTab, usersVars, RequestPc
  <2>4. CASE SignOut(b)
    BY <1>n, <2>1, <2>4 DEF SignOut, usersVars, RequestPc
  <2>5. CASE Load(b)
    BY <1>k, <2>5 DEF Load, usersVars
  <2> QED
    BY <1>b, <2>2, <2>3, <2>4, <2>5 DEF Browser
<1>t. CASE Tick
  BY <1>k, <1>t DEF Tick, usersVars
<1> QED
  BY <1>s, <1>b, <1>t DEF Next

(***************************************************************************)
(* SignedOutEverywhere.                                                    *)
(***************************************************************************)

SignedOutInv == StoredFirst /\ OutJustNow /\ TokensRunOut

\* The steps that store no refresh token, clear none, and answer nothing.
LEMMA SignedOutUntouched ==
    ASSUME TypeOK, SignedOutInv,
           hashed' = hashed, access' = access, sinceOut' = sinceOut,
           \A q \in requests' :
               \/ q \in requests
               \/ q.pc # "signed" /\ (q.pc = "renewed" => sinceOut[q.user] = 0)
    PROVE  SignedOutInv'
  BY DEF SignedOutInv, StoredFirst, OutJustNow, TokensRunOut

LEMMA SignedOutStep ==
    ASSUME TypeOK, SignedOutInv, Next
    PROVE  SignedOutInv'
<1> USE NoUserAssumption, LifeAssumption
<1>1. /\ requests \subseteq Request
      /\ \A r \in requests : r.user \in Emails /\ r.browser \in Browsers
      /\ hashed \subseteq Emails
      /\ sinceOut \in [Emails -> 0 .. AccessLife]
      /\ access \in [Browsers -> Cookie(AccessLife)]
  BY DEF TypeOK, UsersTypeOK, Request
<1>2. \A b \in Browsers : /\ access[b].left \in 0 .. AccessLife
                          /\ Held(access[b]) => access[b].user \in Emails
  BY <1>1 DEF TypeOK, Cookie
<1>n. ASSUME NEW pc \in {"insert", "validate", "exists", "guard", "remove"},
             NEW b \in Browsers, NEW e \in Emails,
             NEW p \in OAuthProvider \cup {None},
             Send(pc, b, e, p),
             hashed' = hashed, access' = access, sinceOut' = sinceOut
      PROVE  SignedOutInv'
  <2>1. pc \in RequestPc
    BY DEF RequestPc
  <2>2. \A q \in requests' \ requests : q.pc = pc
    BY <1>1, <1>n, <2>1, Sent
  <2> QED
    BY <1>n, <2>2, SignedOutUntouched
<1>a. ASSUME NEW r \in requests, NEW pc \in RequestPc, Await(r, pc),
             pc # "signed", pc = "renewed" => sinceOut[r.user] = 0,
             hashed' = hashed, access' = access, sinceOut' = sinceOut
      PROVE  SignedOutInv'
  <2>1. \A q \in requests' : q \in requests \/ (q.pc = pc /\ q.user = r.user)
    BY <1>1, <1>a, Awaited DEF Same
  <2> QED
    BY <1>a, <2>1, SignedOutUntouched
<1>s. ASSUME NEW r \in requests, Server(r)
      PROVE  SignedOutInv'
  <2>1. CASE CreateUser(r)
    BY <1>a, <2>1 DEF CreateUser, Insert, RequestPc, cookieVars, historyVars
  <2>2. CASE CreateWithOAuth(r)
    BY <1>a, <2>2 DEF CreateWithOAuth, InsertWithOAuth, Insert, RequestPc,
                      cookieVars, historyVars
  <2>3. CASE LookForUser(r)
    BY <1>a, <2>3 DEF LookForUser, RequestPc, usersVars, cookieVars, historyVars
  <2>4. CASE FindUser(r)
    BY <1>a, <2>4 DEF FindUser, RequestPc, usersVars, cookieVars, historyVars
  <2>5. CASE UpdateUser(r)
    BY <1>a, <2>5 DEF UpdateUser, RequestPc, usersVars, cookieVars, historyVars
  <2>6. CASE ValidateCredentials(r)
    BY <1>a, <2>6
    DEF ValidateCredentials, RequestPc, usersVars, cookieVars, historyVars
  <2>7. CASE StoreRefreshToken(r)
    <3>1. \A q \in requests' :
             q \in requests \/ (q.pc = "signed" /\ q.user = r.user)
      BY <1>1, <2>7, Awaited DEF StoreRefreshToken, RequestPc, Same
    <3>2. /\ hashed' = hashed \cup {r.user} /\ access' = access
          /\ sinceOut' = [sinceOut EXCEPT ![r.user] = 0]
      BY <2>7 DEF StoreRefreshToken, SetRefreshToken, cookieVars
    <3>3. \A q \in requests' : q.user \in Emails
      BY <1>1, <3>1
    <3>4. StoredFirst'
      BY <3>1, <3>2 DEF SignedOutInv, StoredFirst
    <3>5. OutJustNow'
      BY <1>1, <3>1, <3>2, <3>3 DEF SignedOutInv, OutJustNow
    <3>6. TokensRunOut'
      BY <1>1, <1>2, <3>2 DEF SignedOutInv, TokensRunOut
    <3> QED
      BY <3>4, <3>5, <3>6 DEF SignedOutInv
  <2>8. CASE AnswerSignIn(r) \/ AnswerRenewal(r)
    <3>1. /\ access' = [access EXCEPT ![r.browser] = Token(r.user, AccessLife)]
          /\ requests' \subseteq requests
          /\ hashed' = hashed /\ sinceOut' = sinceOut
      BY <2>8 DEF AnswerSignIn, AnswerRenewal, Finish, usersVars, historyVars
    <3>2. sinceOut[r.user] = 0
      BY <2>8 DEF AnswerSignIn, AnswerRenewal, SignedOutInv, OutJustNow
    <3>3. TokensRunOut'
      BY <1>1, <1>2, <3>1, <3>2, TokenType DEF SignedOutInv, TokensRunOut
    <3> QED
      BY <3>1, <3>3 DEF SignedOutInv, StoredFirst, OutJustNow
  <2>9. CASE Guard(r)
    BY <1>a, <2>9 DEF Guard, FindByRefreshToken, RequestPc, usersVars, cookieVars,
                      historyVars, SignedOutInv, OutJustNow
  <2>10. CASE ForgetRefreshToken(r)
    <3>1. \A q \in requests' :
             \/ q \in requests /\ ~ (q.pc = "signed" /\ q.user = r.user)
             \/ q.pc = "cleared"
             \/ /\ q.pc = "signed" /\ q.void
                /\ \E o \in requests : o.pc = "signed" /\ o.user = q.user
      BY <1>1, <2>10, Forgotten
    <3>2. /\ hashed' = hashed \ {r.user} /\ access' = access
          /\ sinceOut' = sinceOut
      BY <2>10 DEF ForgetRefreshToken, RemoveRefreshToken, cookieVars
    <3>3. StoredFirst'
      BY <3>1, <3>2 DEF SignedOutInv, StoredFirst
    <3>4. OutJustNow'
      BY <3>1, <3>2 DEF SignedOutInv, OutJustNow
    <3>5. TokensRunOut'
      BY <1>1, <1>2, <3>2 DEF SignedOutInv, OutJustNow, TokensRunOut
    <3> QED
      BY <3>3, <3>4, <3>5 DEF SignedOutInv
  <2>11. CASE AnswerSignOut(r)
    <3>1. /\ access' = [access EXCEPT ![r.browser] = NoCookie]
          /\ requests' \subseteq requests
          /\ hashed' = hashed /\ sinceOut' = sinceOut
      BY <2>11 DEF AnswerSignOut, Finish, usersVars
    <3>2. TokensRunOut'
      BY <1>1, <3>1, TokenType DEF SignedOutInv, TokensRunOut
    <3> QED
      BY <3>1, <3>2 DEF SignedOutInv, StoredFirst, OutJustNow
  <2>12. CASE Refuse(r) \/ Lose(r)
    BY <2>12, SignedOutUntouched
    DEF Refuse, Lose, Finish, usersVars, cookieVars, historyVars
  <2> QED
    BY <1>s, <2>1, <2>2, <2>3, <2>4, <2>5, <2>6, <2>7, <2>8, <2>9, <2>10, <2>11,
       <2>12
    DEF Server
<1>b. ASSUME NEW b \in Browsers, Browser(b)
      PROVE  SignedOutInv'
  <2>1. /\ Held(refresh[b]) => refresh[b].user \in Emails
        /\ Held(access[b]) => access[b].user \in Emails
    BY DEF TypeOK, Cookie
  <2>2. ASSUME NEW e \in Emails,
               SignUp(b, e) \/ SignIn(b, e) \/ SignInWithGoogle(b, e)
                   \/ SignInWithNaver(b, e)
        PROVE  SignedOutInv'
    BY <1>n, <2>2 DEF SignUp, SignIn, SignInWithGoogle, SignInWithNaver,
                      SignInWith, OAuthProvider, usersVars, cookieVars, historyVars
  <2>3. CASE Renew(b) \/ RenewInTab(b)
    BY <1>n, <2>1, <2>3, SignedOutUntouched
    DEF Renew, RenewInTab, usersVars, cookieVars, historyVars
  <2>4. CASE SignOut(b)
    BY <1>n, <2>1, <2>4 DEF SignOut, usersVars, cookieVars, historyVars
  <2>5. CASE Load(b)
    BY <2>5, SignedOutUntouched DEF Load, usersVars
  <2> QED
    BY <1>b, <2>2, <2>3, <2>4, <2>5 DEF Browser
<1>t. CASE Tick
  <2>1. /\ requests' = {} /\ hashed' = hashed
    BY <1>t DEF Tick, usersVars
  <2>2. \A e \in Emails :
           sinceOut'[e] = IF e \in hashed THEN 0
                          ELSE IF sinceOut[e] < AccessLife THEN sinceOut[e] + 1
                          ELSE AccessLife
    BY <1>t DEF Tick
  <2>3. ASSUME NEW b \in Browsers, Held(access'[b]), access'[b].user \notin hashed
        PROVE  access'[b].left + sinceOut'[access'[b].user] <= AccessLife
    <3>1. access'[b] = Older(access[b])
      BY <1>t DEF Tick
    <3>2. /\ access'[b].left = access[b].left - 1
          /\ access'[b].user = access[b].user
          /\ Held(access[b])
      BY <1>1, <2>3, <3>1, OlderType
    <3>3. access[b].left + sinceOut[access[b].user] <= AccessLife
      BY <2>3, <3>2 DEF SignedOutInv, TokensRunOut
    <3>4. sinceOut[access[b].user] \in 0 .. AccessLife
      BY <1>1, <1>2, <3>2
    <3>5. access[b].left \in 0 .. AccessLife
      BY <1>2
    <3> QED
      BY <1>2, <2>2, <2>3, <3>2, <3>3, <3>4, <3>5
  <2> QED
    BY <1>1, <2>1, <2>2, <2>3 DEF SignedOutInv, StoredFirst, OutJustNow, TokensRunOut
<1> QED
  BY <1>s, <1>b, <1>t DEF Next

(***************************************************************************)
(* SteadyStaysSignedIn.                                                    *)
(***************************************************************************)

\* The renewals that will succeed go on and nobody's cookies change.
LEMMA RenewalsUntouched ==
    ASSUME TypeOK, RenewedInTime,
           access' = access, refresh' = refresh, timer' = timer,
           steady' \subseteq steady, hashed \subseteq hashed',
           \A q \in requests :
               /\ q.browser \in steady'
               /\ q.pc = "renewed" \/ (q.pc = "guard" /\ q.user \in hashed)
               => q \in requests'
    PROVE  RenewedInTime'
<1> SUFFICES ASSUME NEW b \in steady'
             PROVE  /\ Held(access[b]) /\ Held(refresh[b])
                    /\ refresh[b].user \in hashed'
                    /\ access[b].left > timer[b] \/ Renewing(b)'
  BY DEF RenewedInTime
<1>1. /\ Held(access[b]) /\ Held(refresh[b])
      /\ refresh[b].user \in hashed
      /\ access[b].left > timer[b] \/ Renewing(b)
  BY DEF RenewedInTime
<1>2. ASSUME Renewing(b) PROVE Renewing(b)'
  BY <1>1, <1>2 DEF Renewing
<1> QED
  BY <1>1, <1>2

\* A renewal under way is of a browser that is steady on its own account.
LEMMA SteadyStep ==
    ASSUME TypeOK, StoredFirst, RenewedInTime, Next
    PROVE  RenewedInTime'
<1> USE NoUserAssumption, LifeAssumption
<1>1. /\ requests \subseteq Request
      /\ \A r \in requests : r.user \in Emails /\ r.browser \in Browsers
      /\ steady \subseteq Browsers
      /\ timer \in [Browsers -> 0 .. RenewEvery]
      /\ access \in [Browsers -> Cookie(AccessLife)]
      /\ refresh \in [Browsers -> Cookie(RefreshLife)]
  BY DEF TypeOK, Request
<1>2. \A b \in Browsers : access[b].left \in 0 .. AccessLife
  BY <1>1 DEF Cookie
<1>n. ASSUME NEW pc \in RequestPc, NEW b \in Browsers, NEW e \in Emails,
             NEW p \in OAuthProvider \cup {None},
             Send(pc, b, e, p), UNCHANGED <<usersVars, cookieVars, historyVars>>
      PROVE  RenewedInTime'
  <2>1. requests \subseteq requests'
    BY <1>1, <1>n, Sent
  <2> QED
    BY <1>n, <2>1, RenewalsUntouched DEF usersVars, cookieVars, historyVars
<1>a. ASSUME NEW r \in requests, NEW pc \in RequestPc, Await(r, pc),
             r.pc \notin {"guard", "renewed"},
             hashed \subseteq hashed', access' = access, refresh' = refresh,
             timer' = timer, steady' = steady
      PROVE  RenewedInTime'
  <2>1. \A q \in requests : q # r => q \in requests'
    BY <1>1, <1>a, Awaited
  <2> QED
    BY <1>a, <2>1, RenewalsUntouched
<1>s. ASSUME NEW r \in requests, Server(r)
      PROVE  RenewedInTime'
  <2>1. CASE CreateUser(r)
    BY <1>a, <2>1 DEF CreateUser, Insert, RequestPc, cookieVars, historyVars
  <2>2. CASE CreateWithOAuth(r)
    BY <1>a, <2>2 DEF CreateWithOAuth, InsertWithOAuth, Insert, RequestPc,
                      cookieVars, historyVars
  <2>3. CASE LookForUser(r)
    BY <1>a, <2>3 DEF LookForUser, RequestPc, usersVars, cookieVars, historyVars
  <2>4. CASE FindUser(r)
    BY <1>a, <2>4 DEF FindUser, RequestPc, usersVars, cookieVars, historyVars
  <2>5. CASE UpdateUser(r)
    BY <1>a, <2>5 DEF UpdateUser, RequestPc, usersVars, cookieVars, historyVars
  <2>6. CASE ValidateCredentials(r)
    BY <1>a, <2>6
    DEF ValidateCredentials, RequestPc, usersVars, cookieVars, historyVars
  <2>7. CASE StoreRefreshToken(r)
    BY <1>a, <2>7 DEF StoreRefreshToken, SetRefreshToken, RequestPc, cookieVars
  <2>8. CASE AnswerSignIn(r)
    <3> DEFINE b == r.browser
    <3>1. /\ access' = [access EXCEPT ![b] = Token(r.user, AccessLife)]
          /\ refresh' = [refresh EXCEPT ![b] = Token(r.user, RefreshLife)]
          /\ timer' = [timer EXCEPT ![b] = RenewEvery]
          /\ steady' = IF r.void THEN steady \ {b} ELSE steady \cup {b}
          /\ hashed' = hashed
          /\ r.pc = "signed"
      BY <2>8 DEF AnswerSignIn, usersVars
    <3>2. \A q \in requests : q # r => q \in requests'
      BY <1>1, <2>8, Finished DEF AnswerSignIn
    <3>3. ASSUME b \in steady'
          PROVE  /\ Held(access'[b]) /\ Held(refresh'[b])
                 /\ refresh'[b].user \in hashed'
                 /\ access'[b].left > timer'[b]
      BY <1>1, <3>1, <3>3, TokenType DEF StoredFirst, Held
    <3>4. ASSUME NEW c \in steady', c # b
          PROVE  /\ Held(access'[c]) /\ Held(refresh'[c])
                 /\ refresh'[c].user \in hashed'
                 /\ access'[c].left > timer'[c] \/ Renewing(c)'
      <4>1. /\ access'[c] = access[c] /\ refresh'[c] = refresh[c]
            /\ timer'[c] = timer[c] /\ c \in steady
        BY <1>1, <3>1, <3>4
      <4>2. Renewing(c) => Renewing(c)'
        BY <3>1, <3>2, <4>1 DEF Renewing
      <4> QED
        BY <3>1, <4>1, <4>2 DEF RenewedInTime
    <3> QED
      BY <3>3, <3>4 DEF RenewedInTime
  <2>9. CASE Guard(r)
    <3>1. /\ \A q \in requests : q # r => q \in requests'
          /\ \E q \in requests' : q.pc = "renewed" /\ Same(q, r)
          /\ r.pc = "guard"
          /\ access' = access /\ refresh' = refresh /\ timer' = timer
          /\ steady' = steady /\ hashed' = hashed
      BY <1>1, <2>9, Awaited
      DEF Guard, RequestPc, usersVars, cookieVars, historyVars
    <3>2. ASSUME NEW b \in steady, Renewing(b) PROVE Renewing(b)'
      BY <3>1, <3>2 DEF Renewing, Same
    <3> QED
      BY <3>1, <3>2 DEF RenewedInTime
  <2>10. CASE AnswerRenewal(r)
    <3> DEFINE b == r.browser
    <3>1. /\ access' = [access EXCEPT ![b] = Token(r.user, AccessLife)]
          /\ refresh' = refresh /\ timer' = timer
          /\ steady' = steady /\ hashed' = hashed
      BY <2>10 DEF AnswerRenewal, usersVars, historyVars
    <3>2. \A q \in requests : q # r => q \in requests'
      BY <1>1, <2>10, Finished DEF AnswerRenewal
    <3>3. Held(access'[b]) /\ access'[b].left > timer'[b]
      BY <1>1, <3>1, TokenType DEF Held
    <3>4. ASSUME NEW c \in steady, c # b
          PROVE  access'[c] = access[c] /\ (Renewing(c) => Renewing(c)')
      BY <1>1, <3>1, <3>2, <3>4 DEF Renewing
    <3> QED
      BY <3>1, <3>3, <3>4 DEF RenewedInTime
  <2>11. CASE ForgetRefreshToken(r)
    <3>1. \A q \in requests : q.pc \in {"guard", "renewed"} => q \in requests'
      BY <1>1, <2>11, Forgotten DEF ForgetRefreshToken
    <3>2. /\ access' = access /\ refresh' = refresh /\ timer' = timer
          /\ steady' = {b \in steady : refresh[b].user # r.user}
          /\ hashed' = hashed \ {r.user}
      BY <2>11 DEF ForgetRefreshToken, RemoveRefreshToken, cookieVars
    <3>3. ASSUME NEW b \in steady, Renewing(b) PROVE Renewing(b)'
      BY <3>1, <3>2, <3>3 DEF Renewing
    <3> QED
      BY <3>2, <3>3 DEF RenewedInTime
  <2>12. CASE AnswerSignOut(r)
    <3> DEFINE b == r.browser
    <3>1. /\ access' = [access EXCEPT ![b] = NoCookie]
          /\ refresh' = [refresh EXCEPT ![b] = NoCookie]
          /\ timer' = [timer EXCEPT ![b] = RenewEvery]
          /\ steady' = steady \ {b} /\ hashed' = hashed
          /\ r.pc = "cleared"
      BY <2>12 DEF AnswerSignOut, usersVars
    <3>2. \A q \in requests : q # r => q \in requests'
      BY <1>1, <2>12, Finished DEF AnswerSignOut
    <3>3. ASSUME NEW c \in steady'
          PROVE  /\ access'[c] = access[c] /\ refresh'[c] = refresh[c]
                 /\ timer'[c] = timer[c] /\ c \in steady
                 /\ Renewing(c) => Renewing(c)'
      BY <1>1, <3>1, <3>2, <3>3 DEF Renewing
    <3> QED
      BY <3>1, <3>3 DEF RenewedInTime
  <2>13. CASE Refuse(r)
    <3>1. ~ (r.pc = "renewed" \/ (r.pc = "guard" /\ r.user \in hashed))
      BY <2>13 DEF Refuse, FindByRefreshToken
    <3> QED
      BY <1>1, <2>13, <3>1, Finished, RenewalsUntouched
      DEF Refuse, usersVars, cookieVars, historyVars
  <2>14. CASE Lose(r)
    BY <1>1, <2>14, Finished, RenewalsUntouched DEF Lose, usersVars, cookieVars
  <2> QED
    BY <1>s, <2>1, <2>2, <2>3, <2>4, <2>5, <2>6, <2>7, <2>8, <2>9, <2>10, <2>11,
       <2>12, <2>13, <2>14
    DEF Server
<1>b. ASSUME NEW b \in Browsers, Browser(b)
      PROVE  RenewedInTime'
  <2>1. /\ Held(refresh[b]) => refresh[b].user \in Emails
        /\ Held(access[b]) => access[b].user \in Emails
    BY DEF TypeOK, Cookie
  <2>2. ASSUME NEW e \in Emails,
               SignUp(b, e) \/ SignIn(b, e) \/ SignInWithGoogle(b, e)
                   \/ SignInWithNaver(b, e)
        PROVE  RenewedInTime'
    BY <1>n, <2>2 DEF SignUp, SignIn, SignInWithGoogle, SignInWithNaver,
                      SignInWith, OAuthProvider, RequestPc
  <2>3. CASE Renew(b)
    <3>1. /\ timer[b] = 0 /\ timer' = [timer EXCEPT ![b] = RenewEvery]
          /\ access' = access /\ refresh' = refresh
          /\ steady' = steady /\ hashed' = hashed
      BY <2>3 DEF Renew, usersVars, historyVars
    <3>2. requests \subseteq requests'
      BY <1>1, <2>1, <2>3, Sent DEF Renew, RequestPc
    <3>3. ASSUME b \in steady PROVE Renewing(b)'
      <4>1. Held(refresh[b])
        BY <3>3 DEF RenewedInTime
      <4>2. Send("guard", b, refresh[b].user, None)
        BY <2>3, <4>1 DEF Renew
      <4> DEFINE n(id) == [id |-> id, pc |-> "guard", browser |-> b,
                           user |-> refresh[b].user, via |-> None, void |-> FALSE]
      <4>3. PICK id \in RequestIds : requests' = requests \cup {n(id)}
        BY <4>2 DEF Send
      <4>4. n(id).browser = b /\ n(id).pc = "guard" /\ n(id).user = refresh'[b].user
        BY <3>1
      <4> HIDE DEF n
      <4> QED
        BY <4>3, <4>4 DEF Renewing
    <3>4. ASSUME NEW c \in steady, c # b
          PROVE  timer'[c] = timer[c] /\ (Renewing(c) => Renewing(c)')
      BY <1>1, <3>1, <3>2, <3>4 DEF Renewing
    <3> QED
      BY <3>1, <3>3, <3>4 DEF RenewedInTime
  <2>4. CASE RenewInTab(b)
    BY <1>n, <2>1, <2>4 DEF RenewInTab, RequestPc
  <2>5. CASE SignOut(b)
    BY <1>n, <2>1, <2>5 DEF SignOut, RequestPc
  <2>6. CASE Load(b)
    <3>1. /\ access' = access /\ refresh' = refresh /\ hashed' = hashed
          /\ requests' = requests
          /\ timer' = [timer EXCEPT ![b] = RenewEvery]
          /\ steady' \subseteq steady
          /\ b \in steady' => access[b].left > RenewEvery
      BY <2>6 DEF Load, usersVars
    <3>2. \A c \in steady' : Renewing(c) => Renewing(c)'
      BY <3>1 DEF Renewing
    <3> QED
      BY <1>1, <3>1, <3>2 DEF RenewedInTime
  <2> QED
    BY <1>b, <2>2, <2>3, <2>4, <2>5, <2>6 DEF Browser
<1>t. CASE Tick
  <2> SUFFICES ASSUME NEW b \in steady'
               PROVE  /\ Held(access'[b]) /\ Held(refresh'[b])
                      /\ refresh'[b].user \in hashed'
                      /\ access'[b].left > timer'[b]
    BY DEF RenewedInTime
  <2>1. /\ b \in steady /\ b \in Browsers
        /\ refresh[b].left > 1 /\ timer[b] > 0
        /\ access'[b] = Older(access[b]) /\ refresh'[b] = Older(refresh[b])
        /\ timer'[b] = timer[b] - 1
        /\ hashed' = hashed
    BY <1>1, <1>t DEF Tick, usersVars
  <2>2. ~ Renewing(b)
    BY <1>t DEF Tick, Renewing
  <2>3. /\ access[b].left > timer[b]
        /\ refresh[b].user \in hashed
    BY <2>1, <2>2 DEF RenewedInTime
  <2>4. timer[b] \in Nat /\ access[b].left \in Nat
    BY <1>1, <1>2, <2>1
  <2>5. access[b].left > 1
    BY <2>1, <2>3, <2>4
  <2>6. Held(access'[b]) /\ access'[b].left = access[b].left - 1
    BY <1>1, <2>1, <2>5, OlderType
  <2>7. Held(refresh'[b]) /\ refresh'[b].user = refresh[b].user
    BY <1>1, <2>1, OlderType
  <2> QED
    BY <2>1, <2>3, <2>4, <2>6, <2>7
<1> QED
  BY <1>s, <1>b, <1>t DEF Next

(***************************************************************************)
(* The invariant.                                                          *)
(***************************************************************************)

LEMMA SessionInit == Init => SessionInv
<1> SUFFICES ASSUME Init PROVE SessionInv
  OBVIOUS
<1>1. TypeOK
  BY InitType
<1> QED
  BY <1>1, TokenType
  DEF Init, UsersInit, SessionInv, ProviderKept, PasswordOnly, StoredFirst,
      OutJustNow, TokensRunOut, RenewedInTime, Held, NoCookie

LEMMA SessionStep == SessionInv /\ [Next]_vars => SessionInv'
<1>1. ASSUME SessionInv, Next PROVE SessionInv'
  <2>1. TypeOK'
    BY <1>1, TypeStep DEF SessionInv
  <2>2. ProviderKept' /\ PasswordOnly'
    BY <1>1, ProviderStep DEF SessionInv
  <2>3. SignedOutInv'
    BY <1>1, SignedOutStep DEF SessionInv, SignedOutInv
  <2>4. RenewedInTime'
    BY <1>1, SteadyStep DEF SessionInv
  <2> QED
    BY <2>1, <2>2, <2>3, <2>4 DEF SessionInv, SignedOutInv
<1>2. ASSUME SessionInv, UNCHANGED vars PROVE SessionInv'
  <2>1. TypeOK'
    BY <1>2, TypeStep DEF SessionInv
  <2>2. \A b \in Browsers : Renewing(b)' <=> Renewing(b)
    BY <1>2 DEF Renewing, vars, cookieVars
  <2>3. steady \subseteq Browsers
    BY <1>2 DEF SessionInv, TypeOK
  <2>4. RenewedInTime'
    BY <1>2, <2>2, <2>3
    DEF SessionInv, RenewedInTime, vars, usersVars, cookieVars, historyVars
  <2> QED
    BY <1>2, <2>1, <2>4
    DEF SessionInv, ProviderKept, PasswordOnly, StoredFirst, OutJustNow,
        TokensRunOut, vars, usersVars, cookieVars, historyVars
<1> QED
  BY <1>1, <1>2

LEMMA SessionInvariant == Spec => []SessionInv
  BY SessionInit, SessionStep, PTL DEF Spec

\* No sign-in with Google or Naver ends in an account of another provider,
\* however many first sign-ins and sign-ups race for an e-mail
\* (auth.service.ts findOrCreateGoogle(), findOrCreateNaver()).
THEOREM ProviderIsKept == Spec => []ProviderKept
<1>1. SessionInv => ProviderKept
  BY DEF SessionInv
<1> QED
  BY <1>1, SessionInvariant, PTL

\* An account that signed out anywhere is signed in nowhere once an access
\* token's life has passed (auth.controller.ts signout(),
\* users.service.ts findByRefreshToken()).
THEOREM SignOutReachesAll == Spec => []SignedOutEverywhere
<1>1. SessionInv => SignedOutEverywhere
  <2> SUFFICES ASSUME SessionInv, NEW b \in Browsers,
                      Held(access[b]), access[b].user \notin hashed
               PROVE  sinceOut[access[b].user] < AccessLife
    BY DEF SignedOutEverywhere
  <2>1. access[b].left + sinceOut[access[b].user] <= AccessLife
    BY DEF SessionInv, TokensRunOut
  <2>2. access[b].left \in Nat /\ access[b].user \in Emails
    BY LifeAssumption DEF SessionInv, TypeOK, Cookie
  <2>3. sinceOut[access[b].user] \in Nat
    BY <2>2, LifeAssumption DEF SessionInv, TypeOK
  <2> QED
    BY <2>1, <2>2, <2>3, LifeAssumption DEF Held
<1> QED
  BY <1>1, SessionInvariant, PTL

\* A page that stays open keeps its user signed in, whatever its tabs do, as
\* long as the refresh token lives and is stored (common.js setInterval(),
\* auth.controller.ts refreshToken()).
THEOREM SteadyIsSignedIn == Spec => []SteadyStaysSignedIn
<1>1. SessionInv => SteadyStaysSignedIn
  BY DEF SessionInv, RenewedInTime, SteadyStaysSignedIn
<1> QED
  BY <1>1, SessionInvariant, PTL

=============================================================================
