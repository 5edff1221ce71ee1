---------------------------- MODULE AuthSession ----------------------------
(***************************************************************************)
(* Who is signed in: AuthController and AuthService, the two token cookies *)
(* of every browser, and the timer with which its page renews the access   *)
(* token.                                                                  *)
(*                                                                         *)
(* A request is a call of AuthController under way; pc is the await it     *)
(* stands at, or that its answer is on the way.  A browser sends several   *)
(* at once: its tabs share the cookies.                                    *)
(*                                                                         *)
(* Time passes in ticks.  A cookie has the number of ticks its token, and  *)
(* the cookie itself, still live; a request takes less than a tick.        *)
(***************************************************************************)
EXTENDS UsersService, Integers

CONSTANTS
    NoUser,
    Browsers,
    RequestIds,   \* bound: the requests under way at a time
    AccessLife,   \* JWT_ACCESS_TOKEN_EXPIRATION, in ticks
    RefreshLife,  \* JWT_REFRESH_TOKEN_EXPIRATION, in ticks
    RenewEvery    \* tokenRefreshInterval, in ticks

ASSUME NoUserAssumption == NoUser \notin Emails

\* Half an hour, a day and a quarter of an hour in docker-compose.yml and
\* common.js.
ASSUME LifeAssumption ==
    /\ AccessLife \in Nat
    /\ RefreshLife \in Nat \ {0}
    /\ RenewEvery \in Nat \ {0}
    /\ RenewEvery < AccessLife

VARIABLES
    access,    \* the access_token cookie of a browser
    refresh,   \* its refresh_token cookie
    timer,     \* ticks until the page of a browser renews its token
    requests,  \* the calls of AuthController under way
    sinceOut,  \* history: ticks since the account signed out, up to AccessLife
    steady,    \* history: the browsers that signed in and did nothing since
               \* that ends their session or puts off its renewal
    out        \* history: the browsers that signed out and not in again

cookieVars == <<access, refresh, timer>>
historyVars == <<sinceOut, steady, out>>
vars == <<usersVars, cookieVars, requests, historyVars>>

Cookie(life) == [user: Emails \cup {NoUser}, left: 0 .. life]

NoCookie == [user |-> NoUser, left |-> 0]

Held(cookie) == cookie.left > 0

\* sign-up: "insert"; sign-in: "validate", "store", "signed"; Google and
\* Naver: "exists", "find" or "insert", "store", "signed", Naver with "update"
\* after "find"; renewal: "guard", "renewed"; sign-out: "remove", "cleared".
RequestPc == {"insert", "validate", "exists", "find", "update", "store",
              "signed", "guard", "renewed", "remove", "cleared"}

\* void is history: the account signed out since this sign-in was stored.
Request == [id: RequestIds, pc: RequestPc, browser: Browsers, user: Emails,
            via: OAuthProvider \cup {None}, void: BOOLEAN]

TypeOK ==
    /\ UsersTypeOK
    /\ access \in [Browsers -> Cookie(AccessLife)]
    /\ refresh \in [Browsers -> Cookie(RefreshLife)]
    /\ \A b \in Browsers : /\ Held(access[b]) => access[b].user # NoUser
                           /\ Held(refresh[b]) => refresh[b].user # NoUser
    /\ timer \in [Browsers -> 0 .. RenewEvery]
    /\ requests \subseteq Request
    /\ sinceOut \in [Emails -> 0 .. AccessLife]
    /\ steady \subseteq Browsers
    /\ out \subseteq Browsers

Init ==
    /\ UsersInit
    /\ access = [b \in Browsers |-> NoCookie]
    /\ refresh = [b \in Browsers |-> NoCookie]
    /\ timer = [b \in Browsers |-> RenewEvery]
    /\ requests = {}
    /\ sinceOut = [e \in Emails |-> 0]
    /\ steady = {}
    /\ out = {}

\* createToken() and createCookieOptions()
Token(e, life) == [user |-> e, left |-> life]

Send(pc, b, e, p) ==
    \E id \in RequestIds :
        /\ \A r \in requests : r.id # id
        /\ requests' = requests \cup
              {[id |-> id, pc |-> pc, browser |-> b, user |-> e, via |-> p,
                void |-> FALSE]}

Await(r, pc) == requests' = (requests \ {r}) \cup {[r EXCEPT !.pc = pc]}

Finish(r) == requests' = requests \ {r}

-----------------------------------------------------------------------------
(* Accounts: sign-up, Google and Naver *)

SignUp(b, e) ==
    /\ Send("insert", b, e, None)
    /\ UNCHANGED <<usersVars, cookieVars, historyVars>>

\* The page signs in with what it has just signed up with.
CreateUser(r) ==
    /\ r.pc = "insert" /\ r.via = None
    /\ Insert(r.user, None)
    /\ Await(r, "validate")
    /\ UNCHANGED <<cookieVars, historyVars>>

\* The request is under way once the provider has told the e-mail.
SignInWith(b, e, p) ==
    /\ Send("exists", b, e, p)
    /\ UNCHANGED <<usersVars, cookieVars, historyVars>>

SignInWithGoogle(b, e) == SignInWith(b, e, "google")

SignInWithNaver(b, e) == SignInWith(b, e, "naver")

LookForUser(r) ==
    /\ r.pc = "exists"
    /\ Await(r, IF Exists(r.user) THEN "find" ELSE "insert")
    /\ UNCHANGED <<usersVars, cookieVars, historyVars>>

FindUser(r) ==
    /\ r.pc = "find"
    /\ provider[r.user] = r.via
    /\ Await(r, IF r.via = "naver" THEN "update" ELSE "store")
    /\ UNCHANGED <<usersVars, cookieVars, historyVars>>

\* What findOrCreateNaver() calls update() with is a string, in which
\* Mongoose finds no field of a user: nothing is changed.
UpdateUser(r) ==
    /\ r.pc = "update"
    /\ Await(r, "store")
    /\ UNCHANGED <<usersVars, cookieVars, historyVars>>

CreateWithOAuth(r) ==
    /\ r.pc = "insert" /\ r.via # None
    /\ InsertWithOAuth(r.user, r.via)
    /\ Await(r, "store")
    /\ UNCHANGED <<cookieVars, historyVars>>

-----------------------------------------------------------------------------
(* Sign-in *)

SignIn(b, e) ==
    /\ Send("validate", b, e, None)
    /\ UNCHANGED <<usersVars, cookieVars, historyVars>>

\* validateCredentials(); a wrong password is a Refuse().
ValidateCredentials(r) ==
    /\ r.pc = "validate"
    /\ Exists(r.user)
    /\ Await(r, "store")
    /\ UNCHANGED <<usersVars, cookieVars, historyVars>>

StoreRefreshToken(r) ==
    /\ r.pc = "store"
    /\ SetRefreshToken(r.user)
    /\ Await(r, "signed")
    /\ sinceOut' = [sinceOut EXCEPT ![r.user] = 0]
    /\ UNCHANGED <<cookieVars, steady, out>>

\* The answer sets both cookies and the browser goes to the front page.
AnswerSignIn(r) ==
    LET b == r.browser IN
    /\ r.pc = "signed"
    /\ access' = [access EXCEPT ![b] = Token(r.user, AccessLife)]
    /\ refresh' = [refresh EXCEPT ![b] = Token(r.user, RefreshLife)]
    /\ timer' = [timer EXCEPT ![b] = RenewEvery]
    /\ Finish(r)
    /\ steady' = IF r.void THEN steady \ {b} ELSE steady \cup {b}
    /\ out' = out \ {b}
    /\ UNCHANGED <<usersVars, sinceOut>>

-----------------------------------------------------------------------------
(* Renewal *)

\* Mutant of Renew: the strategy takes whatever cookie there is.
RenewUnheld(b) ==
    /\ timer[b] = 0
    /\ timer' = [timer EXCEPT ![b] = RenewEvery]
    /\ Send("guard", b, refresh[b].user, None)
    /\ UNCHANGED <<usersVars, access, refresh, historyVars>>

\* setInterval(refreshAccessToken): without a token the answer is 401.
Renew(b) ==
    /\ timer[b] = 0
    /\ timer' = [timer EXCEPT ![b] = RenewEvery]
    /\ IF Held(refresh[b]) THEN Send("guard", b, refresh[b].user, None)
       ELSE UNCHANGED requests
    /\ UNCHANGED <<usersVars, access, refresh, historyVars>>

\* The timer of another tab goes off.
RenewInTab(b) ==
    /\ Held(refresh[b])
    /\ Send("guard", b, refresh[b].user, None)
    /\ UNCHANGED <<usersVars, cookieVars, historyVars>>

\* JwtRefreshStrategy
Guard(r) ==
    /\ r.pc = "guard"
    /\ FindByRefreshToken(r.user)
    /\ Await(r, "renewed")
    /\ UNCHANGED <<usersVars, cookieVars, historyVars>>

AnswerRenewal(r) ==
    /\ r.pc = "renewed"
    /\ access' = [access EXCEPT ![r.browser] = Token(r.user, AccessLife)]
    /\ Finish(r)
    /\ UNCHANGED <<usersVars, refresh, timer, historyVars>>

-----------------------------------------------------------------------------
(* Sign-out *)

\* JwtAuthGuard lets the account of the access token through.
SignOut(b) ==
    /\ Held(access[b])
    /\ Send("remove", b, access[b].user, None)
    /\ UNCHANGED <<usersVars, cookieVars, historyVars>>

ForgetRefreshToken(r) ==
    LET revoked == {q \in requests : q.pc = "signed" /\ q.user = r.user} IN
    /\ r.pc = "remove"
    /\ RemoveRefreshToken(r.user)
    /\ requests' = (requests \ (revoked \cup {r}))
                   \cup {[q EXCEPT !.void = TRUE] : q \in revoked}
                   \cup {[r EXCEPT !.pc = "cleared"]}
    /\ steady' = {b \in steady : refresh[b].user # r.user}
    /\ UNCHANGED <<cookieVars, sinceOut, out>>

\* The answer clears both cookies and the page is loaded anew.
AnswerSignOut(r) ==
    LET b == r.browser IN
    /\ r.pc = "cleared"
    /\ access' = [access EXCEPT ![b] = NoCookie]
    /\ refresh' = [refresh EXCEPT ![b] = NoCookie]
    /\ timer' = [timer EXCEPT ![b] = RenewEvery]
    /\ Finish(r)
    /\ steady' = steady \ {b}
    /\ out' = out \cup {b}
    /\ UNCHANGED <<usersVars, sinceOut>>

-----------------------------------------------------------------------------

\* Another page is loaded: its timer starts from the beginning, and the
\* token may expire before it ends.
Load(b) ==
    /\ timer[b] # RenewEvery
    /\ timer' = [timer EXCEPT ![b] = RenewEvery]
    /\ steady' = IF access[b].left > RenewEvery THEN steady ELSE steady \ {b}
    /\ UNCHANGED <<usersVars, access, refresh, requests, sinceOut, out>>

\* The e-mail is taken, by another provider or by a request that was faster;
\* the password is wrong; the account has no refresh token.
Refuse(r) ==
    /\ \/ r.pc = "insert" /\ Exists(r.user)
       \/ r.pc = "find" /\ provider[r.user] # r.via
       \/ r.pc = "validate"
       \/ r.pc = "guard" /\ ~ FindByRefreshToken(r.user)
    /\ Finish(r)
    /\ UNCHANGED <<usersVars, cookieVars, historyVars>>

\* A call rejects, the instance stops, or the answer is lost.
Lose(r) ==
    /\ Finish(r)
    /\ steady' = steady \ {r.browser}
    /\ UNCHANGED <<usersVars, cookieVars, sinceOut, out>>

Older(cookie) ==
    IF cookie.left > 1 THEN [cookie EXCEPT !.left = @ - 1] ELSE NoCookie

\* Timers that are due go off and requests are answered within the tick.
Tick ==
    /\ requests = {}
    /\ \A b \in Browsers : timer[b] > 0
    /\ access' = [b \in Browsers |-> Older(access[b])]
    /\ refresh' = [b \in Browsers |-> Older(refresh[b])]
    /\ timer' = [b \in Browsers |-> timer[b] - 1]
    /\ sinceOut' = [e \in Emails |->
          IF e \in hashed THEN 0
          ELSE IF sinceOut[e] < AccessLife THEN sinceOut[e] + 1 ELSE AccessLife]
    /\ steady' = {b \in steady : refresh[b].left > 1}
    /\ UNCHANGED <<usersVars, requests, out>>

Server(r) ==
    \/ CreateUser(r) \/ CreateWithOAuth(r)
    \/ LookForUser(r) \/ FindUser(r) \/ UpdateUser(r)
    \/ ValidateCredentials(r) \/ StoreRefreshToken(r) \/ AnswerSignIn(r)
    \/ Guard(r) \/ AnswerRenewal(r)
    \/ ForgetRefreshToken(r) \/ AnswerSignOut(r)
    \/ Refuse(r) \/ Lose(r)

Browser(b) ==
    \/ \E e \in Emails : \/ SignUp(b, e) \/ SignIn(b, e)
                       \/ SignInWithGoogle(b, e) \/ SignInWithNaver(b, e)
    \/ Renew(b) \/ RenewInTab(b) \/ SignOut(b) \/ Load(b)

Next ==
    \/ \E r \in requests : Server(r)
    \/ \E b \in Browsers : Browser(b)
    \/ Tick

Spec == Init /\ [][Next]_vars

-----------------------------------------------------------------------------

\* Whoever signs in with Google or Naver is signed in to an account of this
\* provider, even if two first sign-ins, or a sign-up, race for the e-mail
\* (auth.service.ts findOrCreateGoogle(), findOrCreateNaver()).
ProviderKept ==
    \A r \in requests :
        r.via # None /\ r.pc \in {"update", "store", "signed"} =>
            provider[r.user] = r.via

\* The sign-out of an account ends its sessions in all browsers, at the latest
\* when the last access token has expired, whatever renewals were under way
\* (auth.controller.ts signout(), users.service.ts findByRefreshToken()).
SignedOutEverywhere ==
    \A b \in Browsers :
        Held(access[b]) /\ access[b].user \notin hashed =>
            sinceOut[access[b].user] < AccessLife

\* A browser whose page stays open, or is left early enough, has an access
\* token until its account signs out somewhere or the refresh token expires,
\* whatever accounts its tabs sign in to (common.js setInterval(),
\* auth.controller.ts signIn(), refreshToken()).
SteadyStaysSignedIn == \A b \in steady : Held(access[b])

\* A browser that signed out has no access token until it signs in: "should
\* sign out a user." (test/auth.e2e-spec.ts, auth.controller.ts signout()).
SignedOutStaysOut == \A b \in out : ~ Held(access[b])
-----------------------------------------------------------------------------
(* The invariant the proofs rest on.                                       *)

\* Only a provider's sign-in that found or made its account is stored.
PasswordOnly == \A r \in requests : r.pc = "validate" => r.via = None

\* A sign-in on its way to the browser is of an account that has a refresh
\* token, unless it signed out meanwhile.
StoredFirst ==
    \A r \in requests : r.pc = "signed" /\ ~ r.void => r.user \in hashed

\* An account that has a refresh token has not signed out, and one whose new
\* tokens are on their way signed out in this tick.
OutJustNow ==
    /\ \A e \in hashed : sinceOut[e] = 0
    /\ \A r \in requests :
          r.pc \in {"signed", "renewed"} => sinceOut[r.user] = 0

\* What is left of an access token after the sign-out gets less every tick.
TokensRunOut ==
    \A b \in Browsers :
        Held(access[b]) /\ access[b].user \notin hashed =>
            access[b].left + sinceOut[access[b].user] <= AccessLife

\* A renewal that will succeed.
Renewing(b) ==
    \E r \in requests :
        /\ r.browser = b
        /\ \/ r.pc = "renewed"
           \/ r.pc = "guard" /\ r.user = refresh[b].user

\* The token of a steady browser outlives the timer, or is being renewed.
RenewedInTime ==
    \A b \in steady :
        /\ Held(access[b]) /\ Held(refresh[b])
        /\ refresh[b].user \in hashed
        /\ access[b].left > timer[b] \/ Renewing(b)

SessionInv ==
    /\ TypeOK
    /\ ProviderKept
    /\ PasswordOnly
    /\ StoredFirst
    /\ OutJustNow
    /\ TokensRunOut
    /\ RenewedInTime

=============================================================================
