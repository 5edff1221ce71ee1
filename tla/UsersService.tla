---------------------------- MODULE UsersService ----------------------------
(***************************************************************************)
(* The users collection: one account per e-mail address, the provider it   *)
(* was made with, and the hash of its refresh token.                       *)
(*                                                                         *)
(* A document is created as a whole and its e-mail has a unique index, so  *)
(* that an account is known by its e-mail.  Accounts are never deleted.    *)
(*                                                                         *)
(* bcrypt hashes the first 72 bytes of what it is given.  Of a refresh     *)
(* token these are the header and the account's id, so that the hash tells *)
(* whose token was stored last and not which: hashed is the set of the     *)
(* accounts whose refreshToken is a hash, not null.                        *)
(***************************************************************************)
CONSTANT Emails

None == "none"

OAuthProvider == {"google", "naver"}

Absent == "absent"

VARIABLES
    provider,  \* user.oAuthProvider of the account of an e-mail, or Absent
    hashed     \* the accounts whose user.refreshToken is not null

usersVars == <<provider, hashed>>

UsersTypeOK ==
    /\ provider \in [Emails -> OAuthProvider \cup {None, Absent}]
    /\ hashed \subseteq Emails

UsersInit ==
    /\ provider = [e \in Emails |-> Absent]
    /\ hashed = {}

\* exists(), findOne()
Exists(e) == provider[e] # Absent

\* create(), createWithOAuth(): the unique index refuses a second account.
Insert(e, p) ==
    /\ ~ Exists(e)
    /\ provider' = [provider EXCEPT ![e] = p]
    /\ UNCHANGED hashed

\* Mutant of InsertWithOAuth: an upsert, which takes whoever has the e-mail.
UpsertWithOAuth(e, p) ==
    /\ provider' = [provider EXCEPT ![e] = IF Exists(e) THEN @ ELSE p]
    /\ UNCHANGED hashed

\* createWithOAuth()
InsertWithOAuth(e, p) == Insert(e, p)

\* Mutant of SetRefreshToken: the document is changed and never saved.
SetRefreshTokenUnsaved(e) == UNCHANGED usersVars

\* setRefreshToken(): findOneAndUpdate() of one field.
SetRefreshToken(e) ==
    /\ hashed' = hashed \cup {e}
    /\ UNCHANGED provider

\* removeRefreshToken()
RemoveRefreshToken(e) ==
    /\ hashed' = hashed \ {e}
    /\ UNCHANGED provider

\* Mutant of FindByRefreshToken: the signature of the token is enough.
FindByIdOfToken(e) == Exists(e)

\* findByRefreshToken(), for the account the token names, which exists:
\* compare() finds every refresh token of the account equal to a stored one,
\* and throws when there is none.
FindByRefreshToken(e) == e \in hashed

=============================================================================
