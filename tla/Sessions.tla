------------------------------ MODULE Sessions ------------------------------
(***************************************************************************)
(* The sessions of one user: login, refresh with rotation, and the reset   *)
(* of the password by a mailed token, which ends them.  None of the        *)
(* handlers runs in a transaction: every statement commits by itself.      *)
(***************************************************************************)
EXTENDS Integers, Sequences, FiniteSets

CONSTANTS
    Workers,          \* request workers
    RequireVerified,  \* LOGIN_REQUIRE_VERIFIED_EMAIL
    MaxTokens,        \* bound: refresh tokens
    MaxPasswords,     \* bound: passwords the user has had
    MaxMails,         \* bound: reset tokens
    MaxFailures,      \* bound: how many requests are cut short
    Idle              \* a worker without a request

VARIABLES
    password,     \* accounts_user.password: which of the passwords it hashes
    login,        \* accounts_user.last_login: which of the logins was the last
    tokens,       \* the OutstandingTokens; a refresh token is a position here
    blacklisted,  \* the tokens with a BlacklistedToken
    held,         \* the tokens that a response has handed out
    mailed,       \* the fingerprints in the reset tokens that were mailed
    used,         \* auxiliary: those a reset has been done with
    job,          \* job[w]: the request worker w serves, and what it has read
    failures,     \* how many requests were cut short
    cutShort      \* auxiliary: one of them was a reset that had saved the password

user    == <<password, login>>
session == <<tokens, blacklisted, held>>
reset   == <<mailed, used>>
faults  == <<failures, cutShort>>
vars    == <<user, session, reset, job, faults>>

\* origin: the password its login was made with; parent: the token it was
\* rotated from, or 0; overlap: a reset ran while its request did.
Token == [origin : Nat, parent : Nat, overlap : BOOLEAN]

\* _password_reset_fingerprint: a hash of the password hash and last_login.
Fingerprint == <<password, login>>

\* A slip for the mutation runs: the fingerprint leaves the password out.
Opens_LoginOnly(fp) == fp[2] = login

\* A reset token is good for the user whose fingerprint it carries.
Opens(fp) == fp = Fingerprint

Job == [pc : {"rotate", "mint"}, token : Token, read : Nat]
         \cup [pc : {"touch"}, minted : Nat]
         \cup [pc : {"save"}, fp : Nat \X Nat]
         \cup [pc : {"list"}]
         \cup [pc : {"revoke"}, outstanding : SUBSET Nat]

ASSUME SessionsAssumption ==
    /\ RequireVerified \in BOOLEAN
    /\ MaxTokens \in Nat /\ MaxPasswords \in Nat
    /\ MaxMails \in Nat /\ MaxFailures \in Nat
    /\ IsFiniteSet(Workers)
    /\ Idle \notin Job

TypeOK ==
    /\ password \in 0..MaxPasswords /\ login \in 0..MaxTokens
    /\ tokens \in Seq(Token) /\ Len(tokens) <= MaxTokens
    /\ blacklisted \subseteq DOMAIN tokens /\ held \subseteq DOMAIN tokens
    /\ failures \in 0..MaxFailures /\ cutShort \in BOOLEAN
    /\ used \subseteq mailed /\ mailed \subseteq (0..MaxPasswords) \X (0..MaxTokens)
    /\ \A w \in Workers : job[w] # Idle => job[w] \in Job

Init ==
    /\ password = 0 /\ login = 0
    /\ tokens = <<>> /\ blacklisted = {} /\ held = {}
    /\ mailed = {} /\ used = {}
    /\ job = [w \in Workers |-> Idle]
    /\ failures = 0 /\ cutShort = FALSE

At(w, pc)    == job[w] # Idle /\ job[w].pc = pc
Become(w, j) == job' = [job EXCEPT ![w] = j]
Resetting    == \E w \in Workers : At(w, "list") \/ At(w, "revoke")

\* The bound leaves every login and refresh in progress its token.
TokensLeft == Len(tokens) + Cardinality({w \in Workers : At(w, "rotate") \/ At(w, "mint")})
                < MaxTokens
-----------------------------------------------------------------------------
(* POST /auth/login                                                        *)

\* The user is read and the password checked against it.
Authenticate(w) ==
    /\ job[w] = Idle
    /\ TokensLeft
    /\ Become(w, [pc |-> "mint", read |-> password,
                  token |-> [origin |-> password, parent |-> 0, overlap |-> Resetting]])
    /\ UNCHANGED <<user, session, reset, faults>>

\* RefreshToken.for_user, and the end of a rotation: a new OutstandingToken.  A
\* refresh responds with it, a login has last_login to write first.
MintToken(w) ==
    /\ At(w, "mint")
    /\ LET t == job[w].token
           n == Len(tokens) + 1
       IN /\ tokens' = Append(tokens, [t EXCEPT !.overlap =
                          @ \/ Resetting \/ job[w].read # password])
          /\ IF t.parent = 0
               THEN Become(w, [pc |-> "touch", minted |-> n]) /\ UNCHANGED held
               ELSE Become(w, Idle) /\ held' = held \cup {n}
    /\ UNCHANGED <<user, blacklisted, reset, faults>>

\* update_last_login, and the response; with LOGIN_REQUIRE_VERIFIED_EMAIL a user
\* whose address is not verified is refused here, when all is written.
TouchLogin(w) ==
    /\ At(w, "touch")
    /\ login' = login + 1
    /\ \/ held' = held \cup {job[w].minted}
       \/ RequireVerified /\ UNCHANGED held
    /\ Become(w, Idle)
    /\ UNCHANGED <<password, tokens, blacklisted, reset, faults>>
-----------------------------------------------------------------------------
(* POST /auth/refresh, ROTATE_REFRESH_TOKENS and BLACKLIST_AFTER_ROTATION  *)

\* The token's signature and the blacklist are checked.
CheckRefresh(w, t) ==
    /\ job[w] = Idle
    /\ TokensLeft
    /\ t \in held \ blacklisted
    /\ Become(w, [pc |-> "rotate", read |-> password,
                  token |-> [origin |-> tokens[t].origin, parent |-> t,
                             overlap |-> tokens[t].overlap \/ Resetting]])
    /\ UNCHANGED <<user, session, reset, faults>>

\* A slip for the mutation runs: the new token's id is set first.
BlacklistConsumed_NewId(w) ==
    /\ At(w, "rotate")
    /\ blacklisted' = blacklisted \cup {Len(tokens) + 1}
    /\ Become(w, [job[w] EXCEPT !.pc = "mint"])
    /\ UNCHANGED <<user, tokens, held, reset, faults>>

\* refresh.blacklist(): get_or_create.
BlacklistConsumed(w) ==
    /\ At(w, "rotate")
    /\ blacklisted' = blacklisted \cup {job[w].token.parent}
    /\ Become(w, [job[w] EXCEPT !.pc = "mint"])
    /\ UNCHANGED <<user, tokens, held, reset, faults>>
-----------------------------------------------------------------------------
(* POST /auth/password-reset, its mail, and /password-reset/confirm        *)

\* A request queues a task, and the task mints the token: it is for the user
\* as they are when the mail is sent.
SendReset ==
    /\ Cardinality(mailed) < MaxMails
    /\ mailed' = mailed \cup {Fingerprint}
    /\ UNCHANGED <<user, session, used, job, faults>>

\* read_password_reset_token: the user is read and the fingerprint compared.
CheckReset(w, fp) ==
    /\ job[w] = Idle
    /\ fp \in mailed
    /\ Opens(fp)
    /\ Become(w, [pc |-> "save", fp |-> fp])
    /\ UNCHANGED <<user, session, reset, faults>>

\* set_password and save(update_fields=["password"]); a hash is never the same
\* as one before.
SavePassword(w) ==
    /\ At(w, "save")
    /\ password < MaxPasswords
    /\ password' = password + 1
    /\ used' = used \cup {job[w].fp}
    /\ Become(w, [pc |-> "list"])
    /\ UNCHANGED <<login, session, mailed, faults>>

\* A slip for the mutation runs: only the tokens of logins are recorded.
ListTokens_LoginsOnly(w) ==
    /\ At(w, "list")
    /\ Become(w, [pc |-> "revoke",
                  outstanding |-> {t \in DOMAIN tokens : tokens[t].parent = 0}])
    /\ UNCHANGED <<user, session, reset, faults>>

\* revoke_all_refresh_tokens: one SELECT of the user's OutstandingTokens ...
ListTokens(w) ==
    /\ At(w, "list")
    /\ Become(w, [pc |-> "revoke", outstanding |-> DOMAIN tokens])
    /\ UNCHANGED <<user, session, reset, faults>>

\* A slip for the mutation runs: the loop ends after its first token.
RevokeToken_FirstOnly(w) ==
    /\ At(w, "revoke")
    /\ \E t \in job[w].outstanding : blacklisted' = blacklisted \cup {t}
    /\ Become(w, Idle)
    /\ UNCHANGED <<user, tokens, held, reset, faults>>

\* ... and a get_or_create for each; then the response.
RevokeToken(w) ==
    /\ At(w, "revoke")
    /\ \/ /\ job[w].outstanding = {}
          /\ Become(w, Idle)
          /\ UNCHANGED blacklisted
       \/ \E t \in job[w].outstanding :
             /\ blacklisted' = blacklisted \cup {t}
             /\ Become(w, [job[w] EXCEPT !.outstanding = @ \ {t}])
    /\ UNCHANGED <<user, tokens, held, reset, faults>>
-----------------------------------------------------------------------------
\* The worker dies or a statement raises; what is committed stays.
Fail(w) ==
    /\ job[w] # Idle
    /\ failures < MaxFailures
    /\ failures' = failures + 1
    /\ cutShort' = (cutShort \/ At(w, "list") \/ At(w, "revoke"))
    /\ Become(w, Idle)
    /\ UNCHANGED <<user, session, reset>>

Statement(w) ==
    \/ MintToken(w) \/ TouchLogin(w) \/ BlacklistConsumed(w)
    \/ SavePassword(w) \/ ListTokens(w) \/ RevokeToken(w)

Next ==
    \/ \E w \in Workers : Authenticate(w)
    \/ \E w \in Workers, t \in DOMAIN tokens : CheckRefresh(w, t)
    \/ \E w \in Workers, fp \in mailed : CheckReset(w, fp)
    \/ \E w \in Workers : Statement(w) \/ Fail(w)
    \/ SendReset

Spec == Init /\ [][Next]_vars

\* The database runs every statement it is given.
FairSpec == Spec /\ \A w \in Workers : WF_vars(Statement(w))
-----------------------------------------------------------------------------
Usable == held \ blacklisted

\* "Kill existing sessions: a compromised refresh token can't be reused"
\* (accounts/serializers.py): no session older than the password survives,
\* except while a reset is at it, after a reset that was cut short, and for a
\* token minted by a request that ran at the same time as a reset.
SessionsEndWithPassword ==
    \A t \in Usable :
       tokens[t].origin # password
          => tokens[t].overlap \/ cutShort \/ Resetting

\* "Single-use password resets" (accounts/tokens.py) and "a refresh token can't
\* be replayed" (settings.py): a token that has served its purpose is refused
\* from then on.
SpentTokensRefused ==
    /\ \A fp \in used : ~Opens(fp)
    /\ \A t \in DOMAIN tokens : tokens[t].parent # 0 => tokens[t].parent \in blacklisted

\* A reset comes to its end: the sessions there were when it listed them are
\* over, unless it is cut short.
ResetCompletes ==
    \A w \in Workers :
       At(w, "revoke") ~> cutShort \/ ~\E t \in Usable :
          tokens[t].origin # password /\ ~tokens[t].overlap

\* sessions.py: revoking "immediately stops any further refreshes for that
\* user", so once a reset is done no session older than the password is left.
NoSessionOutlives ==
    \A t \in Usable : tokens[t].origin # password => Resetting \/ cutShort
=============================================================================
