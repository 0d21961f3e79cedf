--------------------------- MODULE SessionsProofs ---------------------------
(***************************************************************************)
(* What module Sessions promises, for any number of workers, tokens,       *)
(* passwords, mails and failures.                                          *)
(***************************************************************************)
EXTENDS Sessions, FiniteSetTheorems, TLAPS

\* What the tables and the workers' locals hold, without the bounds.
Typed ==
    /\ password \in Nat /\ login \in Nat
    /\ tokens \in Seq(Token)
    /\ mailed \subseteq Nat \X Nat /\ used \subseteq Nat \X Nat
    /\ job \in [Workers -> Job \cup {Idle}]
    /\ cutShort \in BOOLEAN

\* A reset token is no newer than the password; one that has been used is older.
ResetsInv ==
    /\ \A fp \in mailed : fp[1] <= password
    /\ \A fp \in used : fp[1] < password
    /\ \A w \in Workers : At(w, "save") => job[w].fp \in mailed

\* A rotation has blacklisted its token before it mints the next.
RotationInv ==
    /\ \A w \in Workers : At(w, "mint") /\ job[w].token.parent # 0
                             => job[w].token.parent \in blacklisted
    /\ \A t \in DOMAIN tokens : tokens[t].parent # 0 => tokens[t].parent \in blacklisted

\* A reset that will still revoke token t.
Pursued(t) == \E w \in Workers : \/ At(w, "list")
                                 \/ At(w, "revoke") /\ t \in job[w].outstanding

\* A session that no reset has overlapped and that is older than the password is
\* blacklisted or about to be; a request that will mint one knows that a reset
\* has been at it, or is going to notice it.
PursuitInv ==
    /\ \A t \in DOMAIN tokens \ blacklisted :
          tokens[t].origin # password => tokens[t].overlap \/ cutShort \/ Pursued(t)
    /\ \A w \in Workers :
          At(w, "rotate") \/ At(w, "mint") =>
             /\ job[w].read <= password
             /\ job[w].token.origin # password
                  => job[w].token.overlap \/ cutShort \/ job[w].read # password

\* A response hands out a token that exists.
HeldInv ==
    /\ held \subseteq DOMAIN tokens
    /\ \A w \in Workers : At(w, "touch") => job[w].minted \in DOMAIN tokens

IInv == Typed /\ HeldInv /\ ResetsInv /\ RotationInv /\ PursuitInv
-----------------------------------------------------------------------------
\* A token that is minted is the last of the tokens and leaves the others alone.
LEMMA MintedLast ==
    ASSUME NEW s \in Seq(Token), NEW t \in Token
    PROVE  /\ Append(s, t) \in Seq(Token)
           /\ DOMAIN Append(s, t) = DOMAIN s \cup {Len(s) + 1}
           /\ Append(s, t)[Len(s) + 1] = t
           /\ \A i \in DOMAIN s : Append(s, t)[i] = s[i]
  OBVIOUS

\* What a worker at a given point has read.
LEMMA Locals ==
    ASSUME Typed, NEW w \in Workers
    PROVE  /\ At(w, "rotate") \/ At(w, "mint")
                => /\ job[w].token \in Token /\ job[w].read \in Nat
                   /\ job[w] = [pc |-> job[w].pc, token |-> job[w].token, read |-> job[w].read]
           /\ At(w, "save") => job[w].fp \in Nat \X Nat
           /\ At(w, "revoke")
                => /\ job[w].outstanding \in SUBSET Nat
                   /\ job[w] = [pc |-> "revoke", outstanding |-> job[w].outstanding]
  BY DEF Typed, Job, At

LEMMA Remaining ==
    ASSUME NEW j, NEW S, j = [pc |-> "revoke", outstanding |-> S], NEW t
    PROVE  [j EXCEPT !.outstanding = @ \ {t}] = [pc |-> "revoke", outstanding |-> S \ {t}]
  OBVIOUS

LEMMA InitIInv == Init => IInv
  <1> SUFFICES ASSUME Init PROVE IInv  OBVIOUS
  <1>1. Typed
    <2>1. <<>> \in Seq(Token)  OBVIOUS
    <2> QED  BY <2>1 DEF Init, Typed
  <1>2. HeldInv  BY DEF Init, HeldInv, At
  <1>3. ResetsInv  BY DEF Init, ResetsInv, At
  <1>4. RotationInv  BY DEF Init, RotationInv, At
  <1>5. PursuitInv  BY DEF Init, PursuitInv, At
  <1> QED  BY <1>1, <1>2, <1>3, <1>4, <1>5 DEF IInv

\* Every step keeps the types.
LEMMA NextTyped ==
    ASSUME Typed, Next
    PROVE  Typed'
  <1> USE DEF Become, user, session, reset, faults
  <1>1. ASSUME NEW w \in Workers, Authenticate(w)
        PROVE  Typed'
    BY <1>1 DEF Authenticate, Typed, Job, Token, Resetting
  <1>2. ASSUME NEW w \in Workers, NEW t \in DOMAIN tokens, CheckRefresh(w, t)
        PROVE  Typed'
    <2>1. tokens[t] \in Token /\ t \in Nat  BY DEF Typed
    <2> QED  BY <1>2, <2>1 DEF CheckRefresh, Typed, Job, Token, Resetting
  <1>3. ASSUME NEW w \in Workers, NEW fp \in mailed, CheckReset(w, fp)
        PROVE  Typed'
    BY <1>3 DEF CheckReset, Typed, Job
  <1>4. ASSUME NEW w \in Workers, MintToken(w)
        PROVE  Typed'
    <2> DEFINE t   == job[w].token
               new == [t EXCEPT !.overlap = @ \/ Resetting \/ job[w].read # password]
    <2>1. t \in Token  BY <1>4, Locals DEF MintToken
    <2>2. new \in Token  BY <2>1 DEF Token
    <2>3. tokens' = Append(tokens, new) /\ tokens' \in Seq(Token)
      BY <1>4, <2>2, MintedLast DEF MintToken, Typed
    <2>4. job' = [job EXCEPT ![w] = [pc |-> "touch", minted |-> Len(tokens) + 1]]
            \/ job' = [job EXCEPT ![w] = Idle]
      BY <1>4 DEF MintToken
    <2>5. Len(tokens) + 1 \in Nat  BY DEF Typed
    <2>6. job' \in [Workers -> Job \cup {Idle}]  BY <2>4, <2>5 DEF Typed, Job
    <2> QED  BY <1>4, <2>3, <2>6 DEF MintToken, Typed
  <1>5. ASSUME NEW w \in Workers, TouchLogin(w)
        PROVE  Typed'
    BY <1>5 DEF TouchLogin, Typed
  <1>6. ASSUME NEW w \in Workers, BlacklistConsumed(w)
        PROVE  Typed'
    BY <1>6, Locals DEF BlacklistConsumed, Typed, Job
  <1>7. ASSUME NEW w \in Workers, SavePassword(w)
        PROVE  Typed'
    <2>1. job[w].fp \in Nat \X Nat  BY <1>7, Locals DEF SavePassword
    <2> QED  BY <1>7, <2>1 DEF SavePassword, Typed, Job
  <1>8. ASSUME NEW w \in Workers, ListTokens(w)
        PROVE  Typed'
    <2>1. DOMAIN tokens \in SUBSET Nat  BY DEF Typed
    <2> QED  BY <1>8, <2>1 DEF ListTokens, Typed, Job
  <1>9. ASSUME NEW w \in Workers, RevokeToken(w)
        PROVE  Typed'
    <2>1. \/ job' = [job EXCEPT ![w] = Idle]
          \/ \E t \in job[w].outstanding :
                job' = [job EXCEPT ![w] =
                         [pc |-> "revoke", outstanding |-> job[w].outstanding \ {t}]]
      <3>1. job[w] = [pc |-> "revoke", outstanding |-> job[w].outstanding]
        BY <1>9, Locals DEF RevokeToken
      <3>2. ASSUME NEW t \in job[w].outstanding
            PROVE  [job[w] EXCEPT !.outstanding = @ \ {t}]
                     = [pc |-> "revoke", outstanding |-> job[w].outstanding \ {t}]
        BY <3>1, Remaining
      <3> QED  BY <1>9, <3>2 DEF RevokeToken
    <2>2. job[w].outstanding \in SUBSET Nat  BY <1>9, Locals DEF RevokeToken
    <2>3. job' \in [Workers -> Job \cup {Idle}]  BY <2>1, <2>2 DEF Typed, Job
    <2> QED  BY <1>9, <2>3 DEF RevokeToken, Typed
  <1>10. ASSUME NEW w \in Workers, Fail(w)
         PROVE  Typed'
    BY <1>10 DEF Fail, Typed, At
  <1>11. ASSUME SendReset
         PROVE  Typed'
    BY <1>11 DEF SendReset, Typed, Fingerprint
  <1> QED
    BY <1>1, <1>2, <1>3, <1>4, <1>5, <1>6, <1>7, <1>8, <1>9, <1>10, <1>11
       DEF Next, Statement

\* Tokens are only added.
LEMMA NextHeld ==
    ASSUME Typed, HeldInv, Next
    PROVE  HeldInv'
  <1> USE DEF Become, At, user, session, reset, faults
  <1>1. ASSUME NEW w \in Workers,
               \/ Authenticate(w) \/ TouchLogin(w) \/ ListTokens(w) \/ Fail(w)
               \/ SavePassword(w)
               \/ \E t \in DOMAIN tokens : CheckRefresh(w, t)
               \/ \E fp \in mailed : CheckReset(w, fp)
        PROVE  HeldInv'
    BY <1>1 DEF Authenticate, TouchLogin, ListTokens, Fail, SavePassword, CheckRefresh,
                CheckReset, HeldInv, Typed
  <1>2. ASSUME NEW w \in Workers, MintToken(w)
        PROVE  HeldInv'
    <2> DEFINE t   == job[w].token
               new == [t EXCEPT !.overlap = @ \/ Resetting \/ job[w].read # password]
    <2>1. t \in Token  BY <1>2, Locals DEF MintToken
    <2>2. new \in Token  BY <2>1 DEF Token
    <2>3. DOMAIN tokens' = DOMAIN tokens \cup {Len(tokens) + 1}
      BY <1>2, <2>2, MintedLast DEF MintToken, Typed
    <2>4. \/ /\ job' = [job EXCEPT ![w] = [pc |-> "touch", minted |-> Len(tokens) + 1]]
             /\ held' = held
          \/ /\ job' = [job EXCEPT ![w] = Idle]
             /\ held' = held \cup {Len(tokens) + 1}
      BY <1>2 DEF MintToken
    <2> QED  BY <2>3, <2>4 DEF HeldInv, Typed
  <1>3. ASSUME NEW w \in Workers, BlacklistConsumed(w) \/ RevokeToken(w)
        PROVE  HeldInv'
    BY <1>3, Locals DEF BlacklistConsumed, RevokeToken, HeldInv, Typed
  <1>4. ASSUME SendReset
        PROVE  HeldInv'
    BY <1>4 DEF SendReset, HeldInv, Typed
  <1> QED
    BY <1>1, <1>2, <1>3, <1>4 DEF Next, Statement

\* No step makes a reset token newer than the password, and using one makes the
\* password newer.
LEMMA NextResets ==
    ASSUME Typed, ResetsInv, Next
    PROVE  ResetsInv'
  <1> USE DEF Become, At, user, session, reset, faults
  <1>1. ASSUME NEW w \in Workers,
               \/ Authenticate(w) \/ TouchLogin(w) \/ ListTokens(w) \/ Fail(w)
               \/ \E t \in DOMAIN tokens : CheckRefresh(w, t)
        PROVE  ResetsInv'
    BY <1>1 DEF Authenticate, TouchLogin, ListTokens, Fail, CheckRefresh, ResetsInv, Typed
  <1>2. ASSUME NEW w \in Workers, MintToken(w)
        PROVE  ResetsInv'
    BY <1>2 DEF MintToken, ResetsInv, Typed
  <1>3. ASSUME NEW w \in Workers, BlacklistConsumed(w) \/ RevokeToken(w)
        PROVE  ResetsInv'
    BY <1>3, Locals DEF BlacklistConsumed, RevokeToken, ResetsInv, Typed
  <1>4. ASSUME NEW w \in Workers, NEW fp \in mailed, CheckReset(w, fp)
        PROVE  ResetsInv'
    BY <1>4 DEF CheckReset, ResetsInv, Typed
  <1>5. ASSUME NEW w \in Workers, SavePassword(w)
        PROVE  ResetsInv'
    BY <1>5 DEF SavePassword, ResetsInv, Typed
  <1>6. ASSUME SendReset
        PROVE  ResetsInv'
    BY <1>6 DEF SendReset, Fingerprint, ResetsInv, Typed
  <1> QED
    BY <1>1, <1>2, <1>3, <1>4, <1>5, <1>6 DEF Next, Statement

\* The blacklist only grows, and whoever is to mint from a token has put it there.
LEMMA NextRotation ==
    ASSUME Typed, RotationInv, Next
    PROVE  RotationInv'
  <1> USE DEF Become, At, user, session, reset, faults
  <1>1. ASSUME NEW w \in Workers,
               \/ Authenticate(w) \/ TouchLogin(w) \/ ListTokens(w) \/ Fail(w)
               \/ SavePassword(w)
               \/ \E t \in DOMAIN tokens : CheckRefresh(w, t)
               \/ \E fp \in mailed : CheckReset(w, fp)
        PROVE  RotationInv'
    BY <1>1 DEF Authenticate, TouchLogin, ListTokens, Fail, SavePassword, CheckRefresh,
                CheckReset, RotationInv, Typed
  <1>2. ASSUME NEW w \in Workers, MintToken(w)
        PROVE  RotationInv'
    <2> DEFINE t   == job[w].token
               new == [t EXCEPT !.overlap = @ \/ Resetting \/ job[w].read # password]
    <2>1. t \in Token  BY <1>2, Locals DEF MintToken
    <2>2. new \in Token /\ new.parent = t.parent  BY <2>1 DEF Token
    <2>3. tokens' = Append(tokens, new)  BY <1>2 DEF MintToken
    <2>4. t.parent # 0 => t.parent \in blacklisted  BY <1>2 DEF MintToken, RotationInv
    <2>5. ASSUME NEW i \in DOMAIN tokens', tokens'[i].parent # 0
          PROVE  tokens'[i].parent \in blacklisted
      BY <2>2, <2>3, <2>4, <2>5, MintedLast DEF RotationInv, Typed
    <2>6. job' = [job EXCEPT ![w] = [pc |-> "touch", minted |-> Len(tokens) + 1]]
            \/ job' = [job EXCEPT ![w] = Idle]
      BY <1>2 DEF MintToken
    <2>7. blacklisted' = blacklisted  BY <1>2 DEF MintToken
    <2> QED  BY <2>5, <2>6, <2>7 DEF RotationInv, Typed
  <1>3. ASSUME NEW w \in Workers, BlacklistConsumed(w)
        PROVE  RotationInv'
    BY <1>3, Locals DEF BlacklistConsumed, RotationInv, Typed
  <1>4. ASSUME NEW w \in Workers, RevokeToken(w)
        PROVE  RotationInv'
    BY <1>4, Locals DEF RevokeToken, RotationInv, Typed
  <1>5. ASSUME SendReset
        PROVE  RotationInv'
    BY <1>5 DEF SendReset, RotationInv, Typed
  <1> QED
    BY <1>1, <1>2, <1>3, <1>4, <1>5 DEF Next, Statement

\* Every session older than the password stays pursued until it is revoked, and
\* every request that will mint one knows of the reset.
LEMMA NextPursuit ==
    ASSUME Typed, PursuitInv, Next
    PROVE  PursuitInv'
  <1> USE DEF Become, At, Pursued, user, session, reset, faults
  <1>1. ASSUME NEW w \in Workers, Authenticate(w)
        PROVE  PursuitInv'
    BY <1>1 DEF Authenticate, PursuitInv, Typed
  <1>2. ASSUME NEW w \in Workers, NEW t \in DOMAIN tokens, CheckRefresh(w, t)
        PROVE  PursuitInv'
    <2>1. tokens[t] \in Token  BY DEF Typed
    <2>2. tokens[t].origin # password => tokens[t].overlap \/ cutShort \/ Resetting
      BY <1>2 DEF CheckRefresh, PursuitInv, Resetting
    <2> DEFINE j == [pc |-> "rotate", read |-> password,
                     token |-> [origin |-> tokens[t].origin, parent |-> t,
                                overlap |-> tokens[t].overlap \/ Resetting]]
    <2>3. job' = [job EXCEPT ![w] = j] /\ job[w] = Idle  BY <1>2 DEF CheckRefresh
    <2>4. UNCHANGED <<tokens, blacklisted, password, cutShort>>  BY <1>2 DEF CheckRefresh
    <2>5. j.token.origin # password => j.token.overlap \/ cutShort  BY <2>2
    <2>6. j.read <= password  BY DEF Typed
    <2> HIDE DEF j
    <2>7. \A v \in Workers : job'[v] = IF v = w THEN j ELSE job[v]  BY <2>3 DEF Typed
    <2> QED  BY <2>3, <2>4, <2>5, <2>6, <2>7 DEF PursuitInv
  <1>3. ASSUME NEW w \in Workers, NEW fp \in mailed, CheckReset(w, fp)
        PROVE  PursuitInv'
    BY <1>3 DEF CheckReset, PursuitInv, Typed
  <1>4. ASSUME NEW w \in Workers, MintToken(w)
        PROVE  PursuitInv'
    <2> DEFINE t   == job[w].token
               new == [t EXCEPT !.overlap = @ \/ Resetting \/ job[w].read # password]
    <2>1. t \in Token  BY <1>4, Locals DEF MintToken
    <2>2. /\ new \in Token /\ new.origin = t.origin
          /\ new.overlap <=> (t.overlap \/ Resetting \/ job[w].read # password)
      BY <2>1 DEF Token
    <2>3. tokens' = Append(tokens, new)  BY <1>4 DEF MintToken
    <2>4. new.origin # password => new.overlap \/ cutShort
      BY <1>4, <2>2 DEF MintToken, PursuitInv
    <2>5. UNCHANGED <<blacklisted, password, cutShort>>  BY <1>4 DEF MintToken
    <2>6. job' = [job EXCEPT ![w] = [pc |-> "touch", minted |-> Len(tokens) + 1]]
            \/ job' = [job EXCEPT ![w] = Idle]
      BY <1>4 DEF MintToken
    <2>7. job[w].pc = "mint"  BY <1>4 DEF MintToken
    <2>8. ASSUME NEW i
          PROVE  Pursued(i) => Pursued(i)'
      BY <2>6, <2>7 DEF Typed
    <2>9. ASSUME NEW i \in DOMAIN tokens' \ blacklisted, tokens'[i].origin # password
          PROVE  tokens'[i].overlap \/ cutShort \/ Pursued(i)'
      <3>1. CASE i \in DOMAIN tokens
        <4>1. tokens'[i] = tokens[i]  BY <2>2, <2>3, <3>1, MintedLast DEF Typed
        <4> QED  BY <2>8, <2>9, <3>1, <4>1 DEF PursuitInv
      <3>2. CASE i \notin DOMAIN tokens
        BY <2>2, <2>3, <2>4, <2>9, <3>2, MintedLast DEF Typed
      <3> QED  BY <3>1, <3>2
    <2> QED  BY <2>5, <2>6, <2>9 DEF PursuitInv, Typed
  <1>5. ASSUME NEW w \in Workers, TouchLogin(w)
        PROVE  PursuitInv'
    BY <1>5 DEF TouchLogin, PursuitInv, Typed
  <1>6. ASSUME NEW w \in Workers, BlacklistConsumed(w)
        PROVE  PursuitInv'
    BY <1>6, Locals DEF BlacklistConsumed, PursuitInv, Typed
  <1>7. ASSUME NEW w \in Workers, SavePassword(w)
        PROVE  PursuitInv'
    <2>1. [pc |-> "list"] # Idle  BY SessionsAssumption DEF Job
    <2>2. \A i : Pursued(i)'  BY <1>7, <2>1 DEF SavePassword, Typed
    <2>3. ASSUME NEW v \in Workers, At(v, "rotate")' \/ At(v, "mint")'
          PROVE  job[v].read <= password' /\ job[v].read # password' /\ job'[v] = job[v]
      <3>1. v # w /\ job'[v] = job[v]  BY <1>7, <2>3 DEF SavePassword, Typed
      <3>2. job[v].read \in Nat /\ job[v].read <= password
        BY <2>3, <3>1, Locals DEF PursuitInv
      <3> QED  BY <1>7, <3>1, <3>2 DEF SavePassword, Typed
    <2> QED  BY <1>7, <2>2, <2>3 DEF SavePassword, PursuitInv
  <1>8. ASSUME NEW w \in Workers, ListTokens(w)
        PROVE  PursuitInv'
    <2>1. DOMAIN tokens \in SUBSET Nat  BY DEF Typed
    <2>2. [pc |-> "revoke", outstanding |-> DOMAIN tokens] # Idle
      BY <2>1, SessionsAssumption DEF Job
    <2>3. \A i \in DOMAIN tokens : Pursued(i)'  BY <1>8, <2>2 DEF ListTokens, Typed
    <2> QED  BY <1>8, <2>3 DEF ListTokens, PursuitInv, Typed
  <1>9. ASSUME NEW w \in Workers, RevokeToken(w)
        PROVE  PursuitInv'
    <2>1. ASSUME NEW i, i \notin blacklisted', Pursued(i)
          PROVE  Pursued(i)'
      <3>1. PICK v \in Workers : \/ At(v, "list")
                                 \/ At(v, "revoke") /\ i \in job[v].outstanding
        BY <2>1
      <3>2. CASE v # w
        BY <1>9, <3>1, <3>2 DEF RevokeToken, Typed
      <3>3. CASE v = w
        <4>1. i \in job[w].outstanding /\ At(w, "revoke")
          BY <1>9, <3>1, <3>3 DEF RevokeToken
        <4>2. PICK t \in job[w].outstanding :
                 /\ blacklisted' = blacklisted \cup {t}
                 /\ job' = [job EXCEPT ![w] = [job[w] EXCEPT !.outstanding = @ \ {t}]]
          BY <1>9, <4>1 DEF RevokeToken
        <4>3. job[w] = [pc |-> "revoke", outstanding |-> job[w].outstanding]
              /\ job[w].outstanding \in SUBSET Nat
          BY <4>1, Locals
        <4>4. job'[w] = [pc |-> "revoke", outstanding |-> job[w].outstanding \ {t}]
          BY <4>2, <4>3, Remaining DEF Typed
        <4>5. job'[w] # Idle  BY <4>3, <4>4, SessionsAssumption DEF Job
        <4>6. i # t  BY <2>1, <4>2
        <4> QED  BY <4>1, <4>4, <4>5, <4>6
      <3> QED  BY <3>2, <3>3
    <2>2. blacklisted \subseteq blacklisted'  BY <1>9 DEF RevokeToken
    <2> QED  BY <1>9, <2>1, <2>2, Locals DEF RevokeToken, PursuitInv, Typed
  <1>10. ASSUME NEW w \in Workers, Fail(w)
         PROVE  PursuitInv'
    BY <1>10 DEF Fail, PursuitInv, Typed
  <1>11. ASSUME SendReset
         PROVE  PursuitInv'
    BY <1>11 DEF SendReset, PursuitInv, Typed
  <1> QED
    BY <1>1, <1>2, <1>3, <1>4, <1>5, <1>6, <1>7, <1>8, <1>9, <1>10, <1>11
       DEF Next, Statement

LEMMA StepIInv == IInv /\ [Next]_vars => IInv'
  <1>1. IInv /\ Next => IInv'
    BY NextTyped, NextHeld, NextResets, NextRotation, NextPursuit DEF IInv
  <1>2. ASSUME IInv, UNCHANGED vars
        PROVE  IInv'
    <2> USE <1>2 DEF vars, user, session, reset, faults, At
    <2>1. Typed'  BY DEF IInv, Typed
    <2>2. HeldInv'  BY DEF IInv, HeldInv
    <2>3. ResetsInv'  BY DEF IInv, ResetsInv
    <2>4. RotationInv'  BY DEF IInv, RotationInv
    <2>5. PursuitInv'  BY DEF IInv, PursuitInv, Pursued
    <2> QED  BY <2>1, <2>2, <2>3, <2>4, <2>5 DEF IInv
  <1> QED  BY <1>1, <1>2
-----------------------------------------------------------------------------
\* Single-use password resets and rotated refresh tokens: what has served its
\* purpose is refused for ever (accounts/tokens.py, SIMPLE_JWT in settings.py).
THEOREM SpentTokensTheorem == Spec => []SpentTokensRefused
  <1>1. IInv => SpentTokensRefused
    <2> SUFFICES ASSUME IInv PROVE SpentTokensRefused  OBVIOUS
    <2>1. \A fp \in used : ~Opens(fp)
      BY DEF IInv, ResetsInv, Typed, Opens, Fingerprint
    <2> QED  BY <2>1 DEF SpentTokensRefused, IInv, RotationInv
  <1> QED  BY <1>1, InitIInv, StepIInv, PTL DEF Spec

\* A password reset ends the sessions there were (revoke_all_refresh_tokens),
\* but those of a request that overlaps it, unless it is cut short.
THEOREM SessionsEndTheorem == Spec => []SessionsEndWithPassword
  <1>1. IInv => SessionsEndWithPassword
    BY DEF IInv, HeldInv, PursuitInv, Pursued, SessionsEndWithPassword, Usable, Resetting
  <1> QED  BY <1>1, InitIInv, StepIInv, PTL DEF Spec
-----------------------------------------------------------------------------
(* The type invariant and the bounds.  A login writes last_login after it  *)
(* has minted its token, and a mint has reserved its place among the       *)
(* tokens when its request began: both bounds count requests in progress.  *)

Minting  == {w \in Workers : At(w, "rotate") \/ At(w, "mint")}
Touching == {w \in Workers : At(w, "touch")}

BoundsInv ==
    /\ password \in 0..MaxPasswords /\ failures \in 0..MaxFailures
    /\ login + Cardinality(Touching) <= Len(tokens)
    /\ Len(tokens) + Cardinality(Minting) <= MaxTokens

\* Whatever a request or a table refers to exists.
KnownInv ==
    /\ blacklisted \subseteq DOMAIN tokens
    /\ used \subseteq mailed
    /\ \A fp \in mailed : fp[2] <= login
    /\ \A w \in Workers :
          /\ At(w, "rotate") => job[w].token.parent \in DOMAIN tokens
          /\ At(w, "revoke") => job[w].outstanding \subseteq DOMAIN tokens

TInv == IInv /\ BoundsInv /\ KnownInv

\* A worker that goes on is counted once, or not at all.
LEMMA CountMinting ==
    ASSUME NEW w \in Workers, NEW j, job \in [Workers -> Job \cup {Idle}], Become(w, j)
    PROVE  /\ Cardinality(Minting) \in Nat /\ Cardinality(Minting') \in Nat
           /\ j # Idle /\ j.pc \in {"rotate", "mint"} =>
                Cardinality(Minting') =
                  IF w \in Minting THEN Cardinality(Minting) ELSE Cardinality(Minting) + 1
           /\ ~(j # Idle /\ j.pc \in {"rotate", "mint"}) =>
                Cardinality(Minting') =
                  IF w \in Minting THEN Cardinality(Minting) - 1 ELSE Cardinality(Minting)
  <1>1. IsFiniteSet(Minting) /\ IsFiniteSet(Minting')
    <2>1. Minting \subseteq Workers /\ Minting' \subseteq Workers  BY DEF Minting
    <2> QED  BY <2>1, SessionsAssumption, FS_Subset
  <1>2. j # Idle /\ j.pc \in {"rotate", "mint"} => Minting' = Minting \cup {w}
    BY DEF Minting, At, Become
  <1>3. ~(j # Idle /\ j.pc \in {"rotate", "mint"}) => Minting' = Minting \ {w}
    BY DEF Minting, At, Become
  <1> QED  BY <1>1, <1>2, <1>3, FS_CardinalityType, FS_AddElement, FS_RemoveElement

LEMMA CountTouching ==
    ASSUME NEW w \in Workers, NEW j, job \in [Workers -> Job \cup {Idle}], Become(w, j)
    PROVE  /\ Cardinality(Touching) \in Nat /\ Cardinality(Touching') \in Nat
           /\ j # Idle /\ j.pc = "touch" =>
                Cardinality(Touching') =
                  IF w \in Touching THEN Cardinality(Touching) ELSE Cardinality(Touching) + 1
           /\ ~(j # Idle /\ j.pc = "touch") =>
                Cardinality(Touching') =
                  IF w \in Touching THEN Cardinality(Touching) - 1 ELSE Cardinality(Touching)
  <1>1. IsFiniteSet(Touching) /\ IsFiniteSet(Touching')
    <2>1. Touching \subseteq Workers /\ Touching' \subseteq Workers  BY DEF Touching
    <2> QED  BY <2>1, SessionsAssumption, FS_Subset
  <1>2. j # Idle /\ j.pc = "touch" => Touching' = Touching \cup {w}
    BY DEF Touching, At, Become
  <1>3. ~(j # Idle /\ j.pc = "touch") => Touching' = Touching \ {w}
    BY DEF Touching, At, Become
  <1> QED  BY <1>1, <1>2, <1>3, FS_CardinalityType, FS_AddElement, FS_RemoveElement

\* No statement outruns its bound.
LEMMA NextBounds ==
    ASSUME Typed, BoundsInv, Next
    PROVE  BoundsInv'
  <1> USE SessionsAssumption DEF user, session, reset, faults
  <1>1. job \in [Workers -> Job \cup {Idle}] /\ Len(tokens) \in Nat /\ login \in Nat
    BY DEF Typed
  <1>2. ASSUME NEW w \in Workers, NEW j, Become(w, j), j # Idle,
               j.pc \in {"rotate", "mint"}, w \in Minting \/ TokensLeft, ~At(w, "touch"),
               UNCHANGED <<password, login, tokens, failures>>
        PROVE  BoundsInv'
    <2>1. Cardinality(Touching') = Cardinality(Touching)
      BY <1>1, <1>2, CountTouching DEF Touching
    <2>2. \/ Cardinality(Minting') = Cardinality(Minting)
          \/ /\ Cardinality(Minting') = Cardinality(Minting) + 1
             /\ Len(tokens) + Cardinality(Minting) < MaxTokens
      BY <1>1, <1>2, CountMinting DEF TokensLeft, Minting
    <2>3. Cardinality(Minting) \in Nat /\ Cardinality(Minting') \in Nat
      BY <1>1, <1>2, CountMinting
    <2> QED  BY <1>1, <1>2, <2>1, <2>2, <2>3 DEF BoundsInv
  <1>3. ASSUME NEW w \in Workers, NEW j, Become(w, j),
               j # Idle => j.pc \notin {"rotate", "mint", "touch"},
               UNCHANGED <<tokens, login>>,
               password' \in 0..MaxPasswords, failures' \in 0..MaxFailures
        PROVE  BoundsInv'
    <2>1. /\ Cardinality(Minting) \in Nat /\ Cardinality(Minting') \in Nat
          /\ Cardinality(Minting') <= Cardinality(Minting)
      BY <1>1, <1>3, CountMinting
    <2>2. /\ Cardinality(Touching) \in Nat /\ Cardinality(Touching') \in Nat
          /\ Cardinality(Touching') <= Cardinality(Touching)
      BY <1>1, <1>3, CountTouching
    <2> QED  BY <1>1, <1>3, <2>1, <2>2 DEF BoundsInv
  <1>4. ASSUME NEW w \in Workers, Authenticate(w)
        PROVE  BoundsInv'
    <2> DEFINE j == [pc |-> "mint", read |-> password,
                     token |-> [origin |-> password, parent |-> 0, overlap |-> Resetting]]
    <2>1. j \in Job  BY DEF Typed, Job, Token, Resetting
    <2> QED  BY <1>2, <1>4, <2>1 DEF Authenticate, At
  <1>5. ASSUME NEW w \in Workers, NEW t \in DOMAIN tokens, CheckRefresh(w, t)
        PROVE  BoundsInv'
    <2> DEFINE j == [pc |-> "rotate", read |-> password,
                     token |-> [origin |-> tokens[t].origin, parent |-> t,
                                overlap |-> tokens[t].overlap \/ Resetting]]
    <2>1. tokens[t] \in Token /\ t \in Nat  BY DEF Typed
    <2>2. j \in Job  BY <2>1 DEF Typed, Job, Token, Resetting
    <2> QED  BY <1>2, <1>5, <2>2 DEF CheckRefresh, At
  <1>6. ASSUME NEW w \in Workers, NEW fp \in mailed, CheckReset(w, fp)
        PROVE  BoundsInv'
    BY <1>3, <1>6 DEF CheckReset, BoundsInv
  <1>7. ASSUME NEW w \in Workers, MintToken(w)
        PROVE  BoundsInv'
    <2> DEFINE t   == job[w].token
               new == [t EXCEPT !.overlap = @ \/ Resetting \/ job[w].read # password]
               n   == Len(tokens) + 1
    <2>1. t \in Token  BY <1>7, Locals DEF MintToken
    <2>2. new \in Token  BY <2>1 DEF Token
    <2>3. Len(tokens') = n  BY <1>7, <2>2 DEF MintToken, Typed
    <2>4. w \in Minting /\ w \notin Touching
      BY <1>7 DEF MintToken, At, Minting, Touching
    <2>5. Become(w, [pc |-> "touch", minted |-> n]) \/ Become(w, Idle)
      BY <1>7 DEF MintToken
    <2>6. /\ Cardinality(Minting) \in Nat /\ Cardinality(Minting') \in Nat
          /\ Cardinality(Minting') = Cardinality(Minting) - 1
      BY <1>1, <2>4, <2>5, CountMinting
    <2>7. /\ Cardinality(Touching) \in Nat /\ Cardinality(Touching') \in Nat
          /\ Cardinality(Touching') <= Cardinality(Touching) + 1
      BY <1>1, <2>4, <2>5, CountTouching
    <2> QED  BY <1>1, <1>7, <2>3, <2>6, <2>7 DEF MintToken, BoundsInv
  <1>8. ASSUME NEW w \in Workers, TouchLogin(w)
        PROVE  BoundsInv'
    <2>1. w \in Touching /\ w \notin Minting
      BY <1>8 DEF TouchLogin, At, Minting, Touching
    <2>2. Become(w, Idle)  BY <1>8 DEF TouchLogin
    <2>3. /\ Cardinality(Minting) \in Nat
          /\ Cardinality(Minting') = Cardinality(Minting)
      BY <1>1, <2>1, <2>2, CountMinting
    <2>4. /\ Cardinality(Touching) \in Nat
          /\ Cardinality(Touching') = Cardinality(Touching) - 1
      BY <1>1, <2>1, <2>2, CountTouching
    <2> QED  BY <1>1, <1>8, <2>3, <2>4 DEF TouchLogin, BoundsInv
  <1>9. ASSUME NEW w \in Workers, BlacklistConsumed(w)
        PROVE  BoundsInv'
    <2> DEFINE j == [job[w] EXCEPT !.pc = "mint"]
    <2>1. job[w] = [pc |-> job[w].pc, token |-> job[w].token, read |-> job[w].read]
      BY <1>9, Locals DEF BlacklistConsumed
    <2>2. j \in Job /\ j.pc = "mint"
      BY <1>9, <2>1, Locals DEF BlacklistConsumed, Job
    <2> QED  BY <1>2, <1>9, <2>2 DEF BlacklistConsumed, At, Minting
  <1>10. ASSUME NEW w \in Workers, SavePassword(w) \/ ListTokens(w)
         PROVE  BoundsInv'
    BY <1>3, <1>10 DEF SavePassword, ListTokens, BoundsInv
  <1>11. ASSUME NEW w \in Workers, RevokeToken(w)
         PROVE  BoundsInv'
    <2>1. job[w] = [pc |-> "revoke", outstanding |-> job[w].outstanding]
      BY <1>11, Locals DEF RevokeToken
    <2>2. \A t : [job[w] EXCEPT !.outstanding = @ \ {t}].pc = "revoke"
      BY <2>1, Remaining
    <2>3. Become(w, Idle)
            \/ \E t : Become(w, [job[w] EXCEPT !.outstanding = @ \ {t}])
      BY <1>11 DEF RevokeToken
    <2>4. UNCHANGED <<tokens, login, password, failures>>  BY <1>11 DEF RevokeToken
    <2> QED  BY <1>3, <2>2, <2>3, <2>4 DEF BoundsInv
  <1>12. ASSUME NEW w \in Workers, Fail(w)
         PROVE  BoundsInv'
    BY <1>3, <1>12 DEF Fail, BoundsInv
  <1>13. ASSUME SendReset
         PROVE  BoundsInv'
    BY <1>13 DEF SendReset, BoundsInv, Minting, Touching, At
  <1> QED
    BY <1>4, <1>5, <1>6, <1>7, <1>8, <1>9, <1>10, <1>11, <1>12, <1>13 DEF Next, Statement

\* No statement forgets a token or a mail.
LEMMA NextKnown ==
    ASSUME Typed, HeldInv, ResetsInv, KnownInv, Next
    PROVE  KnownInv'
  <1> USE DEF Become, At, user, session, reset, faults
  <1>1. ASSUME NEW w \in Workers,
               \/ Authenticate(w) \/ ListTokens(w) \/ Fail(w)
               \/ \E t \in DOMAIN tokens : CheckRefresh(w, t)
               \/ \E fp \in mailed : CheckReset(w, fp)
        PROVE  KnownInv'
    BY <1>1 DEF Authenticate, ListTokens, Fail, CheckRefresh, CheckReset, KnownInv, Typed
  <1>2. ASSUME NEW w \in Workers, MintToken(w)
        PROVE  KnownInv'
    <2> DEFINE t   == job[w].token
               new == [t EXCEPT !.overlap = @ \/ Resetting \/ job[w].read # password]
    <2>1. t \in Token  BY <1>2, Locals DEF MintToken
    <2>2. new \in Token  BY <2>1 DEF Token
    <2>3. DOMAIN tokens \subseteq DOMAIN tokens'
      BY <1>2, <2>2, MintedLast DEF MintToken, Typed
    <2>4. \/ job' = [job EXCEPT ![w] = [pc |-> "touch", minted |-> Len(tokens) + 1]]
          \/ job' = [job EXCEPT ![w] = Idle]
      BY <1>2 DEF MintToken
    <2>5. UNCHANGED <<login, blacklisted, mailed, used>>  BY <1>2 DEF MintToken
    <2> QED  BY <2>3, <2>4, <2>5 DEF KnownInv, Typed
  <1>3. ASSUME NEW w \in Workers, TouchLogin(w)
        PROVE  KnownInv'
    BY <1>3 DEF TouchLogin, KnownInv, Typed
  <1>4. ASSUME NEW w \in Workers, BlacklistConsumed(w)
        PROVE  KnownInv'
    BY <1>4, Locals DEF BlacklistConsumed, KnownInv, Typed
  <1>5. ASSUME NEW w \in Workers, SavePassword(w)
        PROVE  KnownInv'
    BY <1>5 DEF SavePassword, KnownInv, ResetsInv, Typed
  <1>6. ASSUME NEW w \in Workers, RevokeToken(w)
        PROVE  KnownInv'
    BY <1>6, Locals DEF RevokeToken, KnownInv, Typed
  <1>7. ASSUME SendReset
        PROVE  KnownInv'
    BY <1>7 DEF SendReset, Fingerprint, KnownInv, Typed
  <1> QED
    BY <1>1, <1>2, <1>3, <1>4, <1>5, <1>6, <1>7 DEF Next, Statement

LEMMA InitTInv == Init => TInv
  <1> SUFFICES ASSUME Init PROVE TInv  OBVIOUS
  <1>1. KnownInv  BY DEF Init, KnownInv, At
  <1>2. Minting = {} /\ Touching = {}  BY DEF Init, Minting, Touching, At
  <1>3. BoundsInv  BY <1>2, FS_EmptySet, SessionsAssumption DEF Init, BoundsInv
  <1> QED  BY <1>1, <1>3, InitIInv DEF TInv

LEMMA StepTInv == TInv /\ [Next]_vars => TInv'
  <1>1. TInv /\ Next => TInv'
    BY StepIInv, NextBounds, NextKnown DEF TInv, IInv
  <1>2. ASSUME TInv, UNCHANGED vars
        PROVE  TInv'
    <2> USE <1>2 DEF vars, user, session, reset, faults, At
    <2>1. BoundsInv'  BY DEF TInv, BoundsInv, Minting, Touching
    <2>2. KnownInv'  BY DEF TInv, KnownInv
    <2>3. IInv'  BY StepIInv DEF TInv
    <2> QED  BY <2>1, <2>2, <2>3 DEF TInv
  <1> QED  BY <1>1, <1>2

\* Type correctness, the bounds included: what the tables hold, and that no
\* login, rotation or revocation (accounts/serializers.py, accounts/sessions.py)
\* refers to a token that does not exist.
THEOREM SessionsTypeCorrect == Spec => []TypeOK
  <1>1. TInv => TypeOK
    <2> SUFFICES ASSUME TInv PROVE TypeOK  OBVIOUS
    <2> USE SessionsAssumption DEF TInv, IInv
    <2>1. Cardinality(Touching) \in Nat /\ Cardinality(Minting) \in Nat
      <3>1. Minting \subseteq Workers /\ Touching \subseteq Workers
        BY DEF Minting, Touching
      <3> QED  BY <3>1, FS_Subset, FS_CardinalityType
    <2>2. Len(tokens) <= MaxTokens /\ login <= MaxTokens /\ Len(tokens) \in Nat
      BY <2>1 DEF BoundsInv, Typed
    <2>3. \A fp \in mailed : fp \in (0..MaxPasswords) \X (0..MaxTokens)
      BY <2>2 DEF Typed, ResetsInv, KnownInv, BoundsInv
    <2> QED  BY <2>2, <2>3 DEF Typed, HeldInv, KnownInv, BoundsInv, TypeOK
  <1> QED  BY <1>1, InitTInv, StepTInv, PTL DEF Spec
-----------------------------------------------------------------------------
(* What is left when requests do not overlap.                              *)

OneAtATime == \A v, w \in Workers : v = w

\* No reset has run during a request that mints a token, and none does.
ApartInv ==
    /\ \A t \in DOMAIN tokens : ~tokens[t].overlap
    /\ \A w \in Workers : At(w, "rotate") \/ At(w, "mint")
                             => ~job[w].token.overlap /\ job[w].read = password

LEMMA NextApart ==
    ASSUME OneAtATime, Typed, ApartInv, Next
    PROVE  ApartInv'
  <1> USE DEF Become, At, user, session, reset, faults
  <1>1. ASSUME NEW w \in Workers, job[w].pc \notin {"list", "revoke"} \/ job[w] = Idle
        PROVE  ~Resetting
    BY <1>1 DEF OneAtATime, Resetting
  <1>2. ASSUME NEW w \in Workers, Authenticate(w)
        PROVE  ApartInv'
    BY <1>1, <1>2 DEF Authenticate, ApartInv, Typed
  <1>3. ASSUME NEW w \in Workers, NEW t \in DOMAIN tokens, CheckRefresh(w, t)
        PROVE  ApartInv'
    <2>1. ~Resetting /\ ~tokens[t].overlap  BY <1>1, <1>3 DEF CheckRefresh, ApartInv
    <2> QED  BY <1>3, <2>1 DEF CheckRefresh, ApartInv, Typed
  <1>4. ASSUME NEW w \in Workers, MintToken(w)
        PROVE  ApartInv'
    <2> DEFINE t   == job[w].token
               new == [t EXCEPT !.overlap = @ \/ Resetting \/ job[w].read # password]
    <2>1. t \in Token  BY <1>4, Locals DEF MintToken
    <2>2. new \in Token /\ ~new.overlap
      <3>1. ~t.overlap /\ job[w].read = password /\ ~Resetting
        BY <1>1, <1>4 DEF MintToken, ApartInv
      <3> QED  BY <2>1, <3>1 DEF Token
    <2>3. tokens' = Append(tokens, new)  BY <1>4 DEF MintToken
    <2>4. \A i \in DOMAIN tokens' : ~tokens'[i].overlap
      BY <2>2, <2>3, MintedLast DEF ApartInv, Typed
    <2>5. \/ job' = [job EXCEPT ![w] = [pc |-> "touch", minted |-> Len(tokens) + 1]]
          \/ job' = [job EXCEPT ![w] = Idle]
      BY <1>4 DEF MintToken
    <2>6. password' = password  BY <1>4 DEF MintToken
    <2> QED  BY <2>4, <2>5, <2>6 DEF ApartInv, Typed
  <1>5. ASSUME NEW w \in Workers, BlacklistConsumed(w)
        PROVE  ApartInv'
    BY <1>5, Locals DEF BlacklistConsumed, ApartInv, Typed
  <1>6. ASSUME NEW w \in Workers, SavePassword(w)
        PROVE  ApartInv'
    BY <1>6 DEF SavePassword, OneAtATime, ApartInv, Typed
  <1>7. ASSUME NEW w \in Workers, RevokeToken(w)
        PROVE  ApartInv'
    BY <1>7, Locals DEF RevokeToken, ApartInv, Typed
  <1>8. ASSUME NEW w \in Workers,
               \/ TouchLogin(w) \/ ListTokens(w) \/ Fail(w)
               \/ \E fp \in mailed : CheckReset(w, fp)
        PROVE  ApartInv'
    BY <1>8 DEF TouchLogin, ListTokens, Fail, CheckReset, ApartInv, Typed
  <1>9. ASSUME SendReset
        PROVE  ApartInv'
    BY <1>9 DEF SendReset, ApartInv
  <1> QED
    BY <1>2, <1>3, <1>4, <1>5, <1>6, <1>7, <1>8, <1>9 DEF Next, Statement

\* revoke_all_refresh_tokens "immediately stops any further refreshes for that
\* user" (accounts/sessions.py) is so when requests are served one at a time: no
\* session older than the password is left, unless a reset was cut short.
THEOREM SerialSessionsTheorem ==
    ASSUME OneAtATime
    PROVE  Spec => []NoSessionOutlives
  <1>1. Init => IInv /\ ApartInv
    BY InitIInv DEF Init, ApartInv, At
  <1>2. IInv /\ ApartInv /\ [Next]_vars => IInv' /\ ApartInv'
    <2>1. IInv /\ ApartInv /\ Next => ApartInv'  BY NextApart DEF IInv
    <2>2. ApartInv /\ UNCHANGED vars => ApartInv'
      BY DEF ApartInv, vars, user, session, reset, faults, At
    <2> QED  BY <2>1, <2>2, StepIInv
  <1>3. IInv /\ ApartInv => NoSessionOutlives
    BY DEF IInv, HeldInv, PursuitInv, ApartInv, Pursued, NoSessionOutlives, Usable,
           Resetting
  <1> QED  BY <1>1, <1>2, <1>3, PTL DEF Spec
=============================================================================
