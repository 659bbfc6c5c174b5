-------------------------- MODULE AuthSessionProofs --------------------------
(***************************************************************************)
(* Proofs about AuthSession, for every set of users, passwords and request *)
(* slots, every pair of TTLs and every bound on the clock.                 *)
(***************************************************************************)
EXTENDS AuthSession, TLAPS

\* A request enters: its own locals are those given, the others keep theirs
\* up to the history field raced.
LEMMA BeginTyped ==
    ASSUME NEW r \in Requests, NEW q, TypeOK, q \in Req, WellFormed(q), Begin(r, q)
    PROVE  /\ req' \in [Requests -> Req]
           /\ \A x \in Requests : WellFormed(req'[x])
<1>1. ASSUME NEW x \in Requests, NEW b \in BOOLEAN, NEW p \in Req, WellFormed(p)
      PROVE  [p EXCEPT !.raced = b] \in Req /\ WellFormed([p EXCEPT !.raced = b])
  BY <1>1 DEF Req, WellFormed
<1> DEFINE own == \E y \in Requests : InFlight(y, q.user) /\ Changes(req[y].kind)
           met(x) == req[x].raced \/ (InFlight(x, q.user) /\ Changes(q.kind))
<1>2. own \in BOOLEAN /\ \A x \in Requests : met(x) \in BOOLEAN
  BY DEF TypeOK, Req, InFlight, Changes
<1>3. req' = [x \in Requests |-> IF x = r THEN [q EXCEPT !.raced = own]
                                 ELSE [req[x] EXCEPT !.raced = met(x)]]
  BY DEF Begin
<1>4. \A x \in Requests : req[x] \in Req /\ WellFormed(req[x])
  BY DEF TypeOK
<1> HIDE DEF own, met
<1>5. \A x \in Requests : req'[x] \in Req /\ WellFormed(req'[x])
  BY <1>1, <1>2, <1>3, <1>4
<1> QED BY <1>3, <1>5

\* The locals a request starts with are well-formed.
LEMMA IdleTyped == Idle \in Req /\ WellFormed(Idle)
  BY NoneAssumption DEF Idle, Req, Kinds, PCs, WellFormed

\* A step that ends r, moves r on within its handler, or leaves it alone.
LEMMA LocalTyped ==
    ASSUME NEW r \in Requests, NEW q \in Req, TypeOK, WellFormed(q), req' = [req EXCEPT ![r] = q]
    PROVE  /\ req' \in [Requests -> Req]
           /\ \A x \in Requests : WellFormed(req'[x])
  BY DEF TypeOK

\* remove() and save() keep the store and the retired tokens typed.
LEMMA RemoveTyped ==
    ASSUME NEW u \in Users, TypeOK, remove(u)
    PROVE  /\ store' \in [Users -> Entry \cup {None}] /\ retired' \subseteq RefreshToken
           /\ \A v \in Users : store'[v] # None => store'[v].tok.user = v
  BY DEF TypeOK, remove, Entry

\* So does save() with an entry whose token belongs to the key's user.
LEMMA SaveTyped ==
    ASSUME NEW u \in Users, NEW e \in Entry, e.tok.user = u, TypeOK, save(u, e)
    PROVE  /\ store' \in [Users -> Entry \cup {None}] /\ retired' \subseteq RefreshToken
           /\ \A v \in Users : store'[v] # None => store'[v].tok.user = v
  BY DEF TypeOK, save, Entry

\* Every step preserves the type invariant.
LEMMA TypeStep == TypeOK /\ [Next]_vars => TypeOK'
<1> SUFFICES ASSUME TypeOK, [Next]_vars PROVE TypeOK'
  OBVIOUS
<1> USE SeedAssumption, TTLAssumption, MaxTimeAssumption, ReadOnlyAssumption
<1>t. \A t \in Token : t.typ = "REFRESH" => t \in RefreshToken
  BY DEF Token, RefreshToken
<1>1. CASE Tick
  BY <1>1 DEF Tick, TypeOK, Time
<1>2. CASE UNCHANGED vars
  BY <1>2 DEF vars, TypeOK
<1>3. ASSUME NEW r \in Requests, Step(r) PROVE TypeOK'
  <2> DEFINE q == req[r]
  <2>q. q \in Req /\ WellFormed(q)
    BY DEF TypeOK
  <2>e. ASSUME End(r) PROVE req' \in [Requests -> Req] /\ \A x \in Requests : WellFormed(req'[x])
    BY <2>e, IdleTyped, LocalTyped DEF End
  <2>g. ASSUME NEW pc \in PCs, Goto(r, pc), WellFormed([q EXCEPT !.pc = pc])
        PROVE  req' \in [Requests -> Req] /\ \A x \in Requests : WellFormed(req'[x])
    <3>1. [q EXCEPT !.pc = pc] \in Req
      BY <2>q DEF Req
    <3>2. req' = [req EXCEPT ![r] = [q EXCEPT !.pc = pc]]
      BY <2>g DEF Goto, TypeOK
    <3> QED BY <3>1, <3>2, <2>g, LocalTyped
  <2>1. CASE LoginFetch(r)
    <3>1. q.pc = "fetch" => WellFormed([q EXCEPT !.pc = "mint"])
      BY <2>q DEF WellFormed, Req
    <3>2. req' \in [Requests -> Req] /\ \A x \in Requests : WellFormed(req'[x])
      BY <2>1, <3>1, <2>e, <2>g DEF LoginFetch, PCs
    <3> QED BY <2>1, <3>2 DEF LoginFetch, TypeOK, history
  <2>2. CASE Mint(r)
    <3> DEFINE t == create_token(q.user, "REFRESH")
               p == [q EXCEPT !.pc = "save", !.new = t]
    <3>1. q.user \in Users /\ q.pc = "mint"
      BY <2>2, <2>q DEF Mint, WellFormed
    <3>2. t \in RefreshToken /\ t.user = q.user
      BY <3>1 DEF create_token, RefreshToken, TypeOK
    <3>3. p \in Req /\ WellFormed(p)
      BY <2>q, <3>1, <3>2 DEF Req, PCs, WellFormed
    <3>4. req' = [req EXCEPT ![r] = p]
      BY <2>2 DEF Mint, TypeOK
    <3>5. req' \in [Requests -> Req] /\ \A x \in Requests : WellFormed(req'[x])
      BY <3>3, <3>4, LocalTyped
    <3>6. minting' \subseteq Users /\ dup' \subseteq RefreshToken
      BY <2>2, <3>1, <3>2 DEF Mint, TypeOK
    <3> QED BY <2>2, <3>5, <3>6 DEF Mint, TypeOK
  <2>3. ASSUME NEW d \in BOOLEAN, Save(r, d) PROVE TypeOK'
    <3> DEFINE e == [tok |-> q.new, exp |-> now + RefreshTTL, cred |-> q.pw]
    <3>1. /\ q.user \in Users /\ q.pc = "save" /\ q.new \in RefreshToken
          /\ q.new.user = q.user /\ q.pw \in Passwords
      BY <2>3, <2>q DEF Save, WellFormed
    <3>2. e \in Entry /\ e.tok.user = q.user
      BY <3>1 DEF Entry, TypeOK, Time
    <3>3. /\ store' \in [Users -> Entry \cup {None}] /\ retired' \subseteq RefreshToken
          /\ \A v \in Users : store'[v] # None => store'[v].tok.user = v
      BY <2>3, <3>1, <3>2, SaveTyped DEF Save
    <3>4. q.kind = "signup" => WellFormed([q EXCEPT !.pc = "commit"])
      BY <2>q, <3>1 DEF WellFormed, Req
    <3>5. req' \in [Requests -> Req] /\ \A x \in Requests : WellFormed(req'[x])
      BY <2>3, <3>4, <2>e, <2>g DEF Save, PCs
    <3>6. q.new \in Token /\ AccessOf(q.new) \in Token
      BY <3>1 DEF AccessOf, Token, RefreshToken
    <3>7. issued' \subseteq Token /\ tainted' \subseteq Token
      BY <2>3, <3>6 DEF Save, TypeOK
    <3> QED BY <2>3, <3>3, <3>5, <3>7 DEF Save, TypeOK
  <2>4. CASE RefreshMatch(r)
    <3> DEFINE p == [q EXCEPT !.pc = "read", !.pw = store[q.user].cred]
    <3>1. q.user \in Users /\ q.pc = "match"
      BY <2>4, <2>q DEF RefreshMatch, WellFormed
    <3>2. WellFormed([q EXCEPT !.pc = "revoke"])
      BY <2>q, <3>1 DEF WellFormed, Req
    <3>3. ASSUME matches(q.user, q.old) PROVE p \in Req /\ WellFormed(p)
      <4>1. store[q.user].cred \in Passwords
        BY <3>1, <3>3 DEF matches, TypeOK, Entry
      <4> QED BY <2>q, <3>1, <4>1 DEF Req, PCs, WellFormed
    <3>4. CASE matches(q.user, q.old)
      <4>1. req' = [req EXCEPT ![r] = p]
        BY <2>4, <3>4 DEF RefreshMatch, TypeOK
      <4>2. req' \in [Requests -> Req] /\ \A x \in Requests : WellFormed(req'[x])
        BY <3>3, <3>4, <4>1, LocalTyped
      <4> QED BY <2>4, <4>2 DEF RefreshMatch, TypeOK, history
    <3>5. CASE ~matches(q.user, q.old)
      <4>1. req' \in [Requests -> Req] /\ \A x \in Requests : WellFormed(req'[x])
        BY <2>4, <3>2, <3>5, <2>g DEF RefreshMatch, PCs
      <4> QED BY <2>4, <4>1 DEF RefreshMatch, TypeOK, history
    <3> QED BY <3>4, <3>5
  <2>5. CASE RefreshRead(r)
    <3>1. q.pc = "read"
      BY <2>5 DEF RefreshRead
    <3>2. WellFormed([q EXCEPT !.pc = "mint"]) /\ WellFormed([q EXCEPT !.pc = "revoke"])
      BY <2>q, <3>1 DEF WellFormed, Req
    <3>3. req' \in [Requests -> Req] /\ \A x \in Requests : WellFormed(req'[x])
      BY <2>5, <3>2, <2>e, <2>g DEF RefreshRead, PCs
    <3> QED BY <2>5, <3>3 DEF RefreshRead, TypeOK, history
  <2>6. CASE Revoke(r)
    <3>1. q.user \in Users
      BY <2>6, <2>q DEF Revoke, WellFormed
    <3> QED BY <2>6, <3>1, <2>e, RemoveTyped DEF Revoke, TypeOK
  <2>7. CASE ChangePasswordRead(r)
    <3> DEFINE p == [q EXCEPT !.pc = "pw_revoke", !.dirty = TRUE]
    <3>1. q.pc = "pw_read"
      BY <2>7 DEF ChangePasswordRead
    <3>2. p \in Req /\ WellFormed(p)
      BY <2>q, <3>1 DEF Req, PCs, WellFormed
    <3>3. End(r) \/ req' = [req EXCEPT ![r] = p]
      BY <2>7 DEF ChangePasswordRead, TypeOK
    <3>4. req' \in [Requests -> Req] /\ \A x \in Requests : WellFormed(req'[x])
      BY <3>2, <3>3, <2>e, LocalTyped
    <3> QED BY <2>7, <3>4 DEF ChangePasswordRead, TypeOK, history
  <2>8. CASE ChangePasswordRevoke(r)
    <3>1. q.user \in Users /\ q.pc = "pw_revoke"
      BY <2>8, <2>q DEF ChangePasswordRevoke, WellFormed
    <3>2. WellFormed([q EXCEPT !.pc = "commit"])
      BY <2>q, <3>1 DEF WellFormed, Req
    <3>3. req' \in [Requests -> Req] /\ \A x \in Requests : WellFormed(req'[x])
      BY <2>8, <3>2, <2>g DEF ChangePasswordRevoke, PCs
    <3> QED BY <2>8, <3>1, <3>3, RemoveTyped DEF ChangePasswordRevoke, TypeOK
  <2>9. CASE SetEnabledRead(r)
    <3> DEFINE b == account[q.user].enabled # q.flag
               p == [q EXCEPT !.pc = "commit", !.dirty = b]
    <3>1. q.pc = "se_read"
      BY <2>9 DEF SetEnabledRead
    <3>2. b \in BOOLEAN
      OBVIOUS
    <3> HIDE DEF b
    <3>3. p \in Req /\ WellFormed(p)
      BY <2>q, <3>1, <3>2 DEF Req, PCs, WellFormed
    <3>4. End(r) \/ req' = [req EXCEPT ![r] = p]
      BY <2>9 DEF SetEnabledRead, TypeOK, b
    <3>5. req' \in [Requests -> Req] /\ \A x \in Requests : WellFormed(req'[x])
      BY <3>3, <3>4, <2>e, LocalTyped
    <3> QED BY <2>9, <3>5 DEF SetEnabledRead, TypeOK, history
  <2>10. CASE Commit(r)
    <3>1. q.user \in Users /\ (q.kind = "change_password" => q.next \in Passwords)
      BY <2>10, <2>q DEF Commit, WellFormed
    <3>2. account[q.user] \in Accounts /\ q.flag \in BOOLEAN
      BY <3>1, <2>q DEF TypeOK, Req
    <3>3. q.kind \in {"signup", "change_password", "set_enabled"}
      BY <2>10, <2>q DEF Commit, WellFormed
    <3>4. CommitRow(q) \in Accounts
      BY <3>1, <3>2, <3>3 DEF CommitRow, Accounts
    <3>5. account' \in [Users -> Accounts] /\ disabledAt' \in [Users -> Time]
      BY <2>10, <3>4 DEF Commit, TypeOK
    <3> QED BY <2>10, <3>5, <2>e DEF Commit, TypeOK
  <2>11. CASE Abort(r)
    BY <2>11, <2>e DEF Abort, TypeOK, history
  <2> QED BY <1>3, <2>1, <2>2, <2>3, <2>4, <2>5, <2>6, <2>7, <2>8, <2>9, <2>10, <2>11 DEF Step
<1>4. ASSUME NEW r \in Requests, Arrive(r) PROVE TypeOK'
  <2> USE NoneAssumption
  <2>i. Idle \in Req /\ WellFormed(Idle)
    BY IdleTyped
  <2>1. ASSUME NEW u \in Users, NEW p \in Passwords, LoginBegin(r, u, p) PROVE TypeOK'
    <3> DEFINE q == [Idle EXCEPT !.kind = "login", !.pc = "fetch", !.user = u, !.pw = p]
    <3>1. q \in Req /\ WellFormed(q)
      BY DEF Idle, Req, Kinds, PCs, WellFormed
    <3>2. req' \in [Requests -> Req] /\ \A x \in Requests : WellFormed(req'[x])
      BY <2>1, <3>1, BeginTyped DEF LoginBegin
    <3> QED BY <2>1, <3>2 DEF LoginBegin, TypeOK, history
  <2>2. ASSUME NEW u \in Users, NEW p \in Passwords, SignupBegin(r, u, p) PROVE TypeOK'
    <3> DEFINE q == [Idle EXCEPT !.kind = "signup", !.pc = "mint", !.user = u, !.pw = p]
    <3>1. q \in Req /\ WellFormed(q)
      BY DEF Idle, Req, Kinds, PCs, WellFormed
    <3>2. req' \in [Requests -> Req] /\ \A x \in Requests : WellFormed(req'[x])
      BY <2>2, <3>1, BeginTyped DEF SignupBegin
    <3>3. account' \in [Users -> Accounts]
      BY <2>2 DEF SignupBegin, TypeOK, Accounts
    <3> QED BY <2>2, <3>2, <3>3 DEF SignupBegin, TypeOK, history
  <2>3. ASSUME NEW u \in Users, NEW f \in BOOLEAN, SetEnabledBegin(r, u, f) PROVE TypeOK'
    <3> DEFINE q == [Idle EXCEPT !.kind = "set_enabled", !.pc = "se_read", !.user = u, !.flag = f]
    <3>1. q \in Req /\ WellFormed(q)
      BY DEF Idle, Req, Kinds, PCs, WellFormed
    <3>2. req' \in [Requests -> Req] /\ \A x \in Requests : WellFormed(req'[x])
      BY <2>3, <3>1, BeginTyped DEF SetEnabledBegin
    <3> QED BY <2>3, <3>2 DEF SetEnabledBegin, TypeOK, history
  <2>4. ASSUME NEW t \in issued, RefreshBegin(r, t) PROVE TypeOK'
    <3> DEFINE b == t \in retired
               q == [Idle EXCEPT !.kind = "refresh", !.pc = "match", !.user = t.user,
                                 !.old = t, !.reused = b]
    <3>1. t \in RefreshToken /\ t.user \in Users
      BY <2>4, <1>t DEF RefreshBegin, parse_token, TypeOK, Token
    <3>2. b \in BOOLEAN
      OBVIOUS
    <3> HIDE DEF b
    <3>3. q \in Req /\ WellFormed(q)
      BY <3>1, <3>2 DEF Idle, Req, Kinds, PCs, WellFormed
    <3>4. Begin(r, q)
      BY <2>4 DEF RefreshBegin, b
    <3>5. req' \in [Requests -> Req] /\ \A x \in Requests : WellFormed(req'[x])
      BY <3>3, <3>4, BeginTyped
    <3> QED BY <2>4, <3>5 DEF RefreshBegin, TypeOK, history
  <2>5. ASSUME NEW t \in issued, LogoutBegin(r, t) PROVE TypeOK'
    <3> DEFINE q == [Idle EXCEPT !.kind = "logout", !.pc = "revoke", !.user = t.user]
    <3>1. t.user \in Users
      BY DEF TypeOK, Token
    <3>2. q \in Req /\ WellFormed(q)
      BY <3>1 DEF Idle, Req, Kinds, PCs, WellFormed
    <3>3. req' \in [Requests -> Req] /\ \A x \in Requests : WellFormed(req'[x])
      BY <2>5, <3>2, BeginTyped DEF LogoutBegin
    <3> QED BY <2>5, <3>3 DEF LogoutBegin, TypeOK, history
  <2>6. ASSUME NEW t \in issued, NEW p \in Passwords, NEW n \in Passwords,
               ChangePasswordBegin(r, t, p, n)
        PROVE  TypeOK'
    <3> DEFINE q == [Idle EXCEPT !.kind = "change_password", !.pc = "pw_read",
                                 !.user = t.user, !.pw = p, !.next = n]
    <3>1. t.user \in Users
      BY DEF TypeOK, Token
    <3>2. q \in Req /\ WellFormed(q)
      BY <3>1 DEF Idle, Req, Kinds, PCs, WellFormed
    <3>3. req' \in [Requests -> Req] /\ \A x \in Requests : WellFormed(req'[x])
      BY <2>6, <3>2, BeginTyped DEF ChangePasswordBegin
    <3> QED BY <2>6, <3>3 DEF ChangePasswordBegin, TypeOK, history
  <2> QED BY <1>4, <2>1, <2>2, <2>3, <2>4, <2>5, <2>6 DEF Arrive
<1> QED BY <1>1, <1>2, <1>3, <1>4 DEF Next

\* The type invariant holds in every state the server reaches.
THEOREM TypeCorrect == Spec => []TypeOK
<1>1. Init => TypeOK
  <2> SUFFICES ASSUME Init PROVE TypeOK
    OBVIOUS
  <2>1. req \in [Requests -> Req] /\ \A r \in Requests : WellFormed(req[r])
    BY IdleTyped DEF Init
  <2> QED BY <2>1, SeedAssumption, MaxTimeAssumption DEF Init, TypeOK, Time, Accounts
<1> QED BY <1>1, TypeStep, PTL DEF Spec

-----------------------------------------------------------------------------
(***************************************************************************)
(* StaleSessionOnlyByRace is not inductive: it says nothing of the pairs   *)
(* that requests in flight are about to save.  SessionInv adds what they   *)
(* know.                                                                   *)
(***************************************************************************)

\* Of two requests of a user in flight together, one that changes the account
\* has marked the other.
RaceMarked ==
    \A r, s \in Requests :
        r # s /\ req[r].pc # "idle" /\ req[s].pc # "idle" /\ req[r].user = req[s].user
            /\ Changes(req[s].kind) => req[r].raced

\* An id that no signup has taken has no session and no request past its
\* first read.
UnusedUntouched ==
    \A u \in Users : account[u].state = "unused" =>
        /\ store[u] = None
        /\ \A t \in issued : t.user # u
        /\ \A r \in Requests : InFlight(r, u) => req[r].pc \in {"fetch", "se_read"}

\* An unmarked request past its credential check acts for the current password.
CredCurrent ==
    \A r \in Requests :
        req[r].pc \in {"read", "mint", "save"} /\ ~req[r].raced /\ req[r].old \notin tainted
            => req[r].pw = account[req[r].user].pw

\* A password change that waits for its commit has emptied the store, and
\* whatever was saved since came from a request it raced with.
ClearedBeforeCommit ==
    \A r \in Requests :
        req[r].kind = "change_password" /\ req[r].pc = "commit"
            => store[req[r].user] = None \/ store[req[r].user].tok \in tainted

SessionInv ==
    TypeOK /\ RaceMarked /\ UnusedUntouched /\ CredCurrent /\ ClearedBeforeCommit
    /\ StaleSessionOnlyByRace

\* A step of a handler touches its own locals only, and none of those that
\* identify the request.
LEMMA StepLocal ==
    ASSUME TypeOK, NEW r \in Requests, Step(r)
    PROVE  /\ req[r].pc # "idle"
           /\ \A x \in Requests : x # r => req'[x] = req[x]
           /\ \/ req'[r] = Idle
              \/ /\ req'[r].pc # "idle"
                 /\ req'[r].user = req[r].user /\ req'[r].kind = req[r].kind
                 /\ req'[r].raced = req[r].raced /\ req'[r].old = req[r].old
                 /\ req'[r].reused = req[r].reused
<1>1. CASE LoginFetch(r)
  BY <1>1 DEF LoginFetch, Goto, End, TypeOK, Req
<1>2. CASE Mint(r)
  BY <1>2 DEF Mint, TypeOK, Req
<1>3. ASSUME NEW d \in BOOLEAN, Save(r, d)
      PROVE  /\ req[r].pc = "save"
             /\ Goto(r, "commit") \/ End(r)
  BY <1>3 DEF Save
<1>4. CASE RefreshMatch(r)
  BY <1>4 DEF RefreshMatch, Goto, TypeOK, Req
<1>5. CASE RefreshRead(r)
  BY <1>5 DEF RefreshRead, Goto, End, TypeOK, Req
<1>6. CASE Revoke(r)
  BY <1>6 DEF Revoke, End, TypeOK, Req
<1>7. CASE ChangePasswordRead(r)
  BY <1>7 DEF ChangePasswordRead, End, TypeOK, Req
<1>8. CASE ChangePasswordRevoke(r)
  BY <1>8 DEF ChangePasswordRevoke, Goto, TypeOK, Req
<1>9. CASE SetEnabledRead(r)
  BY <1>9 DEF SetEnabledRead, End, TypeOK, Req
<1>10. CASE Commit(r)
  BY <1>10 DEF Commit, End, TypeOK, Req
<1>11. CASE Abort(r)
  BY <1>11 DEF Abort, End, TypeOK, Req
<1>12. CASE \E d \in BOOLEAN : Save(r, d)
  BY <1>3, <1>12 DEF Goto, End, TypeOK, Req
<1> QED BY <1>1, <1>2, <1>4, <1>5, <1>6, <1>7, <1>8, <1>9, <1>10, <1>11, <1>12 DEF Step

\* A request that enters marks, and is marked by, the changes in flight.
LEMMA BeginShape ==
    ASSUME TypeOK, NEW r \in Requests, NEW q \in Req, Begin(r, q)
    PROVE  /\ req[r].pc = "idle"
           /\ \A x \in Requests : x # r =>
                  /\ req'[x].pc = req[x].pc /\ req'[x].user = req[x].user
                  /\ req'[x].kind = req[x].kind /\ req'[x].old = req[x].old
                  /\ req'[x].new = req[x].new /\ req'[x].pw = req[x].pw
                  /\ req'[x].reused = req[x].reused
                  /\ req'[x].raced = (req[x].raced \/ (InFlight(x, q.user) /\ Changes(q.kind)))
           /\ req'[r].pc = q.pc /\ req'[r].user = q.user /\ req'[r].kind = q.kind
           /\ req'[r].old = q.old /\ req'[r].pw = q.pw /\ req'[r].reused = q.reused
           /\ req'[r].raced =
                  \E y \in Requests : InFlight(y, q.user) /\ Changes(req[y].kind)
<1> DEFINE own == \E y \in Requests : InFlight(y, q.user) /\ Changes(req[y].kind)
           met(x) == req[x].raced \/ (InFlight(x, q.user) /\ Changes(q.kind))
<1>1. req[r].pc = "idle"
  BY DEF Begin
<1>2. req' = [x \in Requests |-> IF x = r THEN [q EXCEPT !.raced = own]
                                 ELSE [req[x] EXCEPT !.raced = met(x)]]
  BY DEF Begin
<1>3. \A x \in Requests : req[x] \in Req
  BY DEF TypeOK
<1> HIDE DEF own, met
<1>4. \A x \in Requests : x # r =>
          /\ req'[x].pc = req[x].pc /\ req'[x].user = req[x].user
          /\ req'[x].kind = req[x].kind /\ req'[x].old = req[x].old
          /\ req'[x].new = req[x].new /\ req'[x].pw = req[x].pw
          /\ req'[x].reused = req[x].reused /\ req'[x].raced = met(x)
  BY <1>2, <1>3 DEF Req
<1>5. /\ req'[r].pc = q.pc /\ req'[r].user = q.user /\ req'[r].kind = q.kind
      /\ req'[r].old = q.old /\ req'[r].pw = q.pw /\ req'[r].reused = q.reused
      /\ req'[r].raced = own
  BY <1>2 DEF Req
<1> QED BY <1>1, <1>4, <1>5 DEF own, met

\* What an arrival is, whichever endpoint it calls.
LEMMA ArriveShape ==
    ASSUME SessionInv, NEW r \in Requests, Arrive(r)
    PROVE  \E q \in Req :
              /\ Begin(r, q) /\ q.pc # "idle" /\ q.user \in Users
              /\ q.reused => q.old \in retired
              /\ UNCHANGED <<now, store, issued, history>>
              /\ \/ /\ UNCHANGED account
                    /\ q.pc \in {"fetch", "match", "revoke", "pw_read", "se_read"}
                    /\ account[q.user].state = "unused" => q.pc \in {"fetch", "se_read"}
                 \/ /\ q.pc = "mint" /\ q.kind = "signup"
                    /\ account[q.user].state = "unused"
                    /\ account' = [account EXCEPT ![q.user] =
                           [state |-> "uncommitted", pw |-> q.pw, enabled |-> TRUE]]
<1> USE NoneAssumption
<1>1. \A t \in issued : t.user \in Users /\ account[t.user].state # "unused"
  BY DEF SessionInv, UnusedUntouched, TypeOK, Token
<1>2. ASSUME NEW u \in Users, NEW p \in Passwords, LoginBegin(r, u, p)
      PROVE  \E q \in Req : /\ Begin(r, q) /\ q.pc = "fetch" /\ q.user \in Users
                            /\ ~q.reused
                            /\ UNCHANGED <<now, store, issued, history, account>>
  <2> DEFINE q == [Idle EXCEPT !.kind = "login", !.pc = "fetch", !.user = u, !.pw = p]
  <2>1. q \in Req /\ q.pc = "fetch" /\ q.user \in Users /\ ~q.reused
    BY DEF Idle, Req, Kinds, PCs
  <2> QED BY <1>2, <2>1 DEF LoginBegin
<1>3. ASSUME NEW u \in Users, NEW f \in BOOLEAN, SetEnabledBegin(r, u, f)
      PROVE  \E q \in Req : /\ Begin(r, q) /\ q.pc = "se_read" /\ q.user \in Users
                            /\ ~q.reused
                            /\ UNCHANGED <<now, store, issued, history, account>>
  <2> DEFINE q == [Idle EXCEPT !.kind = "set_enabled", !.pc = "se_read", !.user = u, !.flag = f]
  <2>1. q \in Req /\ q.pc = "se_read" /\ q.user \in Users /\ ~q.reused
    BY DEF Idle, Req, Kinds, PCs
  <2> QED BY <1>3, <2>1 DEF SetEnabledBegin
<1>4. ASSUME NEW t \in issued, RefreshBegin(r, t)
      PROVE  \E q \in Req : /\ Begin(r, q) /\ q.pc = "match" /\ q.user = t.user
                            /\ q.reused => q.old \in retired
                            /\ UNCHANGED <<now, store, issued, history, account>>
  <2> DEFINE b == t \in retired
             q == [Idle EXCEPT !.kind = "refresh", !.pc = "match", !.user = t.user,
                               !.old = t, !.reused = b]
  <2>1. t \in RefreshToken
    BY <1>4 DEF RefreshBegin, parse_token, SessionInv, TypeOK, Token, RefreshToken
  <2>2. b \in BOOLEAN
    OBVIOUS
  <2> HIDE DEF b
  <2>3. q \in Req /\ q.pc = "match" /\ q.user = t.user /\ (q.reused => q.old \in retired)
    BY <1>1, <2>1, <2>2 DEF Idle, Req, Kinds, PCs, b
  <2>4. Begin(r, q)
    BY <1>4 DEF RefreshBegin, b
  <2> QED BY <1>4, <2>3, <2>4 DEF RefreshBegin
<1>5. ASSUME NEW t \in issued, LogoutBegin(r, t)
      PROVE  \E q \in Req : /\ Begin(r, q) /\ q.pc = "revoke" /\ q.user = t.user /\ ~q.reused
                            /\ UNCHANGED <<now, store, issued, history, account>>
  <2> DEFINE q == [Idle EXCEPT !.kind = "logout", !.pc = "revoke", !.user = t.user]
  <2>1. q \in Req /\ q.pc = "revoke" /\ q.user = t.user /\ ~q.reused
    BY <1>1 DEF Idle, Req, Kinds, PCs
  <2> QED BY <1>5, <2>1 DEF LogoutBegin
<1>6. ASSUME NEW t \in issued, NEW p \in Passwords, NEW n \in Passwords,
             ChangePasswordBegin(r, t, p, n)
      PROVE  \E q \in Req : /\ Begin(r, q) /\ q.pc = "pw_read" /\ q.user = t.user /\ ~q.reused
                            /\ UNCHANGED <<now, store, issued, history, account>>
  <2> DEFINE q == [Idle EXCEPT !.kind = "change_password", !.pc = "pw_read",
                               !.user = t.user, !.pw = p, !.next = n]
  <2>1. q \in Req /\ q.pc = "pw_read" /\ q.user = t.user /\ ~q.reused
    BY <1>1 DEF Idle, Req, Kinds, PCs
  <2> QED BY <1>6, <2>1 DEF ChangePasswordBegin
<1>7. ASSUME NEW u \in Users, NEW p \in Passwords, SignupBegin(r, u, p)
      PROVE  \E q \in Req :
                /\ Begin(r, q) /\ q.pc = "mint" /\ q.kind = "signup" /\ q.user \in Users
                /\ account[q.user].state = "unused" /\ ~q.reused
                /\ account' = [account EXCEPT ![q.user] =
                       [state |-> "uncommitted", pw |-> q.pw, enabled |-> TRUE]]
                /\ UNCHANGED <<now, store, issued, history>>
  <2> DEFINE q == [Idle EXCEPT !.kind = "signup", !.pc = "mint", !.user = u, !.pw = p]
  <2>1. q \in Req /\ q.pc = "mint" /\ q.kind = "signup" /\ q.user = u /\ q.pw = p
        /\ ~q.reused
    BY DEF Idle, Req, Kinds, PCs
  <2> QED BY <1>7, <2>1 DEF SignupBegin
<1> DEFINE Plain(q) == /\ Begin(r, q) /\ q.pc # "idle" /\ q.user \in Users
                       /\ q.reused => q.old \in retired
                       /\ UNCHANGED <<now, store, issued, history>>
                       /\ UNCHANGED account
                       /\ q.pc \in {"fetch", "match", "revoke", "pw_read", "se_read"}
                       /\ account[q.user].state = "unused" => q.pc \in {"fetch", "se_read"}
<1>8. CASE \E u \in Users, p \in Passwords : SignupBegin(r, u, p)
  BY <1>7, <1>8
<1>9. CASE \/ \E u \in Users, p \in Passwords : LoginBegin(r, u, p)
           \/ \E u \in Users, flag \in BOOLEAN : SetEnabledBegin(r, u, flag)
  <2>1. \E q \in Req : Plain(q)
    BY <1>2, <1>3, <1>9
  <2> QED BY <2>1
<1>10. CASE \/ \E t \in issued : RefreshBegin(r, t) \/ LogoutBegin(r, t)
            \/ \E t \in issued, p, n \in Passwords : ChangePasswordBegin(r, t, p, n)
  <2>1. \E q \in Req : Plain(q)
    BY <1>1, <1>4, <1>5, <1>6, <1>10
  <2> QED BY <2>1
<1> QED BY <1>8, <1>9, <1>10 DEF Arrive

\* An arrival preserves the invariant.
LEMMA ArriveSession ==
    ASSUME SessionInv, NEW r \in Requests, Arrive(r)
    PROVE  RaceMarked' /\ UnusedUntouched' /\ CredCurrent' /\ ClearedBeforeCommit'
           /\ StaleSessionOnlyByRace'
<1>1. PICK q \in Req :
          /\ Begin(r, q) /\ q.pc # "idle" /\ q.user \in Users
          /\ UNCHANGED <<now, store, issued, history>>
          /\ \/ /\ UNCHANGED account
                /\ q.pc \in {"fetch", "match", "revoke", "pw_read", "se_read"}
                /\ account[q.user].state = "unused" => q.pc \in {"fetch", "se_read"}
             \/ /\ q.pc = "mint" /\ q.kind = "signup"
                /\ account[q.user].state = "unused"
                /\ account' = [account EXCEPT ![q.user] =
                       [state |-> "uncommitted", pw |-> q.pw, enabled |-> TRUE]]
  BY ArriveShape
<1>2. /\ req[r].pc = "idle"
      /\ \A x \in Requests : x # r =>
             /\ req'[x].pc = req[x].pc /\ req'[x].user = req[x].user
             /\ req'[x].kind = req[x].kind /\ req'[x].old = req[x].old
             /\ req'[x].new = req[x].new /\ req'[x].pw = req[x].pw
             /\ req'[x].reused = req[x].reused
             /\ req'[x].raced = (req[x].raced \/ (InFlight(x, q.user) /\ Changes(q.kind)))
      /\ req'[r].pc = q.pc /\ req'[r].user = q.user /\ req'[r].kind = q.kind
      /\ req'[r].old = q.old /\ req'[r].pw = q.pw /\ req'[r].reused = q.reused
      /\ req'[r].raced = \E y \in Requests : InFlight(y, q.user) /\ Changes(req[y].kind)
  BY <1>1, BeginShape DEF SessionInv
<1>3. RaceMarked'
  <2> SUFFICES ASSUME NEW x \in Requests, NEW s \in Requests, x # s,
                      req'[x].pc # "idle", req'[s].pc # "idle",
                      req'[x].user = req'[s].user, Changes(req'[s].kind)
               PROVE  req'[x].raced
    BY DEF RaceMarked, Changes
  <2>1. CASE x = r
    BY <1>2, <2>1 DEF InFlight
  <2>2. CASE s = r
    BY <1>2, <2>2 DEF InFlight
  <2>3. CASE x # r /\ s # r
    BY <1>2, <2>3 DEF RaceMarked, SessionInv
  <2> QED BY <2>1, <2>2, <2>3
<1>4. \A x \in Requests : InFlight(x, q.user)' => x = r \/ InFlight(x, q.user)
  BY <1>2 DEF InFlight
<1>5. CASE UNCHANGED account
  <2>1. q.pc \in {"fetch", "match", "revoke", "pw_read", "se_read"}
        /\ (account[q.user].state = "unused" => q.pc \in {"fetch", "se_read"})
    BY <1>1, <1>5 DEF SessionInv, TypeOK, Accounts
  <2>2. UnusedUntouched'
    BY <1>1, <1>2, <1>5, <2>1 DEF UnusedUntouched, InFlight, SessionInv
  <2>3. CredCurrent'
    BY <1>1, <1>2, <1>5, <2>1 DEF CredCurrent, SessionInv, history
  <2>4. ClearedBeforeCommit' /\ StaleSessionOnlyByRace'
    BY <1>1, <1>2, <1>5, <2>1 DEF ClearedBeforeCommit, StaleSessionOnlyByRace, SessionInv, history
  <2> QED BY <1>3, <2>2, <2>3, <2>4
<1>6. CASE account' # account
  <2>1. /\ q.pc = "mint" /\ account[q.user].state = "unused"
        /\ account' = [account EXCEPT ![q.user] =
               [state |-> "uncommitted", pw |-> q.pw, enabled |-> TRUE]]
    BY <1>1, <1>6
  <2>2. /\ store[q.user] = None
        /\ \A x \in Requests : InFlight(x, q.user) => req[x].pc \in {"fetch", "se_read"}
    BY <1>1, <2>1 DEF UnusedUntouched, SessionInv
  <2>3. /\ account'[q.user].pw = q.pw /\ account'[q.user].state = "uncommitted"
        /\ \A u \in Users : u # q.user => account'[u] = account[u]
    BY <1>1, <2>1 DEF SessionInv, TypeOK
  <2>4. UnusedUntouched'
    BY <1>1, <1>2, <2>3 DEF UnusedUntouched, InFlight, SessionInv
  <2>5. \A x \in Requests : req[x].pc # "idle" => req[x].user \in Users
    BY DEF SessionInv, TypeOK, WellFormed
  <2>6. CredCurrent'
    <3>1. tainted' = tainted
      BY <1>1 DEF history
    <3>2. SUFFICES ASSUME NEW x \in Requests, req'[x].pc \in {"read", "mint", "save"},
                          ~req'[x].raced, req'[x].old \notin tainted
                   PROVE  req'[x].pw = account'[req'[x].user].pw
      BY <3>1 DEF CredCurrent
    <3>3. CASE x = r
      BY <1>2, <2>3, <3>3
    <3>4. CASE x # r
      <4>1. req[x].user # q.user
        BY <1>2, <2>2, <3>2, <3>4 DEF InFlight
      <4>2. req[x].pw = account[req[x].user].pw
        BY <1>2, <3>2, <3>4 DEF CredCurrent, SessionInv
      <4> QED BY <1>2, <2>3, <2>5, <3>2, <3>4, <4>1, <4>2
    <3> QED BY <3>3, <3>4
  <2>7. ClearedBeforeCommit' /\ StaleSessionOnlyByRace'
    BY <1>1, <1>2, <2>1, <2>2, <2>3
       DEF ClearedBeforeCommit, StaleSessionOnlyByRace, SessionInv, history
  <2> QED BY <1>3, <2>4, <2>6, <2>7
<1> QED BY <1>5, <1>6

\* A step of a handler preserves the invariant.
LEMMA StepSession ==
    ASSUME SessionInv, NEW r \in Requests, Step(r)
    PROVE  RaceMarked' /\ UnusedUntouched' /\ CredCurrent' /\ ClearedBeforeCommit'
           /\ StaleSessionOnlyByRace'
<1> USE NoneAssumption
<1> DEFINE q == req[r]
<1>q. q \in Req /\ WellFormed(q) /\ q.pc # "idle" /\ q.user \in Users
  BY StepLocal DEF SessionInv, TypeOK, WellFormed
<1>i. Idle.pc = "idle" /\ Idle.kind = "none"
  BY DEF Idle
<1>l. /\ \A x \in Requests : x # r => req'[x] = req[x]
      /\ \/ req'[r] = Idle
         \/ /\ req'[r].pc # "idle"
            /\ req'[r].user = q.user /\ req'[r].kind = q.kind
            /\ req'[r].raced = q.raced /\ req'[r].old = q.old
  BY StepLocal DEF SessionInv
<1>r. RaceMarked'
  BY <1>q, <1>i, <1>l DEF RaceMarked, Changes, SessionInv
<1>u. q.pc \notin {"fetch", "se_read"} => account[q.user].state # "unused"
  BY <1>q DEF SessionInv, UnusedUntouched, InFlight
<1>w. \A x \in Requests : req[x].pc # "idle" => req[x].user \in Users
  BY DEF SessionInv, TypeOK, WellFormed
<1>0. ASSUME UNCHANGED <<account, store, issued, tainted>>,
             req'[r].pc \in {"mint", "commit"} => account[q.user].state # "unused",
             req'[r].pc \in {"read", "mint", "save"} /\ ~q.raced /\ q.old \notin tainted
                 => req'[r].pw = account[q.user].pw,
             req'[r].kind = "change_password" => req'[r].pc # "commit",
             q.pc \notin {"fetch", "se_read"} \/ req'[r].pc \in {"idle", "mint", "commit"}
      PROVE  UnusedUntouched' /\ CredCurrent' /\ ClearedBeforeCommit' /\ StaleSessionOnlyByRace'
  <2>1. UnusedUntouched'
    BY <1>0, <1>q, <1>i, <1>l, <1>u DEF UnusedUntouched, InFlight, SessionInv
  <2>2. CredCurrent'
    BY <1>0, <1>q, <1>i, <1>l DEF CredCurrent, SessionInv
  <2>3. ClearedBeforeCommit'
    BY <1>0, <1>q, <1>i, <1>l DEF ClearedBeforeCommit, SessionInv
  <2>4. StaleSessionOnlyByRace'
    BY <1>0 DEF StaleSessionOnlyByRace, SessionInv
  <2> QED BY <2>1, <2>2, <2>3, <2>4
<1>1. CASE LoginFetch(r)
  <2>1. q.pc = "fetch" /\ UNCHANGED <<account, store, issued, tainted>>
    BY <1>1 DEF LoginFetch, history
  <2>2. \/ req'[r] = Idle
        \/ /\ req'[r].pc = "mint" /\ req'[r].pw = q.pw /\ req'[r].kind = q.kind
           /\ account[q.user].state = "active" /\ account[q.user].pw = q.pw
    BY <1>1 DEF LoginFetch, Goto, End, Active, SessionInv, TypeOK, Req
  <2> QED BY <1>0, <1>r, <1>i, <2>1, <2>2
<1>2. CASE Mint(r)
  <2>1. /\ q.pc = "mint" /\ UNCHANGED <<account, store, issued, tainted>>
        /\ req'[r].pc = "save" /\ req'[r].pw = q.pw
    BY <1>2 DEF Mint, SessionInv, TypeOK, Req
  <2>2. ~q.raced /\ q.old \notin tainted => q.pw = account[q.user].pw
    BY <2>1 DEF CredCurrent, SessionInv
  <2> QED BY <1>0, <1>r, <1>l, <1>i, <2>1, <2>2
<1>4. CASE RefreshMatch(r)
  <2>1. q.pc = "match" /\ UNCHANGED <<account, store, issued, tainted>>
    BY <1>4 DEF RefreshMatch, history
  <2>2. \/ req'[r].pc = "revoke"
        \/ /\ req'[r].pc = "read" /\ req'[r].pw = store[q.user].cred
           /\ store[q.user] # None /\ store[q.user].tok = q.old
    BY <1>4 DEF RefreshMatch, Goto, matches, SessionInv, TypeOK, Req
  <2>3. store[q.user] # None /\ store[q.user].tok = q.old /\ q.old \notin tainted
            => store[q.user].cred = account[q.user].pw
    BY <1>q DEF StaleSessionOnlyByRace, SessionInv
  <2> QED BY <1>0, <1>r, <1>l, <1>i, <2>1, <2>2, <2>3
<1>5. CASE RefreshRead(r)
  <2>1. q.pc = "read" /\ UNCHANGED <<account, store, issued, tainted>>
    BY <1>5 DEF RefreshRead, history
  <2>2. \/ req'[r] = Idle
        \/ req'[r].pc \in {"mint", "revoke"} /\ req'[r].pw = q.pw
    BY <1>5 DEF RefreshRead, Goto, End, SessionInv, TypeOK, Req
  <2>3. ~q.raced /\ q.old \notin tainted => q.pw = account[q.user].pw
    BY <2>1 DEF CredCurrent, SessionInv
  <2> QED BY <1>0, <1>r, <1>i, <1>u, <2>1, <2>2, <2>3
<1>7. CASE ChangePasswordRead(r)
  <2>1. q.pc = "pw_read" /\ UNCHANGED <<account, store, issued, tainted>>
    BY <1>7 DEF ChangePasswordRead, history
  <2>2. req'[r] = Idle \/ req'[r].pc = "pw_revoke"
    BY <1>7 DEF ChangePasswordRead, End, SessionInv, TypeOK, Req
  <2> QED BY <1>0, <1>r, <1>i, <2>1, <2>2
<1>9. CASE SetEnabledRead(r)
  <2>1. q.pc = "se_read" /\ UNCHANGED <<account, store, issued, tainted>>
    BY <1>9 DEF SetEnabledRead, history
  <2>2. q.kind = "set_enabled"
    BY <1>q, <2>1 DEF WellFormed
  <2>3. \/ req'[r] = Idle
        \/ /\ req'[r].pc = "commit" /\ req'[r].kind = "set_enabled"
           /\ account[q.user].state = "active"
    BY <1>9, <2>2 DEF SetEnabledRead, End, Active, SessionInv, TypeOK, Req
  <2> QED BY <1>0, <1>r, <1>i, <2>1, <2>3
<1>11. CASE Abort(r)
  <2>1. req'[r] = Idle /\ UNCHANGED <<account, store, issued, tainted>>
    BY <1>11 DEF Abort, End, history, SessionInv, TypeOK
  <2> QED BY <1>0, <1>r, <1>i, <2>1
<1>3. ASSUME NEW d \in BOOLEAN, Save(r, d)
      PROVE  UnusedUntouched' /\ CredCurrent' /\ ClearedBeforeCommit' /\ StaleSessionOnlyByRace'
  <2>1. /\ q.pc = "save" /\ q.new \in RefreshToken /\ q.new.user = q.user
        /\ q.kind \in {"login", "refresh", "signup"} /\ account' = account
    BY <1>3, <1>q DEF Save, WellFormed
  <2>2. /\ store'[q.user] # None /\ store'[q.user].tok = q.new /\ store'[q.user].cred = q.pw
        /\ \A u \in Users : u # q.user => store'[u] = store[u]
    <3>1. [tok |-> q.new, exp |-> now + RefreshTTL, cred |-> q.pw] \in Entry
      BY <1>q, <2>1, TTLAssumption DEF Entry, WellFormed, SessionInv, TypeOK, Time
    <3>2. store' = [store EXCEPT ![q.user] =
                       [tok |-> q.new, exp |-> now + RefreshTTL, cred |-> q.pw]]
      BY <1>3 DEF Save, save
    <3> QED BY <1>q, <3>1, <3>2 DEF SessionInv, TypeOK
  <2>3. /\ tainted \subseteq tainted'
        /\ q.raced \/ q.old \in tainted => q.new \in tainted'
    BY <1>3 DEF Save
  <2>4. req'[r] = Idle \/ (req'[r].pc = "commit" /\ req'[r].kind = "signup")
    BY <1>3 DEF Save, Goto, End, SessionInv, TypeOK, Req
  <2>5. \A t \in issued' : t \in issued \/ t.user = q.user
    BY <1>3, <2>1 DEF Save, AccessOf, RefreshToken
  <2>6. UnusedUntouched'
    BY <1>l, <1>q, <1>i, <1>u, <2>1, <2>2, <2>4, <2>5 DEF UnusedUntouched, InFlight, SessionInv
  <2>7. CredCurrent'
    BY <1>l, <1>i, <2>1, <2>3, <2>4 DEF CredCurrent, SessionInv
  <2>8. StaleSessionOnlyByRace'
    <3>1. ~q.raced /\ q.old \notin tainted => q.pw = account[q.user].pw
      BY <2>1 DEF CredCurrent, SessionInv
    <3> QED BY <2>1, <2>2, <2>3, <3>1 DEF StaleSessionOnlyByRace, SessionInv
  <2>9. ClearedBeforeCommit'
    <3> SUFFICES ASSUME NEW x \in Requests, req'[x].kind = "change_password",
                        req'[x].pc = "commit"
                 PROVE  store'[req'[x].user] = None \/ store'[req'[x].user].tok \in tainted'
      BY DEF ClearedBeforeCommit
    <3>1. x # r /\ req'[x] = req[x] /\ req[x].user \in Users
      BY <1>i, <1>l, <1>w, <2>4
    <3>2. CASE req[x].user = q.user
      <4>1. q.raced
        BY <1>q, <3>1, <3>2 DEF RaceMarked, Changes, SessionInv
      <4> QED BY <2>2, <2>3, <3>1, <3>2, <4>1
    <3>3. CASE req[x].user # q.user
      BY <2>2, <2>3, <3>1, <3>3 DEF ClearedBeforeCommit, SessionInv
    <3> QED BY <3>2, <3>3
  <2> QED BY <2>6, <2>7, <2>8, <2>9
<1>6. CASE Revoke(r) \/ ChangePasswordRevoke(r)
  <2>1. /\ store'[q.user] = None
        /\ \A u \in Users : u # q.user => store'[u] = store[u]
    BY <1>6, <1>q DEF Revoke, ChangePasswordRevoke, remove, SessionInv, TypeOK
  <2>2. UNCHANGED <<account, issued, tainted>> /\ q.pc \notin {"fetch", "se_read"}
    BY <1>6 DEF Revoke, ChangePasswordRevoke
  <2>3. req'[r] = Idle \/ req'[r].pc = "commit"
    BY <1>6 DEF Revoke, ChangePasswordRevoke, Goto, End, SessionInv, TypeOK, Req
  <2>4. UnusedUntouched'
    BY <1>l, <1>q, <1>i, <1>u, <2>1, <2>2, <2>3 DEF UnusedUntouched, InFlight, SessionInv
  <2>5. CredCurrent'
    BY <1>l, <1>i, <2>2, <2>3 DEF CredCurrent, SessionInv
  <2>6. ClearedBeforeCommit'
    BY <1>l, <1>i, <1>w, <1>q, <2>1, <2>2, <2>3 DEF ClearedBeforeCommit, SessionInv
  <2>7. StaleSessionOnlyByRace'
    BY <2>1, <2>2 DEF StaleSessionOnlyByRace, SessionInv
  <2> QED BY <1>r, <2>4, <2>5, <2>6, <2>7
<1>10. CASE Commit(r)
  <2>1. /\ q.pc = "commit" /\ req'[r] = Idle /\ UNCHANGED <<store, issued, tainted>>
        /\ \A u \in Users : u # q.user => account'[u] = account[u]
        /\ account'[q.user] \in {account[q.user], CommitRow(q)}
    BY <1>10, <1>q DEF Commit, End, SessionInv, TypeOK
  <2>2. q.kind \in {"signup", "change_password", "set_enabled"}
    BY <1>q, <2>1 DEF WellFormed
  <2>3. account[q.user] \in Accounts
    BY <1>q DEF SessionInv, TypeOK
  <2>4. /\ account'[q.user].state # "unused"
        /\ q.kind # "change_password" => account'[q.user].pw = account[q.user].pw
    BY <1>u, <2>1, <2>2, <2>3 DEF CommitRow, Accounts
  <2>5. UnusedUntouched'
    BY <1>l, <1>i, <2>1, <2>4 DEF UnusedUntouched, InFlight, SessionInv
  <2>6. ClearedBeforeCommit'
    BY <1>l, <1>i, <2>1 DEF ClearedBeforeCommit, SessionInv
  <2>7. CredCurrent'
    <3> SUFFICES ASSUME NEW x \in Requests, req'[x].pc \in {"read", "mint", "save"},
                        ~req'[x].raced, req'[x].old \notin tainted
                 PROVE  req'[x].pw = account'[req'[x].user].pw
      BY <2>1 DEF CredCurrent
    <3>1. x # r /\ req'[x] = req[x] /\ req[x].user \in Users
      BY <1>i, <1>l, <1>w, <2>1
    <3>2. req[x].pw = account[req[x].user].pw
      BY <3>1 DEF CredCurrent, SessionInv
    <3>3. CASE req[x].user = q.user
      <4>1. q.kind = "change_password" => req[x].raced
        BY <1>q, <3>1, <3>3 DEF RaceMarked, Changes, SessionInv
      <4> QED BY <2>4, <3>1, <3>2, <3>3, <4>1
    <3>4. CASE req[x].user # q.user
      BY <2>1, <3>1, <3>2, <3>4
    <3> QED BY <3>3, <3>4
  <2>8. StaleSessionOnlyByRace'
    <3>1. q.kind = "change_password"
              => store[q.user] = None \/ store[q.user].tok \in tainted
      BY <2>1 DEF ClearedBeforeCommit, SessionInv
    <3> QED BY <1>q, <2>1, <2>4, <3>1 DEF StaleSessionOnlyByRace, SessionInv
  <2> QED BY <1>r, <2>5, <2>6, <2>7, <2>8
<1> QED BY <1>r, <1>1, <1>2, <1>3, <1>4, <1>5, <1>6, <1>7, <1>9, <1>10, <1>11 DEF Step

\* The system starts in the invariant.
LEMMA SessionInit == Init => SessionInv
<1> SUFFICES ASSUME Init PROVE SessionInv
  OBVIOUS
<1>1. TypeOK
  <2>1. req \in [Requests -> Req] /\ \A r \in Requests : WellFormed(req[r])
    BY IdleTyped DEF Init
  <2> QED BY <2>1, SeedAssumption, MaxTimeAssumption DEF Init, TypeOK, Time, Accounts
<1>2. \A r \in Requests : req[r].pc = "idle"
  BY DEF Init, Idle
<1> QED BY <1>1, <1>2 DEF SessionInv, Init, RaceMarked, UnusedUntouched, InFlight,
           CredCurrent, ClearedBeforeCommit, StaleSessionOnlyByRace

\* Every step preserves it.
LEMMA SessionStep == SessionInv /\ [Next]_vars => SessionInv'
<1> SUFFICES ASSUME SessionInv, [Next]_vars PROVE SessionInv'
  OBVIOUS
<1>1. TypeOK'
  BY TypeStep DEF SessionInv
<1>2. CASE Tick
  <2>1. /\ UNCHANGED <<account, req, issued, tainted>>
        /\ \A u \in Users : store'[u] \in {None, store[u]}
    BY <1>2 DEF Tick
  <2> QED BY <1>1, <2>1 DEF SessionInv, RaceMarked, UnusedUntouched, InFlight,
             CredCurrent, ClearedBeforeCommit, StaleSessionOnlyByRace, TypeOK, WellFormed
<1>3. CASE UNCHANGED vars
  BY <1>1, <1>3 DEF vars, SessionInv, RaceMarked, UnusedUntouched, InFlight,
     CredCurrent, ClearedBeforeCommit, StaleSessionOnlyByRace
<1>4. CASE \E r \in Requests : Step(r) \/ Arrive(r)
  BY <1>1, <1>4, StepSession, ArriveSession DEF SessionInv
<1> QED BY <1>2, <1>3, <1>4 DEF Next

\* A password change ends every session opened with the former password, but
\* for the requests in flight together with it: for any number of accounts,
\* requests and passwords, and whatever requests die on the way.
THEOREM PasswordChangeEndsSessions == Spec => []StaleSessionOnlyByRace
<1>1. SessionInv => StaleSessionOnlyByRace
  BY DEF SessionInv
<1> QED BY <1>1, SessionInit, SessionStep, PTL DEF Spec

-----------------------------------------------------------------------------
(***************************************************************************)
(* Reuse detection.  ReuseRefused and LiveTokenAccounted speak of tokens   *)
(* at rest; TokenInv adds where every token that was created stands: held  *)
(* by a request, in the store or retired, and in more than one of these    *)
(* places only when two requests created the same string.                  *)
(***************************************************************************)

\* No token comes from the future, and one of the current second has marked
\* its user.
Minted(t) == t.iat <= now /\ (t.iat = now => t.user \in minting)

MintedMarked ==
    /\ \A t \in retired : Minted(t)
    /\ \A u \in Users : store[u] # None => Minted(store[u].tok)
    /\ \A r \in Requests : req[r].pc = "save" => Minted(req[r].new)

\* A stored token that was retired was created twice.
StoredOnce ==
    \A u \in Users : store[u] # None /\ store[u].tok \in retired => store[u].tok \in dup

\* So was one about to be saved that is retired, stored or about to be saved
\* by another request.
PendingOnce ==
    \A r \in Requests : req[r].pc = "save" =>
        /\ req[r].new \in retired => req[r].new \in dup
        /\ matches(req[r].user, req[r].new) => req[r].new \in dup
        /\ \A s \in Requests \ {r} :
               req[s].pc = "save" /\ req[s].new = req[r].new => req[r].new \in dup

\* A refresh that began with a retired token knows so.
ReusedRetired == \A r \in Requests : req[r].reused => req[r].old \in retired

\* A key outlives its token.
EntryOutlives ==
    \A u \in Users : store[u] # None => store[u].tok.iat + RefreshTTL <= store[u].exp

TokenInv ==
    SessionInv /\ MintedMarked /\ StoredOnce /\ PendingOnce /\ ReusedRetired
    /\ EntryOutlives /\ ReuseRefused /\ LiveTokenAccounted

\* An arrival creates and moves no token.
LEMMA ArriveTokens ==
    ASSUME TokenInv, NEW r \in Requests, Arrive(r)
    PROVE  MintedMarked' /\ StoredOnce' /\ PendingOnce' /\ ReusedRetired' /\ EntryOutlives'
           /\ ReuseRefused' /\ LiveTokenAccounted'
<1>0. SessionInv /\ TypeOK
  BY DEF TokenInv, SessionInv
<1>1. PICK q \in Req :
          /\ Begin(r, q) /\ UNCHANGED <<now, store, issued, history>>
          /\ q.reused => q.old \in retired
          /\ \/ q.pc \in {"fetch", "match", "revoke", "pw_read", "se_read"}
             \/ q.pc = "mint" /\ q.kind = "signup"
  BY <1>0, ArriveShape
<1>2. UNCHANGED <<now, store, issued, minting, dup, retired>>
  BY <1>1 DEF history
<1>3. /\ req'[r].pc = q.pc /\ req'[r].kind = q.kind /\ req'[r].old = q.old
      /\ req'[r].reused = q.reused
      /\ \A x \in Requests : x # r =>
             /\ req'[x].pc = req[x].pc /\ req'[x].user = req[x].user
             /\ req'[x].kind = req[x].kind /\ req'[x].old = req[x].old
             /\ req'[x].new = req[x].new /\ req'[x].reused = req[x].reused
  BY <1>0, <1>1, BeginShape
<1>4. \A x \in Requests : req'[x].pc = "save" =>
          req[x].pc = "save" /\ req'[x].new = req[x].new /\ req'[x].user = req[x].user
  BY <1>1, <1>3
<1>5. MintedMarked'
  BY <1>2, <1>4 DEF TokenInv, MintedMarked, Minted
<1>6. StoredOnce' /\ EntryOutlives' /\ LiveTokenAccounted'
  BY <1>2 DEF TokenInv, StoredOnce, EntryOutlives, LiveTokenAccounted, matches, Expired
<1>7. PendingOnce'
  BY <1>2, <1>4 DEF TokenInv, PendingOnce, matches
<1>8. ReusedRetired' /\ ReuseRefused'
  BY <1>1, <1>2, <1>3 DEF TokenInv, ReusedRetired, ReuseRefused
<1> QED BY <1>5, <1>6, <1>7, <1>8

\* A step that moves no token: it may read the store, but saves nothing.
LEMMA QuietTokens ==
    ASSUME TokenInv, NEW r \in Requests, Step(r),
           UNCHANGED <<now, store, issued, minting, dup, retired>>, req'[r].pc # "save",
           req'[r].pc \in {"read", "mint"} =>
               \/ req[r].kind # "refresh" \/ req[r].pc = "read"
               \/ matches(req[r].user, req[r].old)
    PROVE  MintedMarked' /\ StoredOnce' /\ PendingOnce' /\ ReusedRetired' /\ EntryOutlives'
           /\ ReuseRefused' /\ LiveTokenAccounted'
<1>0. TypeOK /\ Idle.pc = "idle" /\ ~Idle.reused
  BY DEF TokenInv, SessionInv, Idle
<1>1. /\ \A x \in Requests : x # r => req'[x] = req[x]
      /\ \/ req'[r] = Idle
         \/ /\ req'[r].kind = req[r].kind /\ req'[r].old = req[r].old
            /\ req'[r].reused = req[r].reused
  BY <1>0, StepLocal
<1>2. MintedMarked'
  BY <1>1 DEF TokenInv, MintedMarked, Minted
<1>3. StoredOnce' /\ EntryOutlives' /\ LiveTokenAccounted'
  BY DEF TokenInv, StoredOnce, EntryOutlives, LiveTokenAccounted, matches, Expired
<1>4. PendingOnce'
  BY <1>1 DEF TokenInv, PendingOnce, matches
<1>5. ReusedRetired'
  BY <1>0, <1>1 DEF TokenInv, ReusedRetired
<1>6. ReuseRefused'
  <2> SUFFICES ASSUME req'[r].kind = "refresh", req'[r].pc \in {"read", "mint", "save"},
                      req'[r].reused
               PROVE  req[r].old \in dup /\ req'[r].old = req[r].old
    BY <1>1 DEF TokenInv, ReuseRefused
  <2>1. /\ req[r].kind = "refresh" /\ req'[r].old = req[r].old /\ req[r].reused
        /\ req'[r].pc \in {"read", "mint"}
    BY <1>0, <1>1
  <2>2. CASE req[r].pc = "read"
    BY <2>1, <2>2 DEF TokenInv, ReuseRefused
  <2>3. CASE req[r].pc # "read"
    <3>1. req[r].old \in retired
      BY <2>1 DEF TokenInv, ReusedRetired
    <3>2. req[r].user \in Users
      BY <1>0, StepLocal DEF TypeOK, WellFormed
    <3> QED BY <2>1, <2>3, <3>1, <3>2 DEF TokenInv, StoredOnce, matches
  <2> QED BY <2>2, <2>3
<1> QED BY <1>2, <1>3, <1>4, <1>5, <1>6

\* remove(), of a logout, a refused refresh or a password change, retires the
\* stored token.
LEMMA RemoveTokens ==
    ASSUME TokenInv, NEW r \in Requests, Revoke(r) \/ ChangePasswordRevoke(r)
    PROVE  MintedMarked' /\ StoredOnce' /\ PendingOnce' /\ ReusedRetired' /\ EntryOutlives'
           /\ ReuseRefused' /\ LiveTokenAccounted'
<1> DEFINE u == req[r].user
<1>0. TypeOK /\ Step(r) /\ Idle.pc = "idle" /\ ~Idle.reused
  BY DEF TokenInv, SessionInv, Idle, Step
<1>1. u \in Users
  BY <1>0, StepLocal DEF TypeOK, WellFormed
<1>2. /\ \A x \in Requests : x # r => req'[x] = req[x]
      /\ \/ req'[r] = Idle
         \/ req'[r].reused = req[r].reused /\ req'[r].old = req[r].old
      /\ req'[r].pc \in {"idle", "commit"}
  <2>1. Goto(r, "commit") \/ End(r)
    BY DEF Revoke, ChangePasswordRevoke
  <2>2. req'[r].pc \in {"idle", "commit"}
    BY <1>0, <2>1 DEF Goto, End, TypeOK, Req
  <2> QED BY <1>0, <2>2, StepLocal
<1>3. /\ UNCHANGED <<now, issued, minting, dup>>
      /\ store'[u] = None /\ \A v \in Users : v # u => store'[v] = store[v]
      /\ retired' = IF store[u] # None THEN retired \cup {store[u].tok} ELSE retired
  BY <1>0, <1>1 DEF Revoke, ChangePasswordRevoke, remove, TypeOK
<1>4. \A x \in Requests : req'[x].pc = "save" => x # r /\ req'[x] = req[x]
  BY <1>2
<1>5. \A v \in Users : store[v] # None => store[v].tok.user = v
  BY <1>0 DEF TypeOK
<1>6. MintedMarked'
  BY <1>1, <1>3, <1>4 DEF TokenInv, MintedMarked, Minted
<1>7. StoredOnce'
  BY <1>1, <1>3, <1>5 DEF TokenInv, StoredOnce
<1>8. PendingOnce'
  <2> SUFFICES ASSUME NEW x \in Requests, req'[x].pc = "save"
               PROVE  /\ req'[x].new \in retired' => req'[x].new \in dup
                      /\ matches(req[x].user, req[x].new)' => req'[x].new \in dup
                      /\ \A s \in Requests \ {x} :
                             req'[s].pc = "save" /\ req'[s].new = req'[x].new
                                 => req'[x].new \in dup
    BY <1>3 DEF PendingOnce
  <2>1. x # r /\ req'[x] = req[x] /\ req[x].pc = "save" /\ req[x].user \in Users
        /\ req[x].new.user = req[x].user
    BY <1>0, <1>4 DEF TypeOK, WellFormed
  <2>2. /\ req[x].new \in retired => req[x].new \in dup
        /\ matches(req[x].user, req[x].new) => req[x].new \in dup
        /\ \A s \in Requests \ {x} :
               req[s].pc = "save" /\ req[s].new = req[x].new => req[x].new \in dup
    BY <2>1 DEF TokenInv, PendingOnce
  <2>3. req[x].new \in retired' => req[x].new \in dup
    BY <1>1, <1>3, <1>5, <2>1, <2>2 DEF matches
  <2>4. matches(req[x].user, req[x].new)' => req[x].new \in dup
    BY <1>3, <2>1, <2>2 DEF matches
  <2> QED BY <1>4, <2>1, <2>2, <2>3, <2>4
<1>9. ReusedRetired' /\ ReuseRefused'
  BY <1>0, <1>2, <1>3 DEF TokenInv, ReusedRetired, ReuseRefused
<1>10. EntryOutlives'
  BY <1>3 DEF TokenInv, EntryOutlives
<1>11. LiveTokenAccounted'
  <2> SUFFICES ASSUME NEW t \in issued, t.typ = "REFRESH", ~Expired(t)
               PROVE  matches(t.user, t)' \/ t \in retired'
    BY <1>3 DEF LiveTokenAccounted, Expired
  <2>1. t.user \in Users
    BY <1>0 DEF TypeOK, Token
  <2> QED BY <1>3, <2>1 DEF TokenInv, LiveTokenAccounted, matches
<1> QED BY <1>6, <1>7, <1>8, <1>9, <1>10, <1>11

\* issue_token_pair creates a refresh token: a string that nobody has, unless
\* another request creates it in the same second.
LEMMA MintTokens ==
    ASSUME TokenInv, NEW r \in Requests, Mint(r)
    PROVE  MintedMarked' /\ StoredOnce' /\ PendingOnce' /\ ReusedRetired' /\ EntryOutlives'
           /\ ReuseRefused' /\ LiveTokenAccounted'
<1> DEFINE q == req[r]
           t == create_token(q.user, "REFRESH")
<1>0. TypeOK /\ Step(r)
  BY DEF TokenInv, SessionInv, Step
<1>1. q.pc = "mint" /\ q.user \in Users /\ now \in Nat
  BY <1>0, StepLocal DEF Mint, TypeOK, WellFormed, Time
<1>2. t.user = q.user /\ t.iat = now
  BY DEF create_token
<1> HIDE DEF t
<1>3. /\ UNCHANGED <<now, store, issued, retired>>
      /\ minting' = minting \cup {q.user}
      /\ dup \subseteq dup' /\ (q.user \in minting => t \in dup')
  BY DEF Mint, t
<1>4. /\ req'[r].pc = "save" /\ req'[r].new = t /\ req'[r].user = q.user
      /\ req'[r].kind = q.kind /\ req'[r].old = q.old /\ req'[r].reused = q.reused
      /\ \A x \in Requests : x # r => req'[x] = req[x]
  <2>1. req' = [req EXCEPT ![r].pc = "save", ![r].new = t]
    BY DEF Mint, t
  <2> QED BY <1>0, <2>1 DEF TypeOK, Req
<1>5. \A s \in Requests \ {r} : req[s].pc = "save" => req[s].new.user = req[s].user
  BY <1>0 DEF TypeOK, WellFormed
<1>6. MintedMarked'
  BY <1>1, <1>2, <1>3, <1>4 DEF TokenInv, MintedMarked, Minted
<1>7. StoredOnce' /\ EntryOutlives' /\ LiveTokenAccounted'
  BY <1>3 DEF TokenInv, StoredOnce, EntryOutlives, LiveTokenAccounted, matches, Expired
<1>8. ReusedRetired' /\ ReuseRefused'
  BY <1>1, <1>3, <1>4 DEF TokenInv, ReusedRetired, ReuseRefused
\* A token that is already anywhere has marked the user.
<1>9. /\ t \in retired => t \in dup'
      /\ matches(q.user, t) => t \in dup'
      /\ \A s \in Requests \ {r} : req[s].pc = "save" /\ req[s].new = t => t \in dup'
  BY <1>1, <1>2, <1>3 DEF TokenInv, MintedMarked, Minted, matches
<1>10. PendingOnce'
  <2> SUFFICES ASSUME NEW x \in Requests, req'[x].pc = "save"
               PROVE  /\ req'[x].new \in retired => req'[x].new \in dup'
                      /\ matches(req'[x].user, req'[x].new) => req'[x].new \in dup'
                      /\ \A s \in Requests \ {x} :
                             req'[s].pc = "save" /\ req'[s].new = req'[x].new
                                 => req'[x].new \in dup'
    BY <1>3 DEF PendingOnce, matches
  <2>1. CASE x = r
    BY <1>4, <1>9, <2>1
  <2>2. CASE x # r
    <3>1. /\ req[x].new \in retired => req[x].new \in dup
          /\ matches(req[x].user, req[x].new) => req[x].new \in dup
          /\ \A s \in Requests \ {x} :
                 req[s].pc = "save" /\ req[s].new = req[x].new => req[x].new \in dup
      BY <1>4, <2>2 DEF TokenInv, PendingOnce
    <3> QED BY <1>3, <1>4, <1>9, <2>2, <3>1
  <2> QED BY <2>1, <2>2
<1> QED BY <1>6, <1>7, <1>8, <1>10

\* save() retires the token that another one replaces, and the key it sets
\* lives as long as the token.
LEMMA SaveTokens ==
    ASSUME TokenInv, NEW r \in Requests, NEW d \in BOOLEAN, Save(r, d)
    PROVE  MintedMarked' /\ StoredOnce' /\ PendingOnce' /\ ReusedRetired' /\ EntryOutlives'
           /\ ReuseRefused' /\ LiveTokenAccounted'
<1> DEFINE q == req[r]
           u == q.user
           e == [tok |-> q.new, exp |-> now + RefreshTTL, cred |-> q.pw]
<1>0. TypeOK /\ Step(r) /\ Idle.pc = "idle" /\ ~Idle.reused
  BY DEF TokenInv, SessionInv, Idle, Step
<1>1. /\ q.pc = "save" /\ u \in Users /\ q.new \in RefreshToken /\ q.new.user = u
      /\ q.pw \in Passwords /\ now \in Nat /\ q.new.iat \in Nat
  BY <1>0, StepLocal DEF Save, TypeOK, WellFormed, Time, RefreshToken
<1>2. /\ \A x \in Requests : x # r => req'[x] = req[x]
      /\ \/ req'[r] = Idle
         \/ req'[r].reused = q.reused /\ req'[r].old = q.old
      /\ req'[r].pc \in {"idle", "commit"}
  <2>1. Goto(r, "commit") \/ End(r)
    BY DEF Save
  <2>2. req'[r].pc \in {"idle", "commit"}
    BY <1>0, <2>1 DEF Goto, End, TypeOK, Req
  <2> QED BY <1>0, <2>2, StepLocal
<1>3. e # None
  BY <1>1, NoneAssumption, TTLAssumption DEF Entry
<1>4. /\ UNCHANGED <<now, minting, dup>>
      /\ store'[u] = e /\ \A v \in Users : v # u => store'[v] = store[v]
      /\ retired' = IF store[u] # None /\ store[u].tok # q.new
                    THEN retired \cup {store[u].tok} ELSE retired
  BY <1>0, <1>1 DEF Save, save, TypeOK
<1>5. \A t \in issued' : t.typ = "REFRESH" => t \in issued \/ t = q.new
  BY <1>1 DEF Save, AccessOf, RefreshToken
<1>6. e.tok = q.new /\ e.exp = now + RefreshTTL
  OBVIOUS
<1> HIDE DEF e
<1>7. \A x \in Requests : req'[x].pc = "save" => x # r /\ req'[x] = req[x]
  BY <1>2
<1>8. \A v \in Users : store[v] # None => store[v].tok.user = v
  BY <1>0 DEF TypeOK
<1>9. Minted(q.new)
  BY <1>1 DEF TokenInv, MintedMarked
<1>10. /\ q.new \in retired => q.new \in dup
       /\ matches(u, q.new) => q.new \in dup
       /\ \A s \in Requests \ {r} : req[s].pc = "save" /\ req[s].new = q.new => q.new \in dup
  BY <1>1 DEF TokenInv, PendingOnce
<1>11. MintedMarked'
  BY <1>1, <1>4, <1>6, <1>7, <1>9 DEF TokenInv, MintedMarked, Minted
<1>12. StoredOnce'
  BY <1>1, <1>4, <1>6, <1>8, <1>10 DEF TokenInv, StoredOnce
<1>13. PendingOnce'
  <2> SUFFICES ASSUME NEW x \in Requests, req'[x].pc = "save"
               PROVE  /\ req'[x].new \in retired' => req'[x].new \in dup
                      /\ matches(req[x].user, req[x].new)' => req'[x].new \in dup
                      /\ \A s \in Requests \ {x} :
                             req'[s].pc = "save" /\ req'[s].new = req'[x].new
                                 => req'[x].new \in dup
    BY <1>4 DEF PendingOnce
  <2>1. x # r /\ req'[x] = req[x] /\ req[x].pc = "save" /\ req[x].user \in Users
        /\ req[x].new.user = req[x].user
    BY <1>0, <1>7 DEF TypeOK, WellFormed
  <2>2. /\ req[x].new \in retired => req[x].new \in dup
        /\ matches(req[x].user, req[x].new) => req[x].new \in dup
        /\ \A s \in Requests \ {x} :
               req[s].pc = "save" /\ req[s].new = req[x].new => req[x].new \in dup
    BY <2>1 DEF TokenInv, PendingOnce
  <2>3. req[x].new \in retired' => req[x].new \in dup
    BY <1>1, <1>4, <1>8, <2>1, <2>2 DEF matches
  <2>4. matches(req[x].user, req[x].new)' => req[x].new \in dup
    BY <1>1, <1>4, <1>6, <2>1, <2>2 DEF matches
  <2> QED BY <1>7, <2>1, <2>2, <2>3, <2>4
<1>14. ReusedRetired' /\ ReuseRefused'
  BY <1>0, <1>2, <1>4 DEF TokenInv, ReusedRetired, ReuseRefused
<1>15. EntryOutlives'
  <2>1. q.new.iat <= now
    BY <1>9 DEF Minted
  <2> QED BY <1>1, <1>4, <1>6, <2>1, TTLAssumption DEF TokenInv, EntryOutlives
<1>16. LiveTokenAccounted'
  <2> SUFFICES ASSUME NEW t \in issued', t.typ = "REFRESH", ~Expired(t)
               PROVE  matches(t.user, t)' \/ t \in retired'
    BY <1>4 DEF LiveTokenAccounted, Expired
  <2>1. CASE t = q.new
    BY <1>1, <1>3, <1>4, <1>6, <2>1 DEF matches
  <2>2. CASE t \in issued
    <3>1. t.user \in Users
      BY <1>0, <2>2 DEF TypeOK, Token
    <3> QED BY <1>1, <1>3, <1>4, <1>6, <2>2, <3>1 DEF TokenInv, LiveTokenAccounted, matches
  <2> QED BY <1>5, <2>1, <2>2
<1> QED BY <1>11, <1>12, <1>13, <1>14, <1>15, <1>16

\* Time passes: what Redis drops has expired.
LEMMA TickTokens ==
    ASSUME TokenInv, Tick
    PROVE  MintedMarked' /\ StoredOnce' /\ PendingOnce' /\ ReusedRetired' /\ EntryOutlives'
           /\ ReuseRefused' /\ LiveTokenAccounted'
<1>0. TypeOK /\ now \in Nat
  BY DEF TokenInv, SessionInv, TypeOK, Time
<1>1. /\ now' = now + 1 /\ minting' = {} /\ UNCHANGED <<req, issued, dup, retired>>
      /\ \A u \in Users : \/ store'[u] = store[u]
                          \/ store'[u] = None /\ store[u] # None /\ store[u].exp <= now + 1
  BY DEF Tick
<1>2. ASSUME NEW t \in Token, Minted(t) PROVE Minted(t)'
  <2>1. t.iat \in Nat
    BY DEF Token, Time
  <2> QED BY <1>0, <1>1, <1>2, <2>1 DEF Minted
<1>3. RefreshToken \subseteq Token
  BY DEF RefreshToken, Token
<1>4. \A u \in Users : store[u] # None => store[u].tok \in Token
  BY <1>0, <1>3 DEF TypeOK, Entry
<1>5. MintedMarked'
  BY <1>0, <1>1, <1>2, <1>3, <1>4 DEF TokenInv, MintedMarked, TypeOK, WellFormed
<1>6. StoredOnce' /\ EntryOutlives' /\ ReusedRetired' /\ ReuseRefused'
  BY <1>1 DEF TokenInv, StoredOnce, EntryOutlives, ReusedRetired, ReuseRefused
<1>7. PendingOnce'
  BY <1>0, <1>1 DEF TokenInv, PendingOnce, matches, TypeOK, WellFormed
<1>8. LiveTokenAccounted'
  <2> SUFFICES ASSUME NEW t \in issued, t.typ = "REFRESH", ~Expired(t)'
               PROVE  matches(t.user, t)' \/ t \in retired
    BY <1>1 DEF LiveTokenAccounted, Expired
  <2>1. t.user \in Users /\ t.iat \in Nat
    BY <1>0 DEF TypeOK, Token, Time
  <2>2. now' < t.iat + RefreshTTL
    BY <1>0, <1>1, <2>1, TTLAssumption DEF Expired, ttl
  <2>3. matches(t.user, t) \/ t \in retired
    BY <1>0, <1>1, <2>1, <2>2, TTLAssumption DEF TokenInv, LiveTokenAccounted, Expired, ttl
  <2>4. CASE matches(t.user, t)
    <3>1. t.iat + RefreshTTL <= store[t.user].exp /\ store[t.user].exp \in Nat
      BY <1>0, <2>1, <2>4 DEF TokenInv, EntryOutlives, matches, TypeOK, Entry
    <3> QED BY <1>0, <1>1, <2>1, <2>2, <2>4, <3>1, TTLAssumption DEF matches
  <2> QED BY <2>3, <2>4
<1> QED BY <1>5, <1>6, <1>7, <1>8

\* Every step preserves the invariant.
LEMMA TokenStep == TokenInv /\ [Next]_vars => TokenInv'
<1> SUFFICES ASSUME TokenInv, [Next]_vars PROVE TokenInv'
  OBVIOUS
<1>1. SessionInv'
  BY SessionStep DEF TokenInv
<1>2. CASE Tick
  BY <1>1, <1>2, TickTokens DEF TokenInv
<1>3. CASE UNCHANGED vars
  BY <1>1, <1>3 DEF vars, TokenInv, MintedMarked, Minted, StoredOnce, PendingOnce, ReusedRetired,
     EntryOutlives, ReuseRefused, LiveTokenAccounted, matches, Expired
<1>4. ASSUME NEW r \in Requests, Arrive(r) PROVE TokenInv'
  BY <1>1, <1>4, ArriveTokens DEF TokenInv
<1>5. ASSUME NEW r \in Requests, Step(r) PROVE TokenInv'
  <2>0. TypeOK /\ WellFormed(req[r]) /\ Idle.pc = "idle"
    BY DEF TokenInv, SessionInv, TypeOK, Idle
  <2>1. CASE Mint(r)
    BY <1>1, <2>1, MintTokens DEF TokenInv
  <2>2. CASE \E d \in BOOLEAN : Save(r, d)
    BY <1>1, <2>2, SaveTokens DEF TokenInv
  <2>3. CASE Revoke(r) \/ ChangePasswordRevoke(r)
    BY <1>1, <2>3, RemoveTokens DEF TokenInv
  <2>4. CASE LoginFetch(r)
    <3>1. req[r].pc = "fetch" /\ req[r].kind = "login" /\ req'[r].pc \in {"idle", "mint"}
      BY <2>0, <2>4 DEF LoginFetch, Goto, End, TypeOK, Req, WellFormed
    <3> QED BY <1>1, <1>5, <2>4, <3>1, QuietTokens DEF TokenInv, LoginFetch, history
  <2>5. CASE RefreshMatch(r)
    <3>1. \/ req'[r].pc = "revoke"
          \/ req'[r].pc = "read" /\ matches(req[r].user, req[r].old)
      BY <2>0, <2>5 DEF RefreshMatch, Goto, TypeOK, Req
    <3> QED BY <1>1, <1>5, <2>5, <3>1, QuietTokens DEF TokenInv, RefreshMatch, history
  <2>6. CASE RefreshRead(r)
    <3>1. req[r].pc = "read" /\ req'[r].pc \in {"idle", "mint", "revoke"}
      BY <2>0, <2>6 DEF RefreshRead, Goto, End, TypeOK, Req
    <3> QED BY <1>1, <1>5, <2>6, <3>1, QuietTokens DEF TokenInv, RefreshRead, history
  <2>7. CASE ChangePasswordRead(r)
    <3>1. req'[r].pc \in {"idle", "pw_revoke"}
      BY <2>0, <2>7 DEF ChangePasswordRead, End, TypeOK, Req
    <3> QED BY <1>1, <1>5, <2>7, <3>1, QuietTokens DEF TokenInv, ChangePasswordRead, history
  <2>8. CASE SetEnabledRead(r)
    <3>1. req'[r].pc \in {"idle", "commit"}
      BY <2>0, <2>8 DEF SetEnabledRead, End, TypeOK, Req
    <3> QED BY <1>1, <1>5, <2>8, <3>1, QuietTokens DEF TokenInv, SetEnabledRead, history
  <2>9. CASE Commit(r) \/ Abort(r)
    <3>1. req'[r].pc = "idle" /\ UNCHANGED <<now, store, issued, minting, dup, retired>>
      BY <2>0, <2>9 DEF Commit, Abort, End, TypeOK, history
    <3> QED BY <1>1, <1>5, <3>1, QuietTokens DEF TokenInv
  <2> QED BY <1>5, <2>1, <2>2, <2>3, <2>4, <2>5, <2>6, <2>7, <2>8, <2>9 DEF Step
<1> QED BY <1>2, <1>3, <1>4, <1>5 DEF Next

\* The system starts in the invariant.
LEMMA TokenInit == Init => TokenInv
<1> SUFFICES ASSUME Init PROVE TokenInv
  OBVIOUS
<1>1. \A r \in Requests : req[r].pc = "idle" /\ ~req[r].reused
  BY DEF Init, Idle
<1> QED BY <1>1, SessionInit DEF Init, TokenInv, MintedMarked, StoredOnce, PendingOnce,
           ReusedRetired, EntryOutlives, ReuseRefused, LiveTokenAccounted

\* A refresh that begins after its token was rotated out, logged out or
\* revoked gets no new pair, however many other requests are in flight, as
\* long as no other request created the same string in the same second.
THEOREM ReusedTokensRefused == Spec => []ReuseRefused
<1>1. TokenInv => ReuseRefused
  BY DEF TokenInv
<1> QED BY <1>1, TokenInit, TokenStep, PTL DEF Spec

\* refresh() never takes an honest client for a thief because of the TTL of
\* the Redis key: for any TTL, an unexpired refresh token that a client holds
\* is stored, or was replaced or revoked.
THEOREM HonestClientsAccepted == Spec => []LiveTokenAccounted
<1>1. TokenInv => LiveTokenAccounted
  BY DEF TokenInv
<1> QED BY <1>1, TokenInit, TokenStep, PTL DEF Spec

-----------------------------------------------------------------------------
(***************************************************************************)
(* Disabled accounts and orphan pairs.  AccountInv adds what a request     *)
(* that is about to create or save a pair has read of the account.         *)
(***************************************************************************)

\* An unmarked request about to create or save a pair acts for an enabled
\* account, and but for a signup for one that is in the table.
EnabledCurrent ==
    \A r \in Requests : req[r].pc \in {"mint", "save"} =>
        /\ req[r].raced \/ account[req[r].user].enabled
        /\ req[r].kind = "signup" \/ Active(req[r].user)

\* The access tokens of a disabled account were created before it was disabled.
IssuedBefore ==
    /\ \A t \in issued : t.iat <= now
    /\ \A u \in Users : ~account[u].enabled =>
           \A t \in issued :
               t.user = u /\ t.typ = "ACCESS" => t.iat <= disabledAt[u] \/ t \in tainted

AccountInv == TokenInv /\ EnabledCurrent /\ IssuedBefore

\* An arrival marks whoever it races with, and of the arrivals only a signup
\* is about to create a pair.
LEMMA ArriveAccount ==
    ASSUME AccountInv, NEW r \in Requests, Arrive(r)
    PROVE  EnabledCurrent' /\ IssuedBefore'
<1>0. SessionInv /\ TypeOK
  BY DEF AccountInv, TokenInv, SessionInv
<1>1. PICK q \in Req :
          /\ Begin(r, q) /\ q.user \in Users /\ UNCHANGED <<now, store, issued, history>>
          /\ \/ /\ UNCHANGED account
                /\ q.pc \in {"fetch", "match", "revoke", "pw_read", "se_read"}
             \/ /\ q.pc = "mint" /\ q.kind = "signup"
                /\ account[q.user].state = "unused"
                /\ account' = [account EXCEPT ![q.user] =
                       [state |-> "uncommitted", pw |-> q.pw, enabled |-> TRUE]]
  BY <1>0, ArriveShape
<1>2. /\ req'[r].pc = q.pc /\ req'[r].kind = q.kind /\ req'[r].user = q.user
      /\ \A x \in Requests : x # r =>
             /\ req'[x].pc = req[x].pc /\ req'[x].user = req[x].user
             /\ req'[x].kind = req[x].kind /\ (req[x].raced => req'[x].raced)
  BY <1>0, <1>1, BeginShape
<1>3. \A u \in Users : \/ account'[u] = account[u]
                       \/ u = q.user /\ account'[u].enabled /\ ~Active(u)
  BY <1>0, <1>1 DEF TypeOK, Active
<1>4. q.pc \in {"mint", "save"} => q.kind = "signup" /\ account'[q.user].enabled
  BY <1>0, <1>1 DEF TypeOK
<1>5. EnabledCurrent'
  <2> SUFFICES ASSUME NEW x \in Requests, req'[x].pc \in {"mint", "save"}
               PROVE  /\ req'[x].raced \/ account'[req'[x].user].enabled
                      /\ req'[x].kind = "signup" \/ account'[req'[x].user].state = "active"
    BY DEF EnabledCurrent, Active
  <2>1. CASE x = r
    BY <1>2, <1>4, <2>1
  <2>2. CASE x # r
    <3>1. req[x].user \in Users
      BY <1>0, <1>2, <2>2 DEF TypeOK, WellFormed
    <3> QED BY <1>2, <1>3, <2>2, <3>1 DEF AccountInv, EnabledCurrent, Active
  <2> QED BY <2>1, <2>2
<1>6. IssuedBefore'
  BY <1>1, <1>3 DEF AccountInv, IssuedBefore, history
<1> QED BY <1>5, <1>6

\* A step that leaves the account alone and gives no token out.
LEMMA QuietAccount ==
    ASSUME AccountInv, NEW r \in Requests, Step(r),
           UNCHANGED <<now, account, issued, tainted, disabledAt>>,
           req'[r].pc \in {"mint", "save"} =>
               \/ req[r].pc \in {"mint", "save"}
               \/ account[req[r].user].enabled /\ Active(req[r].user)
    PROVE  EnabledCurrent' /\ IssuedBefore'
<1>0. TypeOK /\ Idle.pc = "idle"
  BY DEF AccountInv, TokenInv, SessionInv, Idle
<1>1. /\ \A x \in Requests : x # r => req'[x] = req[x]
      /\ \/ req'[r] = Idle
         \/ /\ req'[r].user = req[r].user /\ req'[r].kind = req[r].kind
            /\ req'[r].raced = req[r].raced
  BY <1>0, StepLocal
<1>2. EnabledCurrent'
  BY <1>0, <1>1 DEF AccountInv, EnabledCurrent, Active
<1>3. IssuedBefore'
  BY DEF AccountInv, IssuedBefore
<1> QED BY <1>2, <1>3

\* A pair that is saved for a disabled account is of a request in flight
\* together with the change.
LEMMA SaveAccount ==
    ASSUME AccountInv, NEW r \in Requests, NEW d \in BOOLEAN, Save(r, d)
    PROVE  EnabledCurrent' /\ IssuedBefore'
<1> DEFINE q == req[r]
<1>0. TypeOK /\ Step(r) /\ Idle.pc = "idle"
  BY DEF AccountInv, TokenInv, SessionInv, Idle, Step
<1>1. /\ q.pc = "save" /\ q.new \in RefreshToken /\ q.new.user = q.user
      /\ q.new.iat <= now
  BY <1>0 DEF Save, TypeOK, WellFormed, AccountInv, TokenInv, MintedMarked, Minted
<1>2. /\ \A x \in Requests : x # r => req'[x] = req[x]
      /\ req'[r].pc \in {"idle", "commit"}
  <2>1. Goto(r, "commit") \/ End(r)
    BY DEF Save
  <2>2. req'[r].pc \in {"idle", "commit"}
    BY <1>0, <2>1 DEF Goto, End, TypeOK, Req
  <2> QED BY <1>0, <2>2, StepLocal
<1>3. UNCHANGED <<now, account, disabledAt>> /\ tainted \subseteq tainted'
  BY DEF Save
<1>4. /\ \A t \in issued' : t \in issued \/ t \in {q.new, AccessOf(q.new)}
      /\ q.raced => {q.new, AccessOf(q.new)} \subseteq tainted'
  BY DEF Save
<1>5. \A t \in {q.new, AccessOf(q.new)} : t.iat = q.new.iat /\ t.user = q.user
  BY <1>1 DEF AccessOf, RefreshToken
<1>6. q.raced \/ account[q.user].enabled
  BY <1>1 DEF AccountInv, EnabledCurrent
<1>7. EnabledCurrent'
  BY <1>2, <1>3 DEF AccountInv, EnabledCurrent, Active
<1>8. \A t \in issued' : t.iat <= now
  BY <1>1, <1>4, <1>5 DEF AccountInv, IssuedBefore
<1>9. ASSUME NEW u \in Users, ~account[u].enabled,
             NEW t \in issued', t.user = u, t.typ = "ACCESS"
      PROVE  t.iat <= disabledAt[u] \/ t \in tainted'
  BY <1>3, <1>4, <1>5, <1>6, <1>9 DEF AccountInv, IssuedBefore
<1> QED BY <1>3, <1>7, <1>8, <1>9 DEF IssuedBefore

\* A commit that disables an account has marked every other request of it;
\* no commit takes a row out of the table.
LEMMA CommitAccount ==
    ASSUME AccountInv, NEW r \in Requests, Commit(r)
    PROVE  EnabledCurrent' /\ IssuedBefore'
<1> DEFINE q == req[r]
           u == q.user
<1>0. TypeOK /\ Step(r) /\ WellFormed(q) /\ q \in Req /\ Idle.pc = "idle"
  BY DEF AccountInv, TokenInv, SessionInv, TypeOK, Idle, Step
<1>1. q.pc = "commit" /\ u \in Users /\ q.kind \in {"signup", "change_password", "set_enabled"}
  BY <1>0 DEF Commit, WellFormed
<1>2. /\ UNCHANGED <<now, issued, tainted>> /\ req'[r].pc = "idle"
      /\ \A x \in Requests : x # r => req'[x] = req[x]
      /\ \A v \in Users : v # u => account'[v] = account[v] /\ disabledAt'[v] = disabledAt[v]
  BY <1>0, <1>1 DEF Commit, End, TypeOK
<1>3. account[u] \in Accounts /\ q.flag \in BOOLEAN /\ disabledAt[u] \in Time
  BY <1>0, <1>1 DEF TypeOK, Req
<1>4. /\ Active(u) => account'[u].state = "active"
      /\ q.kind # "set_enabled" => account'[u].enabled = account[u].enabled
      /\ \/ account'[u].enabled \/ disabledAt'[u] = now
         \/ account'[u].enabled = account[u].enabled /\ disabledAt'[u] = disabledAt[u]
  <2>1. \/ account'[u] = account[u] /\ disabledAt'[u] = disabledAt[u]
        \/ account'[u] = CommitRow(q) /\ ~ReadOnly
    BY <1>0, <1>1 DEF Commit, TypeOK
  <2>2. CASE account'[u] = account[u] /\ disabledAt'[u] = disabledAt[u]
    BY <2>2 DEF Active
  <2>3. CASE account'[u] = CommitRow(q) /\ ~ReadOnly
    <3>1. CASE q.kind = "signup"
      BY <1>0, <1>1, <1>3, <2>3, <3>1 DEF Commit, CommitRow, TypeOK, Accounts
    <3>2. CASE q.kind = "change_password"
      <4>1. disabledAt'[u] = disabledAt[u]
        BY <1>0, <1>1, <3>2 DEF Commit
      <4> QED BY <1>3, <2>3, <3>2, <4>1 DEF CommitRow, Active, Accounts
    <3>3. CASE q.kind = "set_enabled"
      <4>1. disabledAt'[u] = IF q.dirty /\ ~q.flag THEN now ELSE disabledAt[u]
        BY <1>0, <1>1, <2>3, <3>3 DEF Commit, TypeOK
      <4> QED BY <1>3, <2>3, <3>3, <4>1 DEF CommitRow, Active, Accounts
    <3> QED BY <1>1, <3>1, <3>2, <3>3
  <2> QED BY <2>1, <2>2, <2>3
<1>5. EnabledCurrent'
  <2> SUFFICES ASSUME NEW x \in Requests, req'[x].pc \in {"mint", "save"}
               PROVE  /\ req'[x].raced \/ account'[req'[x].user].enabled
                      /\ req'[x].kind = "signup" \/ account'[req'[x].user].state = "active"
    BY DEF EnabledCurrent, Active
  <2>1. x # r /\ req'[x] = req[x] /\ req[x].user \in Users
    BY <1>0, <1>2 DEF TypeOK, WellFormed
  <2>2. /\ req[x].raced \/ account[req[x].user].enabled
        /\ req[x].kind = "signup" \/ Active(req[x].user)
    BY <2>1 DEF AccountInv, EnabledCurrent
  <2>3. req[x].user = u /\ q.kind = "set_enabled" => req[x].raced
    BY <1>1, <2>1 DEF AccountInv, TokenInv, SessionInv, RaceMarked, Changes
  <2> QED BY <1>2, <1>4, <2>1, <2>2, <2>3 DEF Active
<1>6. IssuedBefore'
  BY <1>1, <1>2, <1>4 DEF AccountInv, IssuedBefore
<1> QED BY <1>5, <1>6

\* Every step preserves the invariant.
LEMMA AccountStep == AccountInv /\ [Next]_vars => AccountInv'
<1> SUFFICES ASSUME AccountInv, [Next]_vars PROVE AccountInv'
  OBVIOUS
<1>0. TokenInv' /\ TypeOK
  BY TokenStep DEF AccountInv, TokenInv, SessionInv
<1>1. CASE Tick
  <2>1. /\ UNCHANGED <<account, req, issued, tainted, disabledAt>> /\ now' = now + 1
        /\ \A t \in issued : t.iat \in Nat /\ now \in Nat
    BY <1>0, <1>1 DEF Tick, TypeOK, Token, Time
  <2> QED BY <1>0, <2>1 DEF AccountInv, EnabledCurrent, Active, IssuedBefore
<1>2. CASE UNCHANGED vars
  BY <1>0, <1>2 DEF vars, history, AccountInv, EnabledCurrent, Active, IssuedBefore
<1>3. ASSUME NEW r \in Requests, Arrive(r) PROVE AccountInv'
  BY <1>0, <1>3, ArriveAccount DEF AccountInv
<1>4. ASSUME NEW r \in Requests, Step(r) PROVE AccountInv'
  <2>1. CASE Commit(r)
    BY <1>0, <2>1, CommitAccount DEF AccountInv
  <2>2. CASE \E d \in BOOLEAN : Save(r, d)
    BY <1>0, <2>2, SaveAccount DEF AccountInv
  <2>3. CASE LoginFetch(r)
    <3>1. \/ req'[r].pc = "idle"
          \/ account[req[r].user].enabled /\ Active(req[r].user)
      BY <1>0, <2>3 DEF LoginFetch, End, TypeOK, Idle
    <3> QED BY <1>0, <1>4, <2>3, <3>1, QuietAccount DEF AccountInv, LoginFetch, history
  <2>4. CASE RefreshRead(r)
    <3>1. \/ req'[r].pc \in {"idle", "revoke"}
          \/ account[req[r].user].enabled /\ Active(req[r].user)
      BY <1>0, <2>4 DEF RefreshRead, Goto, End, TypeOK, Req, Idle
    <3> QED BY <1>0, <1>4, <2>4, <3>1, QuietAccount DEF AccountInv, RefreshRead, history
  <2>5. CASE Mint(r)
    <3>1. req[r].pc = "mint" /\ UNCHANGED <<now, account, issued, tainted, disabledAt>>
      BY <2>5 DEF Mint
    <3> QED BY <1>0, <1>4, <3>1, QuietAccount DEF AccountInv
  <2>6. CASE RefreshMatch(r)
    <3>1. req'[r].pc \in {"revoke", "read"}
      BY <1>0, <2>6 DEF RefreshMatch, Goto, TypeOK, Req
    <3> QED BY <1>0, <1>4, <2>6, <3>1, QuietAccount DEF AccountInv, RefreshMatch, history
  <2>7. CASE Revoke(r) \/ ChangePasswordRevoke(r)
    <3>1. Goto(r, "commit") \/ End(r)
      BY <2>7 DEF Revoke, ChangePasswordRevoke
    <3>2. req'[r].pc \in {"idle", "commit"}
      BY <1>0, <3>1 DEF Goto, End, TypeOK, Req, Idle
    <3>3. UNCHANGED <<now, account, issued, tainted, disabledAt>>
      BY <2>7 DEF Revoke, ChangePasswordRevoke
    <3> QED BY <1>0, <1>4, <3>2, <3>3, QuietAccount DEF AccountInv
  <2>8. CASE ChangePasswordRead(r)
    <3>1. req'[r].pc \in {"idle", "pw_revoke"}
      BY <1>0, <2>8 DEF ChangePasswordRead, End, TypeOK, Req, Idle
    <3> QED BY <1>0, <1>4, <2>8, <3>1, QuietAccount DEF AccountInv, ChangePasswordRead, history
  <2>9. CASE SetEnabledRead(r)
    <3>1. req'[r].pc \in {"idle", "commit"}
      BY <1>0, <2>9 DEF SetEnabledRead, End, TypeOK, Req, Idle
    <3> QED BY <1>0, <1>4, <2>9, <3>1, QuietAccount DEF AccountInv, SetEnabledRead, history
  <2>10. CASE Abort(r)
    <3>1. req'[r].pc = "idle"
      BY <1>0, <2>10 DEF Abort, End, TypeOK, Idle
    <3> QED BY <1>0, <1>4, <2>10, <3>1, QuietAccount DEF AccountInv, Abort, history
  <2> QED BY <1>4, <2>1, <2>2, <2>3, <2>4, <2>5, <2>6, <2>7, <2>8, <2>9, <2>10 DEF Step
<1> QED BY <1>1, <1>2, <1>3, <1>4 DEF Next

\* The system starts in the invariant.
LEMMA AccountInit == Init => AccountInv
<1> SUFFICES ASSUME Init PROVE AccountInv
  OBVIOUS
<1>1. \A r \in Requests : req[r].pc = "idle"
  BY DEF Init, Idle
<1> QED BY <1>1, TokenInit DEF Init, AccountInv, EnabledCurrent, IssuedBefore

\* Disabling an account cuts it off after the life of an access token, but for
\* requests in flight together with the change: a refresh or a login that read
\* the account enabled before the commit is the only way past it.
THEOREM DisabledAccountsCutOff == Spec => []DisabledCutOff
<1>1. AccountInv => DisabledCutOff
  <2> SUFFICES ASSUME AccountInv, NEW u \in Users, ~account[u].enabled,
                      disabledAt[u] + AccessTTL <= now,
                      NEW t \in issued, t.user = u, t.typ = "ACCESS"
               PROVE  Expired(t) \/ t \in tainted
    BY DEF DisabledCutOff
  <2>1. t.iat \in Nat /\ disabledAt[u] \in Nat /\ now \in Nat
    BY DEF AccountInv, TokenInv, SessionInv, TypeOK, Token, Time
  <2>2. t.iat <= disabledAt[u] \/ t \in tainted
    BY DEF AccountInv, IssuedBefore
  <2> QED BY <2>1, <2>2, TTLAssumption DEF Expired, ttl
<1> QED BY <1>1, AccountInit, AccountStep, PTL DEF Spec

\* Whatever dies or fails at its commit, only a signup saves a pair for an
\* account that is not in the table.
THEOREM PairsNeedRows == Spec => NoPairWithoutRow
<1>1. AccountInv => \A r \in Requests, d \in BOOLEAN :
          Save(r, d) /\ req[r].kind # "signup" => Active(req[r].user)
  BY DEF AccountInv, EnabledCurrent, Save
<1> QED BY <1>1, AccountInit, AccountStep, PTL DEF Spec, NoPairWithoutRow

=============================================================================
