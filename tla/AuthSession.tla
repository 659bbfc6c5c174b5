----------------------------- MODULE AuthSession -----------------------------
(***************************************************************************)
(* Authentication sessions of the server: app/services/auth.py over the    *)
(* JWT codec of app/core/security.py, the Redis refresh-token store and    *)
(* the per-request database transaction of app/core/database.py.           *)
(*                                                                         *)
(* A request is a slot of Requests.  Every await of a handler (a database  *)
(* query, a Redis call, the final commit) is a step of its own, so the     *)
(* steps of concurrent requests interleave exactly where the event loop    *)
(* and the worker processes can interleave them.                           *)
(*                                                                         *)
(* A JWT is a record of the claims that tell two tokens apart: subject,    *)
(* issue time in whole seconds and type.  There is no token identifier in  *)
(* the code, so two tokens of one user and type created in one second are  *)
(* the same string, and here the same record.                              *)
(***************************************************************************)
EXTENDS Naturals, FiniteSets

CONSTANTS
    Users,        \* user ids
    SeedUsers,    \* the accounts that exist before the first request
    Passwords,    \* passwords
    SeedPassword, \* the password of every seed account
    Requests,     \* slots for requests in flight
    Endpoints,    \* the endpoints the clients of this instance call
    AccessTTL,    \* jwt_access_ttl_minutes, in seconds
    RefreshTTL,   \* jwt_refresh_ttl_days, in seconds
    MaxTime,      \* bound on the clock
    ReadOnly,     \* APP_READ_ONLY
    None          \* the absent value

Time == 0 .. MaxTime

Token == [user : Users, iat : Time, typ : {"ACCESS", "REFRESH"}]

RefreshToken == [user : Users, iat : Time, typ : {"REFRESH"}]

\* What Redis holds under rooti:refresh:<user>.  cred is history: the
\* password that opened the session the token belongs to.
Entry == [tok : RefreshToken, exp : Nat, cred : Passwords]

ASSUME SeedAssumption == SeedUsers \subseteq Users /\ SeedPassword \in Passwords
ASSUME TTLAssumption == AccessTTL \in Nat \ {0} /\ RefreshTTL \in Nat \ {0}
ASSUME MaxTimeAssumption == MaxTime \in Nat
ASSUME ReadOnlyAssumption == ReadOnly \in BOOLEAN
ASSUME NoneAssumption == None \notin Token /\ None \notin Entry /\ None \notin Passwords

VARIABLES
    now,        \* the clock, in seconds (_now_epoch)
    account,    \* the users table
    store,      \* the Redis keys: one entry or None per user
    req,        \* the requests in flight
    issued,     \* tokens a client has received
    \* History, read by the properties only:
    minting,    \* users a pair was created for in the current second
    dup,        \* refresh tokens more than one request created
    retired,    \* refresh tokens that were replaced or removed in the store
    tainted,    \* tokens of a session a password or account change raced with
    disabledAt  \* when the account was last disabled

vars == <<now, account, store, req, issued, minting, dup, retired, tainted, disabledAt>>

history == <<minting, dup, retired, tainted, disabledAt>>

Kinds == {"none", "login", "refresh", "logout", "change_password", "set_enabled", "signup"}

PCs == {"idle", "fetch", "match", "read", "insert", "mint", "save",
        "pw_read", "pw_revoke", "se_read", "revoke", "commit"}

\* The locals of a handler between two awaits: the presented token, the token
\* pair's refresh token, the password given (then: that opened the session),
\* the new password, the new flag and whether the attribute was changed.
\* raced and reused are history.
Req == [kind : Kinds, pc : PCs, user : Users \cup {None},
        old : RefreshToken \cup {None}, new : RefreshToken \cup {None},
        pw : Passwords \cup {None}, next : Passwords \cup {None},
        flag : BOOLEAN, dirty : BOOLEAN, raced : BOOLEAN, reused : BOOLEAN]

Idle == [kind |-> "none", pc |-> "idle", user |-> None, old |-> None, new |-> None,
         pw |-> None, next |-> None, flag |-> FALSE, dirty |-> FALSE,
         raced |-> FALSE, reused |-> FALSE]

-----------------------------------------------------------------------------
(* Tokens: create_token, parse_token.                                      *)

ttl(typ) == IF typ = "ACCESS" THEN AccessTTL ELSE RefreshTTL

create_token(u, typ) == [user |-> u, iat |-> now, typ |-> typ]

AccessOf(t) == [t EXCEPT !.typ = "ACCESS"]

\* jwt.decode rejects exp <= now.
Expired(t) == t.iat + ttl(t.typ) <= now

parse_token(t, expected) == ~Expired(t) /\ t.typ = expected

\* The bearer token alone identifies the caller; no table is read.
current_user(t) == parse_token(t, "ACCESS")

-----------------------------------------------------------------------------
(* The users table as other transactions see it.                           *)

Accounts == [state : {"unused", "uncommitted", "active"}, pw : Passwords, enabled : BOOLEAN]

Active(u) == account[u].state = "active"

Init ==
    /\ now = 0
    /\ account = [u \in Users |->
           [state |-> IF u \in SeedUsers THEN "active" ELSE "unused",
            pw |-> SeedPassword, enabled |-> TRUE]]
    /\ store = [u \in Users |-> None]
    /\ req = [r \in Requests |-> Idle]
    /\ issued = {}
    /\ minting = {} /\ dup = {} /\ retired = {}
    /\ tainted = {} /\ disabledAt = [u \in Users |-> 0]

-----------------------------------------------------------------------------
(* Requests.  Two requests of a user race when one of them changes the     *)
(* password or the account and they are in flight at the same time.        *)

Changes(kind) == kind \in {"change_password", "set_enabled"}

InFlight(r, u) == req[r].pc # "idle" /\ req[r].user = u

Begin(r, q) ==
    /\ req[r].pc = "idle"
    /\ q.kind \in Endpoints
    /\ req' = [x \in Requests |->
           IF x = r
           THEN [q EXCEPT !.raced = \E y \in Requests :
                                       InFlight(y, q.user) /\ Changes(req[y].kind)]
           ELSE [req[x] EXCEPT !.raced = @ \/ (InFlight(x, q.user) /\ Changes(q.kind))]]

Goto(r, pc) == req' = [req EXCEPT ![r].pc = pc]

End(r) == req' = [req EXCEPT ![r] = Idle]

\* Redis SET key token EX ttl, and DEL key.
save(u, entry) ==
    /\ store' = [store EXCEPT ![u] = entry]
    /\ retired' = IF store[u] # None /\ store[u].tok # entry.tok
                  THEN retired \cup {store[u].tok} ELSE retired

remove(u) ==
    /\ store' = [store EXCEPT ![u] = None]
    /\ retired' = IF store[u] # None THEN retired \cup {store[u].tok} ELSE retired

\* Mutant: any stored token will do.
matches_AnyEntry(u, t) == store[u] # None

matches(u, t) == store[u] # None /\ store[u].tok = t

\* Time passes; Redis drops the keys whose TTL has run out.
Tick ==
    /\ now < MaxTime
    /\ now' = now + 1
    /\ store' = [u \in Users |->
           IF store[u] # None /\ store[u].exp <= now + 1 THEN None ELSE store[u]]
    /\ minting' = {}
    /\ UNCHANGED <<account, req, issued, dup, retired, tainted, disabledAt>>

-----------------------------------------------------------------------------
(* POST /auth/login                                                        *)

LoginBegin(r, u, p) ==
    /\ Begin(r, [Idle EXCEPT !.kind = "login", !.pc = "fetch", !.user = u, !.pw = p])
    /\ UNCHANGED <<now, account, store, issued, history>>

LoginFetch(r) ==
    LET q == req[r] IN
    /\ q.pc = "fetch"
    /\ IF Active(q.user) /\ account[q.user].enabled /\ account[q.user].pw = q.pw
       THEN Goto(r, "mint")
       ELSE End(r)
    /\ UNCHANGED <<now, account, store, issued, history>>

\* Mutant: the access token is saved in place of the refresh token.
Mint_SavesAccess(r) ==
    LET q == req[r] IN
    /\ q.pc = "mint"
    /\ req' = [req EXCEPT ![r].pc = "save", ![r].new = create_token(q.user, "ACCESS")]
    /\ minting' = minting \cup {q.user}
    /\ UNCHANGED <<now, account, store, issued, dup, retired, tainted, disabledAt>>

(* issue_token_pair: both tokens are created, then the refresh token is    *)
(* saved in Redis; the client gets the pair unless the answer is lost.     *)

Mint(r) ==
    LET q == req[r]
        t == create_token(q.user, "REFRESH")
    IN
    /\ q.pc = "mint"
    /\ req' = [req EXCEPT ![r].pc = "save", ![r].new = t]
    /\ minting' = minting \cup {q.user}
    /\ dup' = IF q.user \in minting THEN dup \cup {t} ELSE dup
    /\ UNCHANGED <<now, account, store, issued, retired, tainted, disabledAt>>

\* Mutant: the key is given the TTL of the access token.
Save_AccessTTL(r, delivered) ==
    LET q == req[r]
        pair == {q.new, AccessOf(q.new)}
    IN
    /\ q.pc = "save"
    /\ save(q.user, [tok |-> q.new, exp |-> now + AccessTTL, cred |-> q.pw])
    /\ issued' = IF delivered THEN issued \cup pair ELSE issued
    /\ tainted' = IF q.raced \/ q.old \in tainted THEN tainted \cup pair ELSE tainted
    /\ IF q.kind = "signup" THEN Goto(r, "commit") ELSE End(r)
    /\ UNCHANGED <<now, account, minting, dup, disabledAt>>

Save(r, delivered) ==
    LET q == req[r]
        pair == {q.new, AccessOf(q.new)}
    IN
    /\ q.pc = "save"
    /\ save(q.user, [tok |-> q.new, exp |-> now + RefreshTTL, cred |-> q.pw])
    /\ issued' = IF delivered THEN issued \cup pair ELSE issued
    /\ tainted' = IF q.raced \/ q.old \in tainted THEN tainted \cup pair ELSE tainted
    /\ IF q.kind = "signup" THEN Goto(r, "commit") ELSE End(r)
    /\ UNCHANGED <<now, account, minting, dup, disabledAt>>

-----------------------------------------------------------------------------
(* POST /auth/refresh                                                      *)

RefreshBegin(r, t) ==
    /\ parse_token(t, "REFRESH")
    /\ Begin(r, [Idle EXCEPT !.kind = "refresh", !.pc = "match", !.user = t.user,
                             !.old = t, !.reused = t \in retired])
    /\ UNCHANGED <<now, account, store, issued, history>>

RefreshMatch(r) ==
    LET q == req[r] IN
    /\ q.pc = "match"
    /\ IF matches(q.user, q.old)
       THEN req' = [req EXCEPT ![r].pc = "read", ![r].pw = store[q.user].cred]
       ELSE Goto(r, "revoke")
    /\ UNCHANGED <<now, account, store, issued, history>>

\* Mutant: the enabled flag is not looked at.
RefreshRead_IgnoresEnabled(r) ==
    LET q == req[r] IN
    /\ q.pc = "read"
    /\ IF ~Active(q.user) THEN End(r) ELSE Goto(r, "mint")
    /\ UNCHANGED <<now, account, store, issued, history>>

\* Mutant: a missing row is not looked for.
RefreshRead_IgnoresMissing(r) ==
    LET q == req[r] IN
    /\ q.pc = "read"
    /\ Goto(r, IF account[q.user].enabled THEN "mint" ELSE "revoke")
    /\ UNCHANGED <<now, account, store, issued, history>>

RefreshRead(r) ==
    LET q == req[r] IN
    /\ q.pc = "read"
    /\ IF ~Active(q.user) THEN End(r)
       ELSE Goto(r, IF account[q.user].enabled THEN "mint" ELSE "revoke")
    /\ UNCHANGED <<now, account, store, issued, history>>

\* store.remove: the last step of a refused refresh and of a logout.
Revoke(r) ==
    /\ req[r].pc = "revoke"
    /\ remove(req[r].user)
    /\ End(r)
    /\ UNCHANGED <<now, account, issued, minting, dup, tainted, disabledAt>>

-----------------------------------------------------------------------------
(* POST /auth/logout and POST /auth/me/password: the caller is whoever     *)
(* holds an unexpired access token (current_user asks no database).        *)

LogoutBegin(r, t) ==
    /\ current_user(t)
    /\ Begin(r, [Idle EXCEPT !.kind = "logout", !.pc = "revoke", !.user = t.user])
    /\ UNCHANGED <<now, account, store, issued, history>>

ChangePasswordBegin(r, t, current, next) ==
    /\ current_user(t)
    /\ Begin(r, [Idle EXCEPT !.kind = "change_password", !.pc = "pw_read", !.user = t.user,
                             !.pw = current, !.next = next])
    /\ UNCHANGED <<now, account, store, issued, history>>

ChangePasswordRead(r) ==
    LET q == req[r] IN
    /\ q.pc = "pw_read"
    /\ IF Active(q.user) /\ account[q.user].pw = q.pw
       THEN req' = [req EXCEPT ![r].pc = "pw_revoke", ![r].dirty = TRUE]
       ELSE End(r)
    /\ UNCHANGED <<now, account, store, issued, history>>

\* Mutant: the refresh token is left in the store.
ChangePasswordRevoke_Skipped(r) ==
    /\ req[r].pc = "pw_revoke"
    /\ Goto(r, "commit")
    /\ UNCHANGED <<now, account, store, issued, history>>

ChangePasswordRevoke(r) ==
    /\ req[r].pc = "pw_revoke"
    /\ remove(req[r].user)
    /\ Goto(r, "commit")
    /\ UNCHANGED <<now, account, issued, minting, dup, tainted, disabledAt>>

-----------------------------------------------------------------------------
(* PATCH /users/{id}/enabled, by an administrator.  An attribute set to    *)
(* the value that was read is not dirty and writes nothing.                *)

SetEnabledBegin(r, u, flag) ==
    /\ Begin(r, [Idle EXCEPT !.kind = "set_enabled", !.pc = "se_read", !.user = u, !.flag = flag])
    /\ UNCHANGED <<now, account, store, issued, history>>

SetEnabledRead(r) ==
    LET q == req[r] IN
    /\ q.pc = "se_read"
    /\ IF Active(q.user)
       THEN req' = [req EXCEPT ![r].pc = "commit",
                               ![r].dirty = account[q.user].enabled # q.flag]
       ELSE End(r)
    /\ UNCHANGED <<now, account, store, issued, history>>

-----------------------------------------------------------------------------
(* POST /auth/caregivers/signup.  The flush takes a fresh id; the row is   *)
(* invisible to other transactions until the commit.  In read-only mode    *)
(* the INSERT itself is refused (503).                                     *)

SignupBegin(r, u, p) ==
    /\ ~ReadOnly
    /\ account[u].state = "unused"
    /\ account' = [account EXCEPT ![u] = [state |-> "uncommitted", pw |-> p, enabled |-> TRUE]]
    /\ Begin(r, [Idle EXCEPT !.kind = "signup", !.pc = "mint", !.user = u, !.pw = p])
    /\ UNCHANGED <<now, store, issued, history>>

-----------------------------------------------------------------------------
(* get_db_session after the handler has answered: commit, or rollback in   *)
(* read-only mode.  A statement that the flush of the commit would have    *)
(* sent is then never sent.                                                *)

CommitRow(q) ==
    IF q.kind = "signup" THEN [account[q.user] EXCEPT !.state = "active"]
    ELSE IF ~q.dirty THEN account[q.user]
    ELSE IF q.kind = "change_password" THEN [account[q.user] EXCEPT !.pw = q.next]
    ELSE [account[q.user] EXCEPT !.enabled = q.flag]

Commit(r) ==
    LET q == req[r] IN
    /\ q.pc = "commit"
    /\ account' = IF ReadOnly THEN account ELSE [account EXCEPT ![q.user] = CommitRow(q)]
    /\ disabledAt' = IF ~ReadOnly /\ q.kind = "set_enabled" /\ q.dirty /\ ~q.flag
                     THEN [disabledAt EXCEPT ![q.user] = now] ELSE disabledAt
    /\ End(r)
    /\ UNCHANGED <<now, store, issued, minting, dup, retired, tainted>>

\* The request dies at any await: Redis or database error, disconnect, crash
\* of the worker process.  Its transaction is rolled back.
Abort(r) ==
    /\ req[r].pc # "idle"
    /\ End(r)
    /\ UNCHANGED <<now, account, store, issued, history>>

-----------------------------------------------------------------------------
Step(r) ==
    \/ LoginFetch(r) \/ Mint(r) \/ RefreshMatch(r) \/ RefreshRead(r) \/ Revoke(r)
    \/ ChangePasswordRead(r) \/ ChangePasswordRevoke(r) \/ SetEnabledRead(r)
    \/ Commit(r) \/ Abort(r)
    \/ \E delivered \in BOOLEAN : Save(r, delivered)

Arrive(r) ==
    \/ \E u \in Users, p \in Passwords : LoginBegin(r, u, p)
    \/ \E u \in Users, p \in Passwords : SignupBegin(r, u, p)
    \/ \E u \in Users, flag \in BOOLEAN : SetEnabledBegin(r, u, flag)
    \/ \E t \in issued : RefreshBegin(r, t) \/ LogoutBegin(r, t)
    \/ \E t \in issued, p, n \in Passwords : ChangePasswordBegin(r, t, p, n)

Next == Tick \/ \E r \in Requests : Step(r) \/ Arrive(r)

Spec == Init /\ [][Next]_vars

-----------------------------------------------------------------------------
(* Properties.                                                             *)

\* Which locals a handler has assigned by the time it waits at q.pc.
WellFormed(q) ==
    /\ q.pc # "idle" => q.user \in Users
    /\ q.kind = "refresh" => q.old \in RefreshToken /\ q.old.user = q.user
    /\ q.kind = "change_password" => q.next \in Passwords
    /\ q.pc = "fetch" => q.kind = "login"
    /\ q.pc \in {"match", "read"} => q.kind = "refresh"
    /\ q.pc \in {"fetch", "read", "mint", "save"} => q.pw \in Passwords
    /\ q.pc \in {"mint", "save"} => q.kind \in {"login", "refresh", "signup"}
    /\ q.pc = "save" => q.new \in RefreshToken /\ q.new.user = q.user
    /\ q.pc \in {"pw_read", "pw_revoke"} => q.kind = "change_password"
    /\ q.pc = "se_read" => q.kind = "set_enabled"
    /\ q.pc = "commit" => q.kind \in {"signup", "change_password", "set_enabled"}

\* The type invariant: in particular only REFRESH tokens are ever put in the
\* Redis store, and an entry sits under the key of its token's subject.
TypeOK ==
    /\ now \in Time
    /\ account \in [Users -> Accounts]
    /\ store \in [Users -> Entry \cup {None}]
    /\ \A u \in Users : store[u] # None => store[u].tok.user = u
    /\ req \in [Requests -> Req]
    /\ \A r \in Requests : WellFormed(req[r])
    /\ issued \subseteq Token /\ tainted \subseteq Token
    /\ dup \subseteq RefreshToken /\ retired \subseteq RefreshToken
    /\ minting \subseteq Users
    /\ disabledAt \in [Users -> Time]

\* No false reuse alarm: an unexpired refresh token a client holds is the one
\* in the store, unless it was replaced or revoked there.  The TTL of the
\* Redis key alone never makes refresh() treat an honest client as a thief.
LiveTokenAccounted ==
    \A t \in issued :
        t.typ = "REFRESH" /\ ~Expired(t) => matches(t.user, t) \/ t \in retired

\* Reuse detection for requests one after the other: a refresh that begins
\* after its token was rotated out, logged out or revoked gets no new pair,
\* provided a single request created that token string.
ReuseRefused ==
    \A r \in Requests :
        req[r].kind = "refresh" /\ req[r].pc \in {"read", "mint", "save"} /\ req[r].reused
            => req[r].old \in dup

\* change_password ends every session opened with the former password: a
\* stored session of another password than the account's can only come from
\* a request that was in flight together with a change of the user's password
\* or enabled flag, or descend from it.
StaleSessionOnlyByRace ==
    \A u \in Users :
        store[u] # None /\ store[u].cred # account[u].pw => store[u].tok \in tainted

\* Disabling an account cuts it off: once AccessTTL seconds have passed, the
\* account holds no unexpired access token, except from a request that was in
\* flight together with a change of the user's enabled flag or password, or
\* from one that descends from it.
DisabledCutOff ==
    \A u \in Users :
        ~account[u].enabled /\ disabledAt[u] + AccessTTL <= now
            => \A t \in issued :
                   t.user = u /\ t.typ = "ACCESS" => Expired(t) \/ t \in tainted

\* An account whose signup has not committed, or whose commit failed, never
\* gets more than the pair of its signup: every other pair goes to a row that
\* is in the table when the pair is saved.
NoPairWithoutRow ==
    [][\A r \in Requests, d \in BOOLEAN :
          Save(r, d) /\ req[r].kind # "signup" => Active(req[r].user)]_vars

=============================================================================
