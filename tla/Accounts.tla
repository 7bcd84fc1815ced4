-------------------------------- MODULE Accounts --------------------------------
(***************************************************************************)
(* The hosted server's credentials (store/accounts, accounts): passwords,  *)
(* invitations, device sessions, helper tokens, authenticators, proofs of  *)
(* a recent code and printed recovery codes, all in the database whose one *)
(* writer also records league changes.  Requests read before they write;   *)
(* meanwhile accounts are recovered, sign-ins are reset and the database   *)
(* is replaced by an earlier backup.  Sessions, tokens and codes also end  *)
(* by themselves after days; that is left out, here they live on.          *)
(*                                                                         *)
(* A unit of time is the life of one authenticator code.  Every secret is  *)
(* random: it is named by its kind and the number of its drawing.          *)
(***************************************************************************)
EXTENDS Integers, Sequences, FiniteSets

CONSTANTS
  Users,       \* usernames; an account keeps its own for good
  Founder,     \* the account the server began with
  Privileged,  \* the commissioner and the deputies of the league
  InviteLife, SetupLife, RecentLife,
  RestoreTime, \* a restore on a spare host takes as long
  MaxOf,       \* bound: secrets drawn of each kind
  MaxSecrets,  \* bound: secrets drawn, epochs apart
  MaxRequests, \* bound: requests between a read and their write
  MaxTime      \* bound: the time at which the clock stops

Kinds == {"password", "invite", "session", "token", "seed", "proof", "code", "epoch"}

ASSUME AccountsAssumption ==
  /\ Founder \in Users /\ Privileged \subseteq Users
  /\ {InviteLife, SetupLife, RecentLife, RestoreTime, MaxSecrets, MaxRequests, MaxTime} \subseteq Nat
  /\ MaxOf \in [Kinds -> Nat]
  /\ RestoreTime >= 3 \* a code used just before a loss is out of its window by then

VARIABLES
  now,       \* the server's clock
  db,        \* the account tables
  copy,      \* the last off-site backup of them, if any
  requests,  \* requests whose reads are done; any number of each
  change,    \* the league change that holds the writer, if any
  made,      \* of every secret drawn, by kind and in order, the user it is for
  accepted,  \* passwords, codes, sessions, tokens and proofs the last step let through
  spent,     \* one-use codes that were accepted
  ended,     \* secrets revoked, replaced, reset or recovered from
  stepped    \* per proof: the factor and the time of the code it was given for
vars == <<now, db, copy, requests, change, made, accepted, spent, ended, stepped>>

None == <<"none", 0>>
Once(secret) == [secret |-> secret, counter |-> -1]
Bearer(kind, u, generation, epoch) ==
  [id |-> <<kind, 1>>, user |-> u, generation |-> generation, epoch |-> epoch, revoked |-> FALSE]
NoFactor == [seed |-> None, until |-> 0, confirmed |-> FALSE, last |-> -1, proof |-> None, at |-> 0]

(* A server in use: its founder is signed in and has connected a helper,   *)
(* with an authenticator and printed codes.  None stands for the first     *)
(* epoch.                                                                  *)
Init ==
  /\ now = 1 /\ copy = {} /\ requests = {} /\ change = {}
  /\ made = [k \in Kinds |-> IF k \in {"invite", "proof", "epoch"} THEN <<>> ELSE <<Founder>>]
  /\ db = [password |-> [u \in Users |-> IF u = Founder THEN <<"password", 1>> ELSE None],
           generation |-> [u \in Users |-> 0], epoch |-> None,
           invites |-> {}, codes |-> {[code |-> <<"code", 1>>, user |-> Founder]},
           sessions |-> {Bearer("session", Founder, 0, None)},
           tokens |-> {Bearer("token", Founder, 0, None)},
           totp |-> [u \in Users |-> IF u # Founder THEN NoFactor
                       ELSE [NoFactor EXCEPT !.seed = <<"seed", 1>>, !.confirmed = TRUE, !.last = 0]]]
  /\ accepted = {} /\ spent = {} /\ ended = {} /\ stepped = {}

Secrets(kinds) == UNION {{<<k, n>> : n \in 1..Len(made[k])} : k \in kinds}
UserOf(secret) == made[secret[1]][secret[2]]
Of(kinds, u) == {s \in Secrets(kinds) : UserOf(s) = u}
Fresh(kind) == <<kind, Len(made[kind]) + 1>>
Credentials == {"password", "session", "token", "proof"}

Draw(kind, u) ==
  /\ Len(made[kind]) < MaxOf[kind]
  /\ kind = "epoch" \/ Cardinality(Secrets(Kinds \ {"epoch"})) < MaxSecrets
  /\ made' = [made EXCEPT ![kind] = Append(@, u)]
Writer == change = {}
Quiet == accepted' = {} /\ UNCHANGED spent
Spend(code, shown) == accepted' = {code} \union shown /\ spent' = spent \union {code}
End(secrets) == ended' = ended \union secrets

-----------------------------------------------------------------------------
(* What the store's queries find.                                          *)

HasAccount(u) == db.password[u] # None

(* readSession                                                             *)
LiveSession(id) ==
  {s \in db.sessions :
     /\ s.id = id /\ ~s.revoked /\ s.epoch = db.epoch /\ s.generation = db.generation[s.user]}

(* Token                                                                   *)
LiveToken(id) ==
  {t \in db.tokens :
     /\ t.id = id /\ ~t.revoked /\ t.epoch = db.epoch /\ t.generation = db.generation[t.user]}

(* RecentAuthRemaining                                                     *)
Recent(u, proof) ==
  /\ proof # None /\ db.totp[u].confirmed /\ db.totp[u].proof = proof
  /\ db.totp[u].at <= now /\ db.totp[u].at > now - RecentLife

InWindow(counter) == counter \in {now - 1, now, now + 1}

-----------------------------------------------------------------------------
(* Invitations.  IssueEnrollment, RedeemEnrollment.                        *)

Invite(u) ==
  /\ Writer /\ ~HasAccount(u)
  /\ Draw("invite", u)
  /\ db' = [db EXCEPT !.invites = @ \union {[code |-> Fresh("invite"), user |-> u, at |-> now, redeemed |-> FALSE]}]
  /\ Quiet /\ UNCHANGED <<now, copy, requests, change, ended, stepped>>

Redeem(i) ==
  /\ Writer /\ ~i.redeemed /\ now < i.at + InviteLife /\ ~HasAccount(i.user)
  /\ Draw("password", i.user)
  /\ db' = [db EXCEPT !.password[i.user] = Fresh("password"),
                      !.invites = (@ \ {i}) \union {[i EXCEPT !.redeemed = TRUE]}]
  /\ Spend(Once(i.code), {}) /\ UNCHANGED <<now, copy, requests, change, ended, stepped>>

-----------------------------------------------------------------------------
(* The doors that ask for the password: it is read and computed on before  *)
(* anything is written, and the account may be recovered in between.  Also *)
(* a code or a proof came with the request, so it is one of an             *)
(* authenticator, or a proof, that was handed out before.                  *)

Blank == [step |-> "password", user |-> Founder, hash |-> None, knows |-> {},
          seed |-> None, counter |-> 0, by |-> None]
Ask(r) == Cardinality(requests) < MaxRequests /\ requests' = requests \union {r}
Done(r) == requests' \in {requests, requests \ {r}}

Authenticate(u) ==
  /\ HasAccount(u)
  /\ Ask([Blank EXCEPT !.user = u, !.hash = db.password[u], !.knows = Secrets({"seed", "proof"})])
  /\ accepted' = {Once(db.password[u])} /\ UNCHANGED <<spent, now, db, copy, change, made, ended, stepped>>

GiveUp(r) ==
  /\ requests' = requests \ {r}
  /\ Quiet /\ UNCHANGED <<now, db, copy, change, made, ended, stepped>>

\* mutant: whatever password was verified, the account is signed in
PasswordHeldAnyway(r) == TRUE

PasswordHeld(r) == db.password[r.user] = r.hash

(* CreateSession                                                           *)
SignIn(r) ==
  /\ r.step = "password" /\ Writer /\ PasswordHeld(r)
  /\ Draw("session", r.user)
  /\ db' = [db EXCEPT !.sessions = @ \union
              {[id |-> Fresh("session"), user |-> r.user, generation |-> db.generation[r.user],
                epoch |-> db.epoch, revoked |-> FALSE]}]
  /\ Done(r) /\ accepted' = {Once(r.hash)} /\ UNCHANGED spent /\ UNCHANGED <<now, copy, change, ended, stepped>>

\* mutant: a confirmed authenticator is replaced by another one
SetupAnyway(u) == TRUE

SetupAllowed(u) == ~db.totp[u].confirmed

(* BeginTOTP: the password is not asked for again.                         *)
SetUp(r) ==
  /\ r.step = "password" /\ Writer /\ SetupAllowed(r.user)
  /\ Draw("seed", r.user)
  /\ db' = [db EXCEPT !.totp[r.user].seed = Fresh("seed"), !.totp[r.user].until = now + SetupLife]
  /\ Done(r) /\ accepted' = {Once(r.hash)} /\ UNCHANGED spent /\ UNCHANGED <<now, copy, change, ended, stepped>>

(* verify: the factor is read, and the code matched, outside the writer.   *)
ReadFactor(r, counter) ==
  /\ r.step = "password" /\ db.totp[r.user].seed \in r.knows /\ InWindow(counter)
  /\ requests' = (requests \ {r}) \union
       {[r EXCEPT !.step = IF db.totp[r.user].confirmed THEN "step up" ELSE "confirm",
                  !.seed = db.totp[r.user].seed, !.counter = counter]}
  /\ Quiet /\ UNCHANGED <<now, db, copy, change, made, ended, stepped>>

\* mutant: the counter is compared when the code is matched, not when it is consumed
CounterUnseen(r) == db.totp[r.user].seed = r.seed /\ InWindow(r.counter)

CounterNew(r) ==
  db.totp[r.user].seed = r.seed /\ InWindow(r.counter) /\ db.totp[r.user].last < r.counter

(* ConsumeTOTP                                                             *)
Confirm(r) ==
  /\ r.step = "confirm" /\ Writer /\ CounterNew(r)
  /\ ~db.totp[r.user].confirmed /\ now < db.totp[r.user].until
  /\ db' = [db EXCEPT !.totp[r.user] =
              [@ EXCEPT !.confirmed = TRUE, !.last = r.counter, !.proof = None, !.at = now]]
  /\ Done(r) /\ Spend([secret |-> r.seed, counter |-> r.counter], {Once(r.hash)})
  /\ UNCHANGED <<now, copy, change, made, ended, stepped>>

StepUp(r) ==
  /\ r.step = "step up" /\ Writer /\ CounterNew(r) /\ db.totp[r.user].confirmed
  /\ Draw("proof", r.user)
  /\ db' = [db EXCEPT !.totp[r.user] = [@ EXCEPT !.last = r.counter, !.proof = Fresh("proof"), !.at = now]]
  /\ Done(r) /\ Spend([secret |-> r.seed, counter |-> r.counter], {Once(r.hash)}) /\ End(Of({"proof"}, r.user))
  /\ stepped' = stepped \union {[proof |-> Fresh("proof"), seed |-> r.seed, at |-> now]}
  /\ UNCHANGED <<now, copy, change>>

(* ReplaceRecoveryCodes; one printed code stands for the eight.            *)
PrintCodes(r, proof) ==
  /\ r.step = "password" /\ Writer /\ proof \in r.knows /\ Recent(r.user, proof)
  /\ Draw("code", r.user)
  /\ db' = [db EXCEPT !.codes = {c \in @ : c.user # r.user} \union {[code |-> Fresh("code"), user |-> r.user]}]
  /\ Done(r) /\ accepted' = {Once(r.hash), Once(proof)} /\ End(Of({"code"}, r.user))
  /\ UNCHANGED <<now, copy, change, spent, stepped>>

-----------------------------------------------------------------------------
(* Sessions and helper tokens.                                             *)

Touch(s) ==
  /\ Writer /\ s \in LiveSession(s.id)
  /\ accepted' = {Once(s.id)} /\ UNCHANGED <<now, db, copy, requests, change, made, spent, ended, stepped>>

SignOut(s, all) ==
  LET out == IF all THEN {o \in db.sessions : o.user = s.user} ELSE {s}
  IN  /\ Writer /\ s \in LiveSession(s.id)
      /\ db' = [db EXCEPT !.sessions = (@ \ out) \union {[o EXCEPT !.revoked = TRUE] : o \in out}]
      /\ accepted' = {Once(s.id)} /\ End({o.id : o \in out})
      /\ UNCHANGED <<now, copy, requests, change, made, spent, stepped>>

(* A helper is connected by a session with a proof; the proof is asked     *)
(* before the writer is taken, the session again within.                   *)
AskToken(s, proof) ==
  /\ s \in LiveSession(s.id) /\ s.user \in Privileged /\ Recent(s.user, proof)
  /\ Ask([Blank EXCEPT !.step = "token", !.user = s.user, !.by = s.id])
  /\ accepted' = {Once(s.id), Once(proof)}
  /\ UNCHANGED <<now, db, copy, change, made, spent, ended, stepped>>

IssueToken(r) ==
  /\ r.step = "token" /\ Writer /\ LiveSession(r.by) # {}
  /\ Draw("token", r.user)
  /\ db' = [db EXCEPT !.tokens = @ \union
              {[id |-> Fresh("token"), user |-> r.user, generation |-> db.generation[r.user],
                epoch |-> db.epoch, revoked |-> FALSE]}]
  /\ Done(r) /\ accepted' = {Once(r.by)} /\ UNCHANGED <<now, copy, change, spent, ended, stepped>>

RevokeToken(s, t) ==
  /\ Writer /\ s \in LiveSession(s.id) /\ t.user = s.user
  /\ db' = [db EXCEPT !.tokens = (@ \ {t}) \union {[t EXCEPT !.revoked = TRUE]}]
  /\ accepted' = {Once(s.id)} /\ End({t.id})
  /\ UNCHANGED <<now, copy, requests, change, made, spent, stepped>>

-----------------------------------------------------------------------------
(* A league change: admitted when it holds the writer, and again before    *)
(* its entry is written.                                                   *)

Admitted(c) ==
  \/ LiveToken(c.by) # {}
  \/ \E s \in LiveSession(c.by) : s.user \in Privileged => Recent(s.user, c.proof)

Shown(c) ==
  {Once(c.by)} \union
    (IF c.by[1] = "session" /\ UserOf(c.by) \in Privileged THEN {Once(c.proof)} ELSE {})

BeginChange(by, proof) ==
  LET c == [by |-> by, proof |-> proof]
  IN  /\ Writer /\ Admitted(c)
      /\ change' = {c} /\ accepted' = Shown(c)
      /\ UNCHANGED <<now, db, copy, requests, made, spent, ended, stepped>>

RecordChange(c) ==
  /\ Admitted(c)
  /\ change' = {} /\ accepted' = Shown(c)
  /\ UNCHANGED <<now, db, copy, requests, made, spent, ended, stepped>>

AbortChange ==
  /\ change # {} /\ change' = {}
  /\ Quiet /\ UNCHANGED <<now, db, copy, requests, made, ended, stepped>>

-----------------------------------------------------------------------------
(* resetCredentials                                                        *)
WithoutCredentials(u) ==
  [db EXCEPT !.password[u] = Fresh("password"), !.totp[u] = NoFactor,
             !.codes = {c \in @ : c.user # u}, !.generation[u] = @ + 1]

Recover(c) ==
  /\ Writer /\ c \in db.codes
  /\ Draw("password", c.user) /\ db' = WithoutCredentials(c.user)
  /\ Spend(Once(c.code), {}) /\ End(Of(Credentials \union {"code"}, c.user))
  /\ UNCHANGED <<now, copy, requests, change, stepped>>

(* By the operator at the console, with the offline key.                   *)
ConsoleRecover(u) ==
  /\ Writer /\ HasAccount(u)
  /\ Draw("password", u) /\ db' = WithoutCredentials(u)
  /\ Quiet /\ End(Of(Credentials \union {"code"}, u))
  /\ UNCHANGED <<now, copy, requests, change, stepped>>

(* resetAuth *)
SignedOut(d) ==
  [d EXCEPT !.epoch = Fresh("epoch"), !.totp = [u \in Users |-> [d.totp[u] EXCEPT !.proof = None, !.at = 0]]]

ResetSignIns ==
  /\ Writer
  /\ Draw("epoch", Founder) /\ db' = SignedOut(db)
  /\ Quiet /\ End(Secrets({"session", "token", "proof"}))
  /\ UNCHANGED <<now, copy, requests, change, stepped>>

BackUp ==
  /\ Writer /\ copy' = {db}
  /\ Quiet /\ UNCHANGED <<now, db, requests, change, made, ended, stepped>>

(* ResetAfterRestore, within the copy and before it is installed.  The     *)
(* passwords are again those of the backup.                                *)
Restored(d) ==
  [SignedOut(d) EXCEPT !.codes = {}, !.invites = {i \in @ : i.redeemed}]

Restore(d) ==
  /\ now + RestoreTime <= MaxTime /\ now' = now + RestoreTime
  /\ Draw("epoch", Founder) /\ db' = Restored(d)
  /\ requests' = {} /\ change' = {}
  /\ ended' = Secrets(Kinds \ {"epoch", "seed"}) \ {d.password[u] : u \in Users}
  /\ Quiet /\ UNCHANGED <<copy, stepped>>

Tick ==
  /\ now < MaxTime /\ now' = now + 1
  /\ Quiet /\ UNCHANGED <<db, copy, requests, change, made, ended, stepped>>

Proofs == {None} \union Secrets({"proof"})
Bearers == Secrets({"session", "token"})

Next ==
  \/ \E u \in Users : Invite(u) \/ Authenticate(u) \/ ConsoleRecover(u)
  \/ \E i \in db.invites : Redeem(i)
  \/ \E r \in requests :
       \/ GiveUp(r) \/ SignIn(r) \/ SetUp(r) \/ Confirm(r) \/ StepUp(r) \/ IssueToken(r)
       \/ \E counter \in (now - 1)..(now + 1) : ReadFactor(r, counter)
       \/ \E proof \in Proofs : PrintCodes(r, proof)
  \/ \E s \in db.sessions :
       \/ Touch(s)
       \/ \E all \in BOOLEAN : SignOut(s, all)
       \/ \E proof \in Proofs : AskToken(s, proof)
       \/ \E t \in db.tokens : RevokeToken(s, t)
  \/ \E by \in Bearers, proof \in Proofs : BeginChange(by, proof)
  \/ \E c \in change : RecordChange(c)
  \/ AbortChange
  \/ \E c \in db.codes : Recover(c)
  \/ ResetSignIns \/ BackUp \/ Tick
  \/ \E d \in copy : Restore(d)

Spec == Init /\ [][Next]_vars

-----------------------------------------------------------------------------
(* A code is good once: two requests with one code, a retry, a setup that  *)
(* is begun again and a backup from before its use cannot use it again     *)
(* (store/accounts/totp.go:93, recovery.go:55, reset.go:19).               *)
OnlyOnce == [][accepted' \intersect spent = {}]_vars

(* Whatever was signed out, revoked, replaced, reset or recovered from     *)
(* lets nothing through afterwards, also not a change that was admitted    *)
(* before and is recorded after (sessions.go:118), nor a sign-in, a code   *)
(* or a reprint asked for with a password since recovered from.  One thing *)
(* it still does: begin the setup of an authenticator (totp.go:29).        *)
EndedAreRefused ==
  [][\A a \in accepted' : a.secret \in ended =>
       a.secret[1] = "password" /\ made'["seed"] # made["seed"]]_vars

(* The comment at store/accounts/recovery.go:120 says that everything from *)
(* before a reset is fenced, in the write.  It is not so of the password   *)
(* with which an authenticator setup was asked for before a recovery.      *)
EndedAreFenced == [][\A a \in accepted' : a.secret \notin ended]_vars

(* A proof lets something through for a short time after a code of the     *)
(* authenticator that its account still has (totp.go:119).                 *)
ProofsAreRecent ==
  [][\A a \in accepted', p \in stepped : a.secret = p.proof =>
       /\ now < p.at + RecentLife
       /\ db.totp[UserOf(p.proof)].seed = p.seed /\ db.totp[UserOf(p.proof)].confirmed]_vars
================================================================================
