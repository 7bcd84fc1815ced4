----------------------------- MODULE AccountsProofs -----------------------------
(***************************************************************************)
(* For any users, lives and bounds: a code is good once, what was ended    *)
(* lets nothing through, and a proof is recent and of the account's own    *)
(* authenticator.  Each follows from what the tables, their backup and the *)
(* requests still to be written may hold of the secrets drawn so far.      *)
(***************************************************************************)
EXTENDS Accounts, TLAPS

Random == (Kinds \X Nat) \union {None}
Factor == [seed : Random, until : Nat, confirmed : BOOLEAN, last : Int, proof : Random, at : Nat]
InviteRow == [code : Random, user : Users, at : Nat, redeemed : BOOLEAN]
CodeRow == [code : Random, user : Users]
Badge == [id : Random, user : Users, generation : Nat, epoch : Random, revoked : BOOLEAN]
Tables ==
  [password : [Users -> Random], generation : [Users -> Nat], epoch : Random,
   invites : SUBSET InviteRow, codes : SUBSET CodeRow, sessions : SUBSET Badge,
   tokens : SUBSET Badge, totp : [Users -> Factor]]
Request ==
  [step : {"password", "confirm", "step up", "token"}, user : Users, hash : Random,
   knows : SUBSET Random, seed : Random, counter : Int, by : Random]

(* The secret s was drawn as one of the kind for the user.                 *)
Owns(u, kind, s) == s \in Of({kind}, u)
Held(kinds, s) == \E u \in Users, k \in kinds : Owns(u, k, s)
Drawn(e) == e = None \/ Held({"epoch"}, e)
Endable == Kinds \ {"epoch", "seed"}

Typed ==
  /\ now \in Nat /\ made \in [Kinds -> Seq(Users)]
  /\ db \in Tables /\ copy \subseteq Tables
  /\ \A s \in ended : Held(Endable, s)
  /\ \A p \in stepped : Held({"proof"}, p.proof) /\ p.at \in Nat

OwnedBadges(d, kind, held) ==
  /\ \A b \in held : /\ Owns(b.user, kind, b.id) /\ Drawn(b.epoch)
                     /\ b.generation <= d.generation[b.user]
  /\ \A b, c \in held : b.id = c.id => b = c

(* Everybody's credentials are their own, in the tables and in a backup.   *)
Owned(d) ==
  /\ \A u \in Users : d.password[u] = None \/ Owns(u, "password", d.password[u])
  /\ \A i \in d.invites : Owns(i.user, "invite", i.code)
  /\ \A i, j \in d.invites : i.code = j.code => i = j
  /\ \A c \in d.codes : Owns(c.user, "code", c.code)
  /\ OwnedBadges(d, "session", d.sessions)
  /\ OwnedBadges(d, "token", d.tokens)
  /\ Drawn(d.epoch)
  /\ \A u \in Users : /\ d.totp[u].seed = None \/ Owns(u, "seed", d.totp[u].seed)
                      /\ d.totp[u].proof = None \/ Owns(u, "proof", d.totp[u].proof)

(* A request came with a password that was its account's, and with codes   *)
(* and proofs that were drawn by then.                                     *)
Asked(r) ==
  /\ r \in Request
  /\ \A s \in r.knows : Held({"seed", "proof"}, s)
  /\ IF r.step = "token" THEN r.knows = {} ELSE Owns(r.user, "password", r.hash)
  /\ r.step \in {"confirm", "step up"} => Owns(r.user, "seed", r.seed) /\ r.seed \in r.knows

(* What was used is remembered, or its window has passed.                  *)
SpentOf(x) ==
  \/ x.counter = -1 /\ Held({"invite", "code"}, x.secret)
  \/ x.counter \in Int /\ x.counter <= now + 1 /\ Held({"seed"}, x.secret)

Unspent ==
  /\ \A x \in spent : SpentOf(x)
  /\ \A i \in db.invites : Once(i.code) \in spent => i.redeemed
  /\ \A c \in db.codes : Once(c.code) \notin spent
  /\ \A x \in spent, u \in Users :
       x.secret = db.totp[u].seed => x.counter <= db.totp[u].last \/ x.counter < now - 1

(* What was ended is no longer there, or marked, or of an earlier epoch or *)
(* generation.                                                             *)
Alive(b) == ~b.revoked /\ b.epoch = db.epoch /\ b.generation = db.generation[b.user]

Dead ==
  /\ \A u \in Users : db.password[u] \notin ended /\ db.totp[u].proof \notin ended
  /\ \A i \in db.invites : i.code \in ended => i.redeemed
  /\ \A c \in db.codes : c.code \notin ended
  /\ \A b \in db.sessions \union db.tokens : b.id \in ended => ~Alive(b)

(* The proof an account holds was given for its own, confirmed factor.     *)
Proven ==
  \A u \in Users, p \in stepped :
    p.proof = db.totp[u].proof =>
      p.at = db.totp[u].at /\ p.seed = db.totp[u].seed /\ db.totp[u].confirmed

IInv ==
  /\ Typed
  /\ Owned(db) /\ \A d \in copy : Owned(d)
  /\ \A r \in requests : Asked(r)
  /\ Unspent /\ Dead /\ Proven

-----------------------------------------------------------------------------
(* Every secret is of one kind and drawn for one user.                     *)
Names ==
  /\ \A u, k, s : Owns(u, k, s) => s # None /\ s[1] = k /\ UserOf(s) = u
  /\ \A u, k, s : Owns(u, k, s) => (k \in Kinds => s \in Random /\ u \in Users)
  /\ \A K \in SUBSET Kinds : \A u, s : s \in Of(K, u) <=> \E k \in K : Owns(u, k, s)
  /\ \A K \in SUBSET Kinds : \A s : s \in Secrets(K) <=> Held(K, s)

(* A drawn secret names its kind and its user, and Of and Secrets are what *)
(* users own.                                                              *)
LEMMA NamesAre == made \in [Kinds -> Seq(Users)] => Names
<1> SUFFICES ASSUME made \in [Kinds -> Seq(Users)] PROVE Names
  OBVIOUS
<1>1. ASSUME NEW K, NEW s
      PROVE s \in Secrets(K) <=> \E k \in K : \E n \in 1..Len(made[k]) : s = <<k, n>>
  BY DEF Secrets
<1>2. ASSUME NEW u, NEW k, NEW s
      PROVE Owns(u, k, s) <=> \E n \in 1..Len(made[k]) : s = <<k, n>> /\ made[k][n] = u
  BY <1>1 DEF Owns, Of, UserOf
<1>3. ASSUME NEW u, NEW k, NEW s, Owns(u, k, s)
      PROVE s # None /\ s[1] = k /\ UserOf(s) = u
  <2>1. PICK n \in 1..Len(made[k]) : s = <<k, n>> /\ made[k][n] = u
    BY <1>2, <1>3
  <2> QED BY <2>1 DEF UserOf, None
<1>4. ASSUME NEW u, NEW k \in Kinds, NEW s, Owns(u, k, s)
      PROVE s \in Random /\ u \in Users
  <2>1. PICK n \in 1..Len(made[k]) : s = <<k, n>> /\ made[k][n] = u
    BY <1>2, <1>4
  <2>2. n \in Nat /\ made[k] \in Seq(Users)
    OBVIOUS
  <2> QED BY <2>1, <2>2 DEF Random
<1>5. ASSUME NEW K \in SUBSET Kinds, NEW u, NEW s
      PROVE s \in Of(K, u) <=> \E k \in K : Owns(u, k, s)
  BY <1>1, <1>2 DEF Of, UserOf
<1>6. ASSUME NEW K \in SUBSET Kinds, NEW s
      PROVE s \in Secrets(K) <=> Held(K, s)
  <2>1. ASSUME NEW k \in K, NEW n \in 1..Len(made[k]) PROVE made[k][n] \in Users
    OBVIOUS
  <2> QED BY <1>1, <1>2, <2>1 DEF Held
<1> QED BY <1>3, <1>4, <1>5, <1>6 DEF Names

LEMMA NamesNext == (made \in [Kinds -> Seq(Users)] => Names)'
BY NamesAre, PTL

(* No secret is forgotten or changes hands.                                *)
Grows == \A v, k, s : k \in Kinds /\ Owns(v, k, s) => Owns(v, k, s)'

(* A drawing makes one new secret and leaves the others as they were.      *)
LEMMA DrawIs ==
  ASSUME made \in [Kinds -> Seq(Users)], NEW kind \in Kinds, NEW u \in Users, Draw(kind, u)
  PROVE  /\ made' \in [Kinds -> Seq(Users)]
         /\ Grows
         /\ \E f : /\ f = Fresh(kind) /\ Owns(u, kind, f)'
                   /\ \A v, k : k \in Kinds => ~Owns(v, k, f)
<1> DEFINE f == Fresh(kind)
<1>1. made' = [made EXCEPT ![kind] = Append(@, u)] /\ made' \in [Kinds -> Seq(Users)]
  BY DEF Draw
<1>2. ASSUME NEW v, NEW k, NEW s
      PROVE Owns(v, k, s) <=> \E n \in 1..Len(made[k]) : s = <<k, n>> /\ made[k][n] = v
  BY DEF Owns, Of, UserOf, Secrets
<1>3. ASSUME NEW v, NEW k, NEW s
      PROVE Owns(v, k, s)' <=> \E n \in 1..Len(made'[k]) : s = <<k, n>> /\ made'[k][n] = v
  BY DEF Owns, Of, UserOf, Secrets
<1>4. ASSUME NEW k \in Kinds, NEW n \in 1..Len(made[k])
      PROVE n \in 1..Len(made'[k]) /\ made'[k][n] = made[k][n]
  BY <1>1
<1>5. ASSUME NEW v, NEW k \in Kinds, NEW s, Owns(v, k, s) PROVE Owns(v, k, s)'
  BY <1>2, <1>3, <1>4, <1>5
<1>6. f = <<kind, Len(made[kind]) + 1>>
  BY DEF Fresh
<1>7. Len(made[kind]) + 1 \in 1..Len(made'[kind]) /\ made'[kind][Len(made[kind]) + 1] = u
  BY <1>1
<1>8. \A g : g = f => Owns(u, kind, g)'
  BY <1>3, <1>6, <1>7
<1>9. ASSUME NEW v, NEW k \in Kinds PROVE ~Owns(v, k, f)
  BY <1>2, <1>6
<1> QED BY <1>1, <1>5, <1>8, <1>9 DEF Grows

LEMMA NothingDrawn ==
  ASSUME UNCHANGED made PROVE Grows
BY DEF Grows, Owns, Of, UserOf, Secrets

LEMMA HeldStays ==
  ASSUME Grows, NEW K \in SUBSET Kinds, NEW s, Held(K, s) PROVE Held(K, s)'
BY DEF Grows, Held

(* What is in a backup stays its users' own.                               *)
LEMMA OwnedStays ==
  ASSUME Grows, NEW d, Owned(d) PROVE Owned(d)'
<1>1. \A e : Drawn(e) => Drawn(e)'
  BY HeldStays DEF Drawn, Kinds
<1>2. {"password", "invite", "code", "session", "token", "seed", "proof"} \subseteq Kinds
  BY DEF Kinds
<1>3. ASSUME NEW k \in {"session", "token"}, NEW held, OwnedBadges(d, k, held)
      PROVE OwnedBadges(d, k, held)'
  BY <1>1, <1>2, <1>3 DEF OwnedBadges, Grows
<1> QED BY <1>1, <1>2, <1>3 DEF Owned, Grows

(* So do the backup and the requests, whatever a step does to the tables.  *)
LEMMA AroundStays ==
  ASSUME IInv, Grows, copy' \subseteq copy \union {db}, \A r \in requests' : Asked(r)
  PROVE  (\A d \in copy : Owned(d))' /\ (\A r \in requests : Asked(r))'
<1>1. ASSUME NEW d \in copy' PROVE Owned(d)'
  BY <1>1, OwnedStays DEF IInv
<1>2. ASSUME NEW r \in requests' PROVE Asked(r)'
  <2>1. \A s \in r.knows : Held({"seed", "proof"}, s)'
    BY <1>2, HeldStays DEF Asked, Kinds
  <2> QED BY <1>2, <2>1 DEF Asked, Grows, Kinds
<1> QED BY <1>1, <1>2

(* A step that leaves the tables alone keeps all of it.                    *)
LEMMA FrameKeeps ==
  ASSUME IInv, UNCHANGED <<db, made, spent, ended, stepped>>, now' \in Nat, now' >= now,
         copy' \subseteq copy \union {db}, \A r \in requests' : Asked(r)
  PROVE  IInv'
<1>1. Grows
  BY NothingDrawn
<1>2. \A K \in SUBSET Kinds : \A s : Held(K, s) => Held(K, s)'
  BY <1>1, HeldStays
<1>3. Typed'
  BY <1>2 DEF IInv, Typed, Endable, Kinds
<1>4. Owned(db)'
  <2>1. \A d : d = db => Owned(d)'
    BY <1>1, OwnedStays DEF IInv
  <2> QED BY <2>1
<1>5. Unspent'
  <2>1. ASSUME NEW x \in spent' PROVE SpentOf(x)'
    <3>1. SpentOf(x) /\ now \in Nat
      BY <2>1 DEF IInv, Unspent, Typed
    <3>2. CASE x.counter = -1 /\ Held({"invite", "code"}, x.secret)
      BY <1>2, <3>2 DEF SpentOf, Kinds
    <3>3. CASE x.counter \in Int /\ x.counter <= now + 1 /\ Held({"seed"}, x.secret)
      <4>1. x.counter <= now' + 1
        BY <3>1, <3>3
      <4> QED BY <1>2, <3>3, <4>1 DEF SpentOf, Kinds
    <3> QED BY <3>1, <3>2, <3>3 DEF SpentOf
  <2>2. ASSUME NEW x \in spent, NEW u \in Users, x.secret = db.totp[u].seed
        PROVE x.counter <= db.totp[u].last \/ x.counter < now' - 1
    <3>1. SpentOf(x) /\ x.counter \in Int /\ now \in Nat
      BY DEF IInv, Unspent, SpentOf, Typed
    <3> QED BY <2>2, <3>1 DEF IInv, Unspent
  <2> QED BY <2>1, <2>2 DEF IInv, Unspent
<1>6. Dead'
  BY DEF IInv, Dead, Alive
<1>7. Proven'
  BY DEF IInv, Proven
<1>8. (\A d \in copy : Owned(d))' /\ (\A r \in requests : Asked(r))'
  BY <1>1, AroundStays
<1> QED BY <1>3, <1>4, <1>5, <1>6, <1>7, <1>8 DEF IInv

-----------------------------------------------------------------------------
(* A secret just drawn for u was never seen before.                        *)
New(u, kind, f) ==
  /\ f \in Random /\ f # None /\ Owns(u, kind, f)'
  /\ \A v, k : k \in Kinds => ~Owns(v, k, f)
  /\ f \notin ended /\ (\A x \in spent : x.secret # f) /\ \A p \in stepped : p.proof # f

LEMMA NewIs ==
  ASSUME IInv, NEW kind \in Kinds, NEW u \in Users, Draw(kind, u)
  PROVE  made' \in [Kinds -> Seq(Users)] /\ Grows /\ \E f : f = Fresh(kind) /\ New(u, kind, f)
<1>1. made \in [Kinds -> Seq(Users)]
  BY DEF IInv, Typed
<1>2. PICK f : f = Fresh(kind) /\ Owns(u, kind, f)' /\ \A v, k : k \in Kinds => ~Owns(v, k, f)
  BY <1>1, DrawIs
<1>3. made' \in [Kinds -> Seq(Users)] /\ Grows
  BY <1>1, DrawIs
<1>4. f \in Random /\ f # None
  BY <1>2, <1>3, NamesNext DEF Names
<1>5. \A K \in SUBSET Kinds : ~Held(K, f)
  BY <1>2 DEF Held
<1>6. f \notin ended /\ (\A x \in spent : x.secret # f) /\ \A p \in stepped : p.proof # f
  BY <1>5 DEF IInv, Typed, Unspent, SpentOf, Endable, Kinds
<1> QED BY <1>2, <1>3, <1>4, <1>6 DEF New

(* What the step's other conjuncts leave to show of the tables' types.     *)
LEMMA TypedStays ==
  ASSUME IInv, Grows, made' \in [Kinds -> Seq(Users)], UNCHANGED <<now, copy>>, db' \in Tables
  PROVE  /\ UNCHANGED <<ended, stepped>> => Typed'
         /\ UNCHANGED ended /\ (\A p \in stepped : Held({"proof"}, p.proof) /\ p.at \in Nat)' => Typed'
         /\ UNCHANGED stepped /\ (\A s \in ended : Held(Endable, s))' => Typed'
         /\ (\A s \in ended : Held(Endable, s))'
              /\ (\A p \in stepped : Held({"proof"}, p.proof) /\ p.at \in Nat)' => Typed'
<1>1. \A K \in SUBSET Kinds : \A s : Held(K, s) => Held(K, s)'
  BY HeldStays
<1>2. now' \in Nat /\ copy' \subseteq Tables
  BY DEF IInv, Typed
<1>3. UNCHANGED ended => (\A s \in ended : Held(Endable, s))'
  BY <1>1 DEF IInv, Typed, Endable, Kinds
<1>4. UNCHANGED stepped => (\A p \in stepped : Held({"proof"}, p.proof) /\ p.at \in Nat)'
  BY <1>1 DEF IInv, Typed, Kinds
<1> QED BY <1>2, <1>3, <1>4 DEF Typed

LEMMA SpentStays ==
  ASSUME IInv, Grows, UNCHANGED now, NEW x \in spent PROVE SpentOf(x)'
<1>1. \A K \in SUBSET Kinds : \A s : Held(K, s) => Held(K, s)'
  BY HeldStays
<1>2. SpentOf(x)
  BY DEF IInv, Unspent
<1> QED BY <1>1, <1>2 DEF SpentOf, Kinds

-----------------------------------------------------------------------------
LEMMA InviteKeeps ==
  ASSUME IInv, NEW u \in Users, Invite(u) PROVE IInv'
<1>1. PICK f : f = Fresh("invite") /\ New(u, "invite", f)
  BY NewIs DEF Invite, Kinds
<1>2. made' \in [Kinds -> Seq(Users)] /\ Grows
  BY NewIs DEF Invite, Kinds
<1> DEFINE row == [code |-> f, user |-> u, at |-> now, redeemed |-> FALSE]
<1>3. db \in Tables /\ now \in Nat
  BY DEF IInv, Typed
<1>4. row \in InviteRow
  BY <1>1, <1>3 DEF New, InviteRow
<1>5. db' = [db EXCEPT !.invites = @ \union {row}]
  BY <1>1 DEF Invite
<1>6. db' \in Tables
  BY <1>3, <1>4, <1>5 DEF Tables
<1>7. /\ db'.invites = db.invites \union {row} /\ db'.password = db.password
      /\ db'.generation = db.generation /\ db'.epoch = db.epoch /\ db'.codes = db.codes
      /\ db'.sessions = db.sessions /\ db'.tokens = db.tokens /\ db'.totp = db.totp
  BY <1>3, <1>5 DEF Tables
<1>8. UNCHANGED <<now, copy, requests, spent, ended, stepped>>
  BY DEF Invite, Quiet
<1>9. Typed'
  BY <1>2, <1>6, <1>8, TypedStays
<1>10. Owned(db)'
  <2>1. PICK d : d = db
    OBVIOUS
  <2>2. Owned(d)' /\ Owned(d)
    BY <1>2, <2>1, OwnedStays DEF IInv
  <2>3. \A i \in db.invites : i.code # f
    BY <1>1, <2>1, <2>2 DEF Owned, New, Kinds
  <2>4. row.code = f /\ row.user = u
    OBVIOUS
  <2> HIDE DEF row
  <2> QED BY <1>1, <1>7, <2>1, <2>2, <2>3, <2>4 DEF Owned, OwnedBadges, New
<1>11. Unspent'
  BY <1>1, <1>2, <1>7, <1>8, SpentStays DEF IInv, Unspent, New, Once
<1>12. Dead'
  BY <1>1, <1>7, <1>8 DEF IInv, Dead, Alive, New
<1>13. Proven'
  BY <1>7, <1>8 DEF IInv, Proven
<1>14. (\A d \in copy : Owned(d))' /\ (\A r \in requests : Asked(r))'
  BY <1>2, <1>8, AroundStays DEF IInv
<1> QED BY <1>9, <1>10, <1>11, <1>12, <1>13, <1>14 DEF IInv

LEMMA RedeemKeeps ==
  ASSUME IInv, NEW i \in db.invites, Redeem(i) PROVE IInv'
<1>1. db \in Tables /\ i \in InviteRow
  BY DEF IInv, Typed, Tables
<1>2. PICK f : f = Fresh("password") /\ New(i.user, "password", f)
  BY <1>1, NewIs DEF Redeem, Kinds, InviteRow
<1>3. made' \in [Kinds -> Seq(Users)] /\ Grows
  BY <1>1, NewIs DEF Redeem, Kinds, InviteRow
<1> DEFINE row == [i EXCEPT !.redeemed = TRUE]
<1>4. row \in InviteRow /\ row.code = i.code /\ row.user = i.user /\ row.redeemed
  BY <1>1 DEF InviteRow
<1> HIDE DEF row
<1>5. db' = [db EXCEPT !.password[i.user] = f, !.invites = (@ \ {i}) \union {row}]
  BY <1>2 DEF Redeem, row
<1>6. db' \in Tables
  BY <1>1, <1>2, <1>4, <1>5 DEF Tables, InviteRow, New
<1>7. /\ db'.invites = (db.invites \ {i}) \union {row}
      /\ db'.password = [db.password EXCEPT ![i.user] = f]
      /\ db'.generation = db.generation /\ db'.epoch = db.epoch /\ db'.codes = db.codes
      /\ db'.sessions = db.sessions /\ db'.tokens = db.tokens /\ db'.totp = db.totp
  BY <1>1, <1>5 DEF Tables
<1>8. UNCHANGED <<now, copy, requests, ended, stepped>> /\ spent' = spent \union {Once(i.code)}
  BY DEF Redeem, Spend
<1>9. Typed'
  BY <1>3, <1>6, <1>8, TypedStays
<1>10. db.password \in [Users -> Random] /\ i.user \in Users
  BY <1>1 DEF Tables, InviteRow
<1>11. PICK d : d = db
  OBVIOUS
<1>12. Owned(d)' /\ Owned(d)
  BY <1>3, <1>11, OwnedStays DEF IInv
<1>13. Owned(db)'
  BY <1>2, <1>4, <1>7, <1>10, <1>11, <1>12 DEF Owned, OwnedBadges, New
<1>14. Owns(i.user, "invite", i.code) /\ Owns(i.user, "invite", i.code)'
  BY <1>11, <1>12 DEF Owned
<1>15. Names
  BY NamesAre DEF IInv, Typed
<1>16. Unspent'
  <2>1. ASSUME NEW x \in spent' PROVE SpentOf(x)'
    <3>1. CASE x = Once(i.code)
      BY <1>10, <1>14, <3>1 DEF SpentOf, Once, Held
    <3> QED BY <1>3, <1>8, <3>1, SpentStays
  <2>2. ASSUME NEW j \in db'.invites, Once(j.code) \in spent' PROVE j.redeemed
    <3>1. Once(j.code) \in spent \/ j.code = i.code
      BY <1>8, <2>2 DEF Once
    <3> QED BY <1>4, <1>7, <1>11, <1>12, <3>1 DEF IInv, Unspent, Owned
  <2>3. ASSUME NEW c \in db'.codes PROVE Once(c.code) \notin spent'
    <3>1. c.code # i.code
      BY <1>7, <1>11, <1>12, <1>14, <1>15 DEF Owned, Names
    <3> QED BY <1>7, <1>8, <3>1 DEF IInv, Unspent, Once
  <2>4. ASSUME NEW x \in spent', NEW u \in Users, x.secret = db'.totp[u].seed
        PROVE x.counter <= db'.totp[u].last \/ x.counter < now' - 1
    <3>1. db.totp[u].seed # i.code
      BY <1>11, <1>12, <1>14, <1>15 DEF Owned, Names
    <3> QED BY <1>7, <1>8, <2>4, <3>1 DEF IInv, Unspent, Once
  <2> QED BY <2>1, <2>2, <2>3, <2>4 DEF Unspent
<1>17. Dead'
  BY <1>2, <1>4, <1>7, <1>8, <1>10 DEF IInv, Dead, Alive, New
<1>18. Proven'
  BY <1>7, <1>8 DEF IInv, Proven
<1>19. (\A e \in copy : Owned(e))' /\ (\A r \in requests : Asked(r))'
  BY <1>3, <1>8, AroundStays DEF IInv
<1> QED BY <1>9, <1>13, <1>16, <1>17, <1>18, <1>19 DEF IInv

LEMMA SignInKeeps ==
  ASSUME IInv, NEW r \in requests, SignIn(r) PROVE IInv'
<1>1. db \in Tables /\ r.user \in Users
  BY DEF IInv, Typed, Asked, Request
<1>2. PICK f : f = Fresh("session") /\ New(r.user, "session", f)
  BY <1>1, NewIs DEF SignIn, Kinds
<1>3. made' \in [Kinds -> Seq(Users)] /\ Grows
  BY <1>1, NewIs DEF SignIn, Kinds
<1> DEFINE row == [id |-> f, user |-> r.user, generation |-> db.generation[r.user],
                   epoch |-> db.epoch, revoked |-> FALSE]
<1>4. /\ row \in Badge /\ row.id = f /\ row.user = r.user /\ row.epoch = db.epoch
      /\ row.generation = db.generation[r.user]
  BY <1>1, <1>2 DEF Badge, Tables, New
<1>5. db' = [db EXCEPT !.sessions = @ \union {row}]
  BY <1>2 DEF SignIn
<1> HIDE DEF row
<1>6. db' \in Tables
  BY <1>1, <1>4, <1>5 DEF Tables
<1>7. /\ db'.sessions = db.sessions \union {row} /\ db'.tokens = db.tokens
      /\ db'.password = db.password /\ db'.generation = db.generation
      /\ db'.epoch = db.epoch /\ db'.codes = db.codes
      /\ db'.invites = db.invites /\ db'.totp = db.totp
  BY <1>1, <1>5 DEF Tables
<1>8. UNCHANGED <<now, copy, spent, ended, stepped>> /\ requests' \subseteq requests
  BY DEF SignIn, Done
<1>9. Typed'
  BY <1>3, <1>6, <1>8, TypedStays
<1>10. PICK d : d = db
  OBVIOUS
<1>11. Owned(d)' /\ Owned(d)
  BY <1>3, <1>10, OwnedStays DEF IInv
<1>12. \A b \in db.sessions : b.id # f
  BY <1>2, <1>10, <1>11 DEF Owned, OwnedBadges, New, Kinds
<1>13. Owned(db)'
  <2>1. OwnedBadges(db, "session", db.sessions)'
    BY <1>1, <1>2, <1>4, <1>7, <1>10, <1>11, <1>12 DEF Owned, OwnedBadges, New, Tables
  <2>2. OwnedBadges(db, "token", db.tokens)'
    BY <1>7, <1>10, <1>11 DEF Owned, OwnedBadges
  <2> QED BY <1>7, <1>10, <1>11, <2>1, <2>2 DEF Owned
<1>14. Unspent'
  BY <1>3, <1>7, <1>8, SpentStays DEF IInv, Unspent
<1>15. Dead'
  BY <1>2, <1>4, <1>7, <1>8 DEF IInv, Dead, Alive, New
<1>16. Proven'
  BY <1>7, <1>8 DEF IInv, Proven
<1>17. (\A e \in copy : Owned(e))' /\ (\A q \in requests : Asked(q))'
  BY <1>3, <1>8, AroundStays DEF IInv
<1> QED BY <1>9, <1>13, <1>14, <1>15, <1>16, <1>17 DEF IInv

LEMMA IssueTokenKeeps ==
  ASSUME IInv, NEW r \in requests, IssueToken(r) PROVE IInv'
<1>1. db \in Tables /\ r.user \in Users
  BY DEF IInv, Typed, Asked, Request
<1>2. PICK f : f = Fresh("token") /\ New(r.user, "token", f)
  BY <1>1, NewIs DEF IssueToken, Kinds
<1>3. made' \in [Kinds -> Seq(Users)] /\ Grows
  BY <1>1, NewIs DEF IssueToken, Kinds
<1> DEFINE row == [id |-> f, user |-> r.user, generation |-> db.generation[r.user],
                   epoch |-> db.epoch, revoked |-> FALSE]
<1>4. /\ row \in Badge /\ row.id = f /\ row.user = r.user /\ row.epoch = db.epoch
      /\ row.generation = db.generation[r.user]
  BY <1>1, <1>2 DEF Badge, Tables, New
<1>5. db' = [db EXCEPT !.tokens = @ \union {row}]
  BY <1>2 DEF IssueToken
<1> HIDE DEF row
<1>6. db' \in Tables
  BY <1>1, <1>4, <1>5 DEF Tables
<1>7. /\ db'.tokens = db.tokens \union {row} /\ db'.sessions = db.sessions
      /\ db'.password = db.password /\ db'.generation = db.generation
      /\ db'.epoch = db.epoch /\ db'.codes = db.codes
      /\ db'.invites = db.invites /\ db'.totp = db.totp
  BY <1>1, <1>5 DEF Tables
<1>8. UNCHANGED <<now, copy, spent, ended, stepped>> /\ requests' \subseteq requests
  BY DEF IssueToken, Done
<1>9. Typed'
  BY <1>3, <1>6, <1>8, TypedStays
<1>10. PICK d : d = db
  OBVIOUS
<1>11. Owned(d)' /\ Owned(d)
  BY <1>3, <1>10, OwnedStays DEF IInv
<1>12. \A b \in db.tokens : b.id # f
  BY <1>2, <1>10, <1>11 DEF Owned, OwnedBadges, New, Kinds
<1>13. Owned(db)'
  <2>1. OwnedBadges(db, "token", db.tokens)'
    BY <1>1, <1>2, <1>4, <1>7, <1>10, <1>11, <1>12 DEF Owned, OwnedBadges, New, Tables
  <2>2. OwnedBadges(db, "session", db.sessions)'
    BY <1>7, <1>10, <1>11 DEF Owned, OwnedBadges
  <2> QED BY <1>7, <1>10, <1>11, <2>1, <2>2 DEF Owned
<1>14. Unspent'
  BY <1>3, <1>7, <1>8, SpentStays DEF IInv, Unspent
<1>15. Dead'
  BY <1>2, <1>4, <1>7, <1>8 DEF IInv, Dead, Alive, New
<1>16. Proven'
  BY <1>7, <1>8 DEF IInv, Proven
<1>17. (\A e \in copy : Owned(e))' /\ (\A q \in requests : Asked(q))'
  BY <1>3, <1>8, AroundStays DEF IInv
<1> QED BY <1>9, <1>13, <1>14, <1>15, <1>16, <1>17 DEF IInv

LEMMA SetUpKeeps ==
  ASSUME IInv, NEW r \in requests, SetUp(r) PROVE IInv'
<1>1. db \in Tables /\ r.user \in Users /\ now \in Nat
  BY DEF IInv, Typed, Asked, Request
<1>2. PICK f : f = Fresh("seed") /\ New(r.user, "seed", f)
  BY <1>1, NewIs DEF SetUp, Kinds
<1>3. made' \in [Kinds -> Seq(Users)] /\ Grows
  BY <1>1, NewIs DEF SetUp, Kinds
<1> DEFINE row == [db.totp[r.user] EXCEPT !.seed = f, !.until = now + SetupLife]
<1>4. /\ row \in Factor /\ row.seed = f /\ row.confirmed = FALSE /\ row.last = db.totp[r.user].last
      /\ row.proof = db.totp[r.user].proof /\ row.at = db.totp[r.user].at
      /\ ~db.totp[r.user].confirmed
  <2>1. db.totp[r.user] \in Factor /\ SetupLife \in Nat
    BY <1>1, AccountsAssumption DEF Tables
  <2>2. db.totp[r.user].confirmed = FALSE
    BY <2>1 DEF SetUp, SetupAllowed, Factor
  <2>3. now + SetupLife \in Nat
    BY <1>1, <2>1
  <2>4. row \in Factor
    BY <1>2, <2>1, <2>3 DEF Factor, New
  <2>5. /\ row.seed = f /\ row.confirmed = db.totp[r.user].confirmed
        /\ row.last = db.totp[r.user].last /\ row.proof = db.totp[r.user].proof
        /\ row.at = db.totp[r.user].at
    BY <2>1 DEF Factor
  <2> QED BY <2>2, <2>4, <2>5
<1>5. db' = [db EXCEPT !.totp[r.user] = row]
  BY <1>1, <1>2 DEF SetUp, Tables, Factor
<1> HIDE DEF row
<1>6. db' \in Tables
  BY <1>1, <1>4, <1>5 DEF Tables
<1>7. /\ db'.totp = [db.totp EXCEPT ![r.user] = row] /\ db'.password = db.password
      /\ db'.generation = db.generation /\ db'.epoch = db.epoch /\ db'.codes = db.codes
      /\ db'.invites = db.invites /\ db'.sessions = db.sessions /\ db'.tokens = db.tokens
  BY <1>1, <1>5 DEF Tables
<1>8. UNCHANGED <<now, copy, spent, ended, stepped>> /\ requests' \subseteq requests
  BY DEF SetUp, Done
<1>9. Typed'
  BY <1>3, <1>6, <1>8, TypedStays
<1>10. PICK d : d = db
  OBVIOUS
<1>11. Owned(d)' /\ Owned(d)
  BY <1>3, <1>10, OwnedStays DEF IInv
<1>12. db.totp \in [Users -> Factor]
  BY <1>1 DEF Tables
<1>13. Owned(db)'
  <2>1. OwnedBadges(db, "session", db.sessions)' /\ OwnedBadges(db, "token", db.tokens)'
    BY <1>7, <1>10, <1>11 DEF Owned, OwnedBadges
  <2> QED BY <1>2, <1>4, <1>7, <1>10, <1>11, <1>12, <2>1 DEF Owned, New
<1>14. Unspent'
  BY <1>2, <1>3, <1>4, <1>7, <1>8, <1>12, SpentStays DEF IInv, Unspent, New
<1>15. Dead'
  BY <1>4, <1>7, <1>8, <1>12 DEF IInv, Dead, Alive
<1>16. Proven'
  BY <1>4, <1>7, <1>8, <1>12 DEF IInv, Proven
<1>17. (\A e \in copy : Owned(e))' /\ (\A q \in requests : Asked(q))'
  BY <1>3, <1>8, AroundStays DEF IInv
<1> QED BY <1>9, <1>13, <1>14, <1>15, <1>16, <1>17 DEF IInv

LEMMA Above ==
  ASSUME NEW x \in Int, NEW last \in Int, NEW counter \in Int, NEW time \in Int,
         x <= last \/ x < time - 1, last < counter, counter >= time - 1
  PROVE  x < counter
OBVIOUS

(* A counter that is accepted is above all accepted before it.             *)
LEMMA CounterIsNew ==
  ASSUME IInv, NEW r \in requests, Owns(r.user, "seed", r.seed), CounterNew(r)
  PROVE  /\ r.user \in Users /\ db.totp[r.user] \in Factor /\ db.totp[r.user].seed = r.seed
         /\ r.counter \in Int /\ r.counter <= now + 1 /\ db.totp[r.user].last < r.counter
         /\ Owns(r.user, "seed", r.seed)
         /\ \A x \in spent : x.secret = r.seed => x.counter < r.counter
<1>1. db \in Tables /\ r \in Request /\ now \in Nat
  BY DEF IInv, Typed, Asked
<1>2. /\ r.user \in Users /\ db.totp[r.user] \in Factor /\ db.totp[r.user].seed = r.seed
      /\ r.counter \in Int /\ Owns(r.user, "seed", r.seed) /\ db.totp[r.user].last \in Int
  BY <1>1 DEF IInv, Asked, Request, Tables, CounterNew, Factor
<1>3. r.counter <= now + 1 /\ r.counter >= now - 1 /\ db.totp[r.user].last < r.counter
  <2>1. r.counter \in {now - 1, now, now + 1} /\ db.totp[r.user].last < r.counter
    BY DEF CounterNew, InWindow
  <2>2. now \in Nat
    BY <1>1
  <2> QED BY <2>1, <2>2
<1>4. ASSUME NEW x \in spent, x.secret = r.seed PROVE x.counter < r.counter
  <2>1. x.counter <= db.totp[r.user].last \/ x.counter < now - 1
    BY <1>2, <1>4 DEF IInv, Unspent
  <2>2. x.counter \in Int
    BY DEF IInv, Unspent, SpentOf
  <2>3. now \in Int /\ db.totp[r.user].last \in Int /\ r.counter \in Int
    BY <1>1, <1>2
  <2> QED BY <1>3, <2>1, <2>2, <2>3, Above
<1> QED BY <1>2, <1>3, <1>4

(* So what is spent stays remembered once the counter is put down.         *)
LEMMA CounterSpent ==
  ASSUME IInv, NEW r \in requests, Owns(r.user, "seed", r.seed), CounterNew(r), Grows,
         made' \in [Kinds -> Seq(Users)], UNCHANGED now,
         db'.codes = db.codes, db'.invites = db.invites, NEW row, row.last = r.counter, row.seed = r.seed,
         db'.totp = [db.totp EXCEPT ![r.user] = row],
         spent' = spent \union {[secret |-> r.seed, counter |-> r.counter]}
  PROVE  Unspent'
<1> DEFINE y == [secret |-> r.seed, counter |-> r.counter]
<1>1. /\ r.user \in Users /\ db.totp[r.user] \in Factor /\ db.totp[r.user].seed = r.seed
      /\ r.counter \in Int /\ r.counter <= now + 1 /\ db.totp[r.user].last < r.counter
      /\ Owns(r.user, "seed", r.seed) /\ \A x \in spent : x.secret = r.seed => x.counter < r.counter
  BY CounterIsNew
<1>2. Names /\ db.totp \in [Users -> Factor]
  BY NamesAre DEF IInv, Typed, Tables
<1>3. Owned(db)
  BY DEF IInv
<1>4. ASSUME NEW x \in spent' PROVE SpentOf(x)'
  <2>1. CASE x = y
    <3>1. Owns(r.user, "seed", r.seed)'
      BY <1>1 DEF Grows, Kinds
    <3> QED BY <1>1, <2>1, <3>1 DEF SpentOf, Held
  <2> QED BY <2>1, SpentStays
<1>5. ASSUME NEW i \in db.invites PROVE Once(i.code) # y
  <2>1. Owns(i.user, "invite", i.code) /\ Owns(r.user, "seed", r.seed)
    BY <1>1, <1>3 DEF Owned
  <2>2. i.code # r.seed
    BY <1>2, <2>1 DEF Names
  <2> QED BY <2>2 DEF Once
<1>6. ASSUME NEW c \in db.codes PROVE Once(c.code) # y
  <2>1. Owns(c.user, "code", c.code) /\ Owns(r.user, "seed", r.seed)
    BY <1>1, <1>3 DEF Owned
  <2>2. c.code # r.seed
    BY <1>2, <2>1 DEF Names
  <2> QED BY <2>2 DEF Once
<1>7. ASSUME NEW x \in spent', NEW u \in Users, x.secret = db'.totp[u].seed
      PROVE x.counter <= db'.totp[u].last \/ x.counter < now' - 1
  <2>1. CASE u = r.user
    <3>1. x.counter \in Int
      <4>1. SpentOf(x)'
        BY <1>4, <1>7
      <4> QED BY <4>1 DEF SpentOf
    <3>2. x.secret = r.seed /\ db'.totp[u].last = r.counter
      BY <1>2, <1>7, <2>1
    <3>3. x.counter <= r.counter
      <4>1. CASE x = y
        BY <1>1, <4>1
      <4>2. CASE x \in spent
        <5>1. x.counter < r.counter /\ r.counter \in Int
          BY <1>1, <3>2, <4>2
        <5> QED BY <3>1, <5>1
      <4> QED BY <1>7, <4>1, <4>2
    <3> QED BY <3>2, <3>3
  <2>2. CASE u # r.user
    <3>1. db'.totp[u] = db.totp[u]
      BY <1>2, <2>2
    <3>2. r.seed # db.totp[u].seed
      <4>1. db.totp[u].seed = None \/ Owns(u, "seed", db.totp[u].seed)
        BY <1>3 DEF Owned
      <4>2. Owns(r.user, "seed", r.seed)
        BY <1>1
      <4> QED BY <1>2, <2>2, <4>1, <4>2 DEF Names
    <3>3. x \in spent
      <4>1. x # y
        BY <1>7, <3>1, <3>2
      <4> QED BY <1>7, <4>1
    <3> QED BY <1>7, <3>1, <3>3 DEF IInv, Unspent
  <2> QED BY <2>1, <2>2
<1> QED BY <1>4, <1>5, <1>6, <1>7 DEF IInv, Unspent

LEMMA SignOutKeeps ==
  ASSUME IInv, NEW s \in db.sessions, NEW all \in BOOLEAN, SignOut(s, all) PROVE IInv'
<1> DEFINE out == IF all THEN {o \in db.sessions : o.user = s.user} ELSE {s}
<1>1. db \in Tables /\ db.sessions \subseteq Badge
  BY DEF IInv, Typed, Tables
<1> DEFINE Out(o) == [o EXCEPT !.revoked = TRUE]
<1>2. \A o \in Badge : /\ Out(o) \in Badge /\ Out(o).id = o.id /\ Out(o).user = o.user
                        /\ Out(o).generation = o.generation /\ Out(o).epoch = o.epoch
                        /\ Out(o).revoked
  BY DEF Badge
<1>3. /\ out \subseteq db.sessions
      /\ db' = [db EXCEPT !.sessions = (@ \ out) \union {Out(o) : o \in out}]
      /\ ended' = ended \union {o.id : o \in out}
      /\ UNCHANGED <<now, copy, requests, change, made, spent, stepped>>
  BY DEF SignOut, End
<1> HIDE DEF out, Out
<1>4. db' \in Tables
  BY <1>1, <1>2, <1>3 DEF Tables
<1>5. /\ db'.sessions = (db.sessions \ out) \union {Out(o) : o \in out}
      /\ db'.tokens = db.tokens /\ db'.password = db.password
      /\ db'.generation = db.generation /\ db'.epoch = db.epoch /\ db'.codes = db.codes
      /\ db'.invites = db.invites /\ db'.totp = db.totp
  BY <1>1, <1>3 DEF Tables
<1>6. Grows /\ made' \in [Kinds -> Seq(Users)]
  BY <1>3, NothingDrawn DEF IInv, Typed
<1>7. PICK d : d = db
  OBVIOUS
<1>8. Owned(d)' /\ Owned(d)
  BY <1>6, <1>7, OwnedStays DEF IInv
<1>9. ASSUME NEW o \in out
      PROVE  o.user \in Users /\ Owns(o.user, "session", o.id) /\ Owns(o.user, "session", o.id)'
  BY <1>1, <1>3, <1>7, <1>8 DEF Owned, OwnedBadges, Badge
<1>10. Typed'
  <2>1. ASSUME NEW e \in ended' PROVE Held(Endable, e)'
    <3>1. CASE e \in ended
      <4>1. Held(Endable, e) /\ Endable \in SUBSET Kinds
        BY <3>1 DEF IInv, Typed, Endable
      <4> QED BY <1>6, <4>1, HeldStays
    <3>2. CASE \E o \in out : e = o.id
      BY <1>9, <3>2 DEF Held, Endable, Kinds
    <3> QED BY <1>3, <3>1, <3>2
  <2> QED BY <1>3, <1>4, <1>6, <2>1, TypedStays
<1>11. \A b \in db'.sessions : \E o \in db.sessions :
         /\ b.id = o.id /\ b.user = o.user /\ b.generation = o.generation /\ b.epoch = o.epoch
         /\ IF o \in out THEN b = Out(o) /\ b.revoked ELSE b = o
  <2>1. \A o \in out : o \in Badge
    BY <1>1, <1>3
  <2> QED BY <1>2, <1>3, <1>5, <2>1
<1>12. Owned(db)'
  <2>1. OwnedBadges(db, "session", db.sessions)'
    BY <1>5, <1>7, <1>8, <1>11 DEF Owned, OwnedBadges
  <2>2. OwnedBadges(db, "token", db.tokens)'
    BY <1>5, <1>7, <1>8 DEF Owned, OwnedBadges
  <2> QED BY <1>5, <1>7, <1>8, <2>1, <2>2 DEF Owned
<1>13. Unspent'
  BY <1>3, <1>5, <1>6, SpentStays DEF IInv, Unspent
<1>14. Names
  BY NamesAre DEF IInv, Typed
<1>15. Dead'
  <2>1. \A u \in Users : db.password[u] \notin {o.id : o \in out}
    BY <1>7, <1>8, <1>9, <1>14 DEF Owned, Names
  <2>2. \A u \in Users : db.totp[u].proof \notin {o.id : o \in out}
    BY <1>7, <1>8, <1>9, <1>14 DEF Owned, Names
  <2>3. \A i \in db.invites : i.code \notin {o.id : o \in out}
    BY <1>7, <1>8, <1>9, <1>14 DEF Owned, Names
  <2>4. \A c \in db.codes : c.code \notin {o.id : o \in out}
    BY <1>7, <1>8, <1>9, <1>14 DEF Owned, Names
  <2>5. \A b \in db.tokens : b.id \notin {o.id : o \in out}
    BY <1>7, <1>8, <1>9, <1>14 DEF Owned, OwnedBadges, Names
  <2>6. ASSUME NEW b \in db'.sessions, b.id \in ended' PROVE ~Alive(b)'
    <3>1. PICK o \in db.sessions : /\ b.id = o.id /\ IF o \in out THEN b.revoked ELSE b = o
      BY <1>11
    <3>2. CASE o \notin out
      <4>1. o.id \in ended
        <5>1. ASSUME NEW q \in out PROVE q.id # o.id
          BY <1>3, <1>7, <1>8, <3>2 DEF Owned, OwnedBadges
        <5> QED BY <1>3, <2>6, <3>1, <5>1
      <4> QED BY <1>5, <3>1, <3>2, <4>1 DEF IInv, Dead, Alive
    <3> QED BY <3>1, <3>2 DEF Alive
  <2>7. ASSUME NEW b \in db.tokens, b.id \in ended' PROVE ~Alive(b)'
    BY <1>3, <1>5, <2>5, <2>7 DEF IInv, Dead, Alive
  <2> QED BY <1>3, <1>5, <2>1, <2>2, <2>3, <2>4, <2>6, <2>7 DEF IInv, Dead
<1>16. Proven'
  BY <1>3, <1>5 DEF IInv, Proven
<1>17. (\A e \in copy : Owned(e))' /\ (\A q \in requests : Asked(q))'
  BY <1>3, <1>6, AroundStays DEF IInv
<1> QED BY <1>10, <1>12, <1>13, <1>15, <1>16, <1>17 DEF IInv

LEMMA RevokeTokenKeeps ==
  ASSUME IInv, NEW s \in db.sessions, NEW t \in db.tokens, RevokeToken(s, t) PROVE IInv'
<1> DEFINE out == {t}
<1>1. db \in Tables /\ db.tokens \subseteq Badge
  BY DEF IInv, Typed, Tables
<1> DEFINE Out(o) == [o EXCEPT !.revoked = TRUE]
<1>2. \A o \in Badge : /\ Out(o) \in Badge /\ Out(o).id = o.id /\ Out(o).user = o.user
                        /\ Out(o).generation = o.generation /\ Out(o).epoch = o.epoch
                        /\ Out(o).revoked
  BY DEF Badge
<1>3. /\ out \subseteq db.tokens
      /\ db' = [db EXCEPT !.tokens = (@ \ out) \union {Out(o) : o \in out}]
      /\ ended' = ended \union {o.id : o \in out}
      /\ UNCHANGED <<now, copy, requests, change, made, spent, stepped>>
  BY DEF RevokeToken, End
<1> HIDE DEF out, Out
<1>4. db' \in Tables
  BY <1>1, <1>2, <1>3 DEF Tables
<1>5. /\ db'.tokens = (db.tokens \ out) \union {Out(o) : o \in out}
      /\ db'.sessions = db.sessions /\ db'.password = db.password
      /\ db'.generation = db.generation /\ db'.epoch = db.epoch /\ db'.codes = db.codes
      /\ db'.invites = db.invites /\ db'.totp = db.totp
  BY <1>1, <1>3 DEF Tables
<1>6. Grows /\ made' \in [Kinds -> Seq(Users)]
  BY <1>3, NothingDrawn DEF IInv, Typed
<1>7. PICK d : d = db
  OBVIOUS
<1>8. Owned(d)' /\ Owned(d)
  BY <1>6, <1>7, OwnedStays DEF IInv
<1>9. ASSUME NEW o \in out
      PROVE  o.user \in Users /\ Owns(o.user, "token", o.id) /\ Owns(o.user, "token", o.id)'
  BY <1>1, <1>3, <1>7, <1>8 DEF Owned, OwnedBadges, Badge
<1>10. Typed'
  <2>1. ASSUME NEW e \in ended' PROVE Held(Endable, e)'
    <3>1. CASE e \in ended
      <4>1. Held(Endable, e) /\ Endable \in SUBSET Kinds
        BY <3>1 DEF IInv, Typed, Endable
      <4> QED BY <1>6, <4>1, HeldStays
    <3>2. CASE \E o \in out : e = o.id
      BY <1>9, <3>2 DEF Held, Endable, Kinds
    <3> QED BY <1>3, <3>1, <3>2
  <2> QED BY <1>3, <1>4, <1>6, <2>1, TypedStays
<1>11. \A b \in db'.tokens : \E o \in db.tokens :
         /\ b.id = o.id /\ b.user = o.user /\ b.generation = o.generation /\ b.epoch = o.epoch
         /\ IF o \in out THEN b = Out(o) /\ b.revoked ELSE b = o
  <2>1. \A o \in out : o \in Badge
    BY <1>1, <1>3
  <2> QED BY <1>2, <1>3, <1>5, <2>1
<1>12. Owned(db)'
  <2>1. OwnedBadges(db, "token", db.tokens)'
    BY <1>5, <1>7, <1>8, <1>11 DEF Owned, OwnedBadges
  <2>2. OwnedBadges(db, "session", db.sessions)'
    BY <1>5, <1>7, <1>8 DEF Owned, OwnedBadges
  <2> QED BY <1>5, <1>7, <1>8, <2>1, <2>2 DEF Owned
<1>13. Unspent'
  BY <1>3, <1>5, <1>6, SpentStays DEF IInv, Unspent
<1>14. Names
  BY NamesAre DEF IInv, Typed
<1>15. Dead'
  <2>1. \A u \in Users : db.password[u] \notin {o.id : o \in out}
    BY <1>7, <1>8, <1>9, <1>14 DEF Owned, Names
  <2>2. \A u \in Users : db.totp[u].proof \notin {o.id : o \in out}
    BY <1>7, <1>8, <1>9, <1>14 DEF Owned, Names
  <2>3. \A i \in db.invites : i.code \notin {o.id : o \in out}
    BY <1>7, <1>8, <1>9, <1>14 DEF Owned, Names
  <2>4. \A c \in db.codes : c.code \notin {o.id : o \in out}
    BY <1>7, <1>8, <1>9, <1>14 DEF Owned, Names
  <2>5. \A b \in db.sessions : b.id \notin {o.id : o \in out}
    BY <1>7, <1>8, <1>9, <1>14 DEF Owned, OwnedBadges, Names
  <2>6. ASSUME NEW b \in db'.tokens, b.id \in ended' PROVE ~Alive(b)'
    <3>1. PICK o \in db.tokens : /\ b.id = o.id /\ IF o \in out THEN b.revoked ELSE b = o
      BY <1>11
    <3>2. CASE o \notin out
      <4>1. o.id \in ended
        <5>1. ASSUME NEW q \in out PROVE q.id # o.id
          BY <1>3, <1>7, <1>8, <3>2 DEF Owned, OwnedBadges
        <5> QED BY <1>3, <2>6, <3>1, <5>1
      <4> QED BY <1>5, <3>1, <3>2, <4>1 DEF IInv, Dead, Alive
    <3> QED BY <3>1, <3>2 DEF Alive
  <2>7. ASSUME NEW b \in db.sessions, b.id \in ended' PROVE ~Alive(b)'
    BY <1>3, <1>5, <2>5, <2>7 DEF IInv, Dead, Alive
  <2> QED BY <1>3, <1>5, <2>1, <2>2, <2>3, <2>4, <2>6, <2>7 DEF IInv, Dead
<1>16. Proven'
  BY <1>3, <1>5 DEF IInv, Proven
<1>17. (\A e \in copy : Owned(e))' /\ (\A q \in requests : Asked(q))'
  BY <1>3, <1>6, AroundStays DEF IInv
<1> QED BY <1>10, <1>12, <1>13, <1>15, <1>16, <1>17 DEF IInv

LEMMA ConfirmKeeps ==
  ASSUME IInv, NEW r \in requests, Confirm(r) PROVE IInv'
<1>1. db \in Tables /\ now \in Nat
  BY DEF IInv, Typed
<1>2. Owns(r.user, "seed", r.seed) /\ CounterNew(r)
  BY DEF IInv, Asked, Confirm
<1>3. /\ r.user \in Users /\ db.totp[r.user] \in Factor /\ db.totp[r.user].seed = r.seed
      /\ r.counter \in Int /\ db.totp[r.user].confirmed = FALSE
  BY <1>2, CounterIsNew DEF Confirm, Factor
<1> DEFINE row == [db.totp[r.user] EXCEPT !.confirmed = TRUE, !.last = r.counter, !.proof = None, !.at = now]
<1>4. row \in Factor
  BY <1>1, <1>3 DEF Factor, Random
<1>5. row.seed = r.seed /\ row.last = r.counter /\ row.proof = None
  BY <1>3 DEF Factor
<1>6. /\ db' = [db EXCEPT !.totp[r.user] = row]
      /\ UNCHANGED <<now, copy, made, ended, stepped>> /\ requests' \subseteq requests
      /\ spent' = spent \union {[secret |-> r.seed, counter |-> r.counter]}
  BY <1>1, <1>3 DEF Confirm, Done, Spend, Tables, Factor
<1> HIDE DEF row
<1>7. db' \in Tables
  BY <1>1, <1>4, <1>6 DEF Tables
<1>8. /\ db'.totp = [db.totp EXCEPT ![r.user] = row] /\ db'.password = db.password
      /\ db'.generation = db.generation /\ db'.epoch = db.epoch /\ db'.codes = db.codes
      /\ db'.invites = db.invites /\ db'.sessions = db.sessions /\ db'.tokens = db.tokens
  BY <1>1, <1>6 DEF Tables
<1>9. made' \in [Kinds -> Seq(Users)] /\ Grows
  BY <1>6, NothingDrawn DEF IInv, Typed
<1>10. Typed'
  BY <1>6, <1>7, <1>9, TypedStays
<1>11. PICK d : d = db
  OBVIOUS
<1>12. Owned(d)' /\ Owned(d)
  BY <1>9, <1>11, OwnedStays DEF IInv
<1>13. db.totp \in [Users -> Factor]
  BY <1>1 DEF Tables
<1>14. Owned(db)'
  <2>1. OwnedBadges(db, "session", db.sessions)' /\ OwnedBadges(db, "token", db.tokens)'
    BY <1>8, <1>11, <1>12 DEF Owned, OwnedBadges
  <2>2. Owns(r.user, "seed", r.seed)'
    BY <1>2, <1>9 DEF Grows, Kinds
  <2> QED BY <1>5, <1>8, <1>11, <1>12, <1>13, <2>1, <2>2 DEF Owned
<1>15. Unspent'
  BY <1>2, <1>5, <1>6, <1>8, <1>9, CounterSpent
<1>16. None \notin ended /\ \A p \in stepped : p.proof # None
  <2>1. Names
    BY NamesAre DEF IInv, Typed
  <2> QED BY <2>1 DEF IInv, Typed, Held, Names
<1>17. Dead'
  BY <1>5, <1>6, <1>8, <1>13, <1>16 DEF IInv, Dead, Alive
<1>18. Proven'
  BY <1>5, <1>6, <1>8, <1>13, <1>16 DEF IInv, Proven
<1>19. (\A e \in copy : Owned(e))' /\ (\A q \in requests : Asked(q))'
  BY <1>6, <1>9, AroundStays DEF IInv
<1> QED BY <1>10, <1>14, <1>15, <1>17, <1>18, <1>19 DEF IInv

(* The proof it draws replaces those the account had before.               *)
LEMMA StepUpKeeps ==
  ASSUME IInv, NEW r \in requests, StepUp(r) PROVE IInv'
<1>1. db \in Tables /\ now \in Nat
  BY DEF IInv, Typed
<1>2. Owns(r.user, "seed", r.seed) /\ CounterNew(r)
  BY DEF IInv, Asked, StepUp
<1>3. /\ r.user \in Users /\ db.totp[r.user] \in Factor /\ db.totp[r.user].seed = r.seed
      /\ r.counter \in Int /\ db.totp[r.user].confirmed = TRUE
  BY <1>2, CounterIsNew DEF StepUp, Factor
<1>4. PICK f : f = Fresh("proof") /\ New(r.user, "proof", f)
  BY <1>3, NewIs DEF StepUp, Kinds
<1>5. made' \in [Kinds -> Seq(Users)] /\ Grows
  BY <1>3, NewIs DEF StepUp, Kinds
<1> DEFINE row == [db.totp[r.user] EXCEPT !.last = r.counter, !.proof = f, !.at = now]
           p == [proof |-> f, seed |-> r.seed, at |-> now]
<1>6. row \in Factor
  BY <1>1, <1>3, <1>4 DEF Factor, New
<1>7. row.seed = r.seed /\ row.last = r.counter /\ row.proof = f /\ row.at = now /\ row.confirmed = TRUE
  BY <1>3 DEF Factor
<1>8. /\ db' = [db EXCEPT !.totp[r.user] = row]
      /\ UNCHANGED <<now, copy>> /\ requests' \subseteq requests
      /\ spent' = spent \union {[secret |-> r.seed, counter |-> r.counter]}
      /\ ended' = ended \union Of({"proof"}, r.user) /\ stepped' = stepped \union {p}
  BY <1>1, <1>3, <1>4 DEF StepUp, Done, Spend, End, Tables, Factor
<1>9. p.proof = f /\ p.seed = r.seed /\ p.at = now
  OBVIOUS
<1> HIDE DEF row, p
<1>10. db' \in Tables
  BY <1>1, <1>6, <1>8 DEF Tables
<1>11. /\ db'.totp = [db.totp EXCEPT ![r.user] = row] /\ db'.password = db.password
       /\ db'.generation = db.generation /\ db'.epoch = db.epoch /\ db'.codes = db.codes
       /\ db'.invites = db.invites /\ db'.sessions = db.sessions /\ db'.tokens = db.tokens
  BY <1>1, <1>8 DEF Tables
<1>12. Names
  BY NamesAre DEF IInv, Typed
<1>13. \A s : s \in Of({"proof"}, r.user) <=> Owns(r.user, "proof", s)
  BY <1>12 DEF Names, Kinds
<1>14. \A K \in SUBSET Kinds : \A s : Held(K, s) => Held(K, s)'
  BY <1>5, HeldStays
<1>15. Typed'
  <2>1. ASSUME NEW s \in ended' PROVE Held(Endable, s)'
    <3>1. Held(Endable, s)
      BY <1>3, <1>8, <1>13 DEF IInv, Typed, Held, Endable, Kinds
    <3> QED BY <1>14, <3>1 DEF Endable
  <2>2. ASSUME NEW q \in stepped' PROVE Held({"proof"}, q.proof)' /\ q.at \in Nat
    <3>1. CASE q = p
      BY <1>1, <1>3, <1>4, <1>9, <3>1 DEF Held, New
    <3>2. CASE q \in stepped
      BY <1>14, <3>2 DEF IInv, Typed, Kinds
    <3> QED BY <1>8, <3>1, <3>2
  <2> QED BY <1>5, <1>8, <1>10, <2>1, <2>2, TypedStays
<1>16. PICK d : d = db
  OBVIOUS
<1>17. Owned(d)' /\ Owned(d)
  BY <1>5, <1>16, OwnedStays DEF IInv
<1>18. db.totp \in [Users -> Factor]
  BY <1>1 DEF Tables
<1>19. Owned(db)'
  <2>1. OwnedBadges(db, "session", db.sessions)' /\ OwnedBadges(db, "token", db.tokens)'
    BY <1>11, <1>16, <1>17 DEF Owned, OwnedBadges
  <2>2. Owns(r.user, "seed", r.seed)'
    BY <1>2, <1>5 DEF Grows, Kinds
  <2> QED BY <1>4, <1>7, <1>11, <1>16, <1>17, <1>18, <2>1, <2>2 DEF Owned, New
<1>20. Unspent'
  BY <1>2, <1>5, <1>7, <1>8, <1>11, CounterSpent
<1>21. Dead'
  <2>1. \A u \in Users : db.password[u] \notin Of({"proof"}, r.user)
    BY <1>12, <1>13, <1>16, <1>17 DEF Owned, Names
  <2>2. \A u \in Users : db'.totp[u].proof \notin ended'
    <3>1. f \notin ended'
      BY <1>4, <1>8, <1>13 DEF New, Kinds
    <3>2. ASSUME NEW u \in Users, u # r.user PROVE db.totp[u].proof \notin Of({"proof"}, r.user)
      BY <1>12, <1>13, <1>16, <1>17, <3>2 DEF Owned, Names
    <3> QED BY <1>7, <1>8, <1>11, <1>18, <3>1, <3>2 DEF IInv, Dead
  <2>3. \A i \in db.invites : i.code \notin Of({"proof"}, r.user)
    BY <1>12, <1>13, <1>16, <1>17 DEF Owned, Names
  <2>4. \A c \in db.codes : c.code \notin Of({"proof"}, r.user)
    BY <1>12, <1>13, <1>16, <1>17 DEF Owned, Names
  <2>5. \A b \in db.sessions \union db.tokens : b.id \notin Of({"proof"}, r.user)
    BY <1>12, <1>13, <1>16, <1>17 DEF Owned, OwnedBadges, Names
  <2> QED BY <1>8, <1>11, <2>1, <2>2, <2>3, <2>4, <2>5 DEF IInv, Dead, Alive
<1>22. Proven'
  <2>1. ASSUME NEW u \in Users, NEW q \in stepped', q.proof = db'.totp[u].proof
        PROVE q.at = db'.totp[u].at /\ q.seed = db'.totp[u].seed /\ db'.totp[u].confirmed
    <3>1. CASE u = r.user
      <4>1. q.proof = f
        BY <1>7, <1>11, <1>18, <2>1, <3>1
      <4>2. q = p
        BY <1>4, <1>8, <4>1 DEF New
      <4> QED BY <1>7, <1>9, <1>11, <1>18, <3>1, <4>2
    <3>2. CASE u # r.user
      <4>1. db'.totp[u] = db.totp[u]
        BY <1>11, <1>18, <3>2
      <4>2. db.totp[u].proof # f
        <5>1. db.totp[u].proof = None \/ Owns(u, "proof", db.totp[u].proof)
          BY <1>16, <1>17 DEF Owned
        <5> QED BY <1>4, <5>1 DEF New, Kinds
      <4>3. q \in stepped
        BY <1>8, <1>9, <2>1, <4>1, <4>2
      <4> QED BY <2>1, <4>1, <4>3 DEF IInv, Proven
    <3> QED BY <3>1, <3>2
  <2> QED BY <2>1 DEF Proven
<1>23. (\A e \in copy : Owned(e))' /\ (\A q \in requests : Asked(q))'
  BY <1>5, <1>8, AroundStays DEF IInv
<1> QED BY <1>15, <1>19, <1>20, <1>21, <1>22, <1>23 DEF IInv

LEMMA PrintCodesKeeps ==
  ASSUME IInv, NEW r \in requests, NEW proof, PrintCodes(r, proof) PROVE IInv'
<1>1. db \in Tables /\ r.user \in Users
  BY DEF IInv, Typed, Asked, Request
<1>2. PICK f : f = Fresh("code") /\ New(r.user, "code", f)
  BY <1>1, NewIs DEF PrintCodes, Kinds
<1>3. made' \in [Kinds -> Seq(Users)] /\ Grows
  BY <1>1, NewIs DEF PrintCodes, Kinds
<1> DEFINE row == [code |-> f, user |-> r.user]
<1>4. row \in CodeRow /\ row.code = f /\ row.user = r.user
  BY <1>1, <1>2 DEF New, CodeRow
<1>5. /\ db' = [db EXCEPT !.codes = {c \in @ : c.user # r.user} \union {row}]
      /\ UNCHANGED <<now, copy, spent, stepped>> /\ requests' \subseteq requests
      /\ ended' = ended \union Of({"code"}, r.user)
  BY <1>2 DEF PrintCodes, Done, End
<1> HIDE DEF row
<1>6. db' \in Tables
  BY <1>1, <1>4, <1>5 DEF Tables
<1>7. /\ db'.codes = {c \in db.codes : c.user # r.user} \union {row}
      /\ db'.password = db.password /\ db'.generation = db.generation /\ db'.epoch = db.epoch
      /\ db'.invites = db.invites /\ db'.sessions = db.sessions /\ db'.tokens = db.tokens
      /\ db'.totp = db.totp
  BY <1>1, <1>5 DEF Tables
<1>8. Names
  BY NamesAre DEF IInv, Typed
<1>9. \A s : s \in Of({"code"}, r.user) <=> Owns(r.user, "code", s)
  BY <1>8 DEF Names, Kinds
<1>10. Typed'
  <2>1. ASSUME NEW s \in ended' PROVE Held(Endable, s)'
    <3>1. Held(Endable, s)
      BY <1>1, <1>5, <1>9 DEF IInv, Typed, Held, Endable, Kinds
    <3> QED BY <1>3, <3>1, HeldStays DEF Endable
  <2> QED BY <1>3, <1>5, <1>6, <2>1, TypedStays
<1>11. PICK d : d = db
  OBVIOUS
<1>12. Owned(d)' /\ Owned(d)
  BY <1>3, <1>11, OwnedStays DEF IInv
<1>13. Owned(db)'
  <2>1. OwnedBadges(db, "session", db.sessions)' /\ OwnedBadges(db, "token", db.tokens)'
    BY <1>7, <1>11, <1>12 DEF Owned, OwnedBadges
  <2> QED BY <1>2, <1>4, <1>7, <1>11, <1>12, <2>1 DEF Owned, New
<1>14. Unspent'
  <2>1. Once(f) \notin spent
    BY <1>2 DEF New, Once
  <2> QED BY <1>3, <1>4, <1>5, <1>7, <2>1, SpentStays DEF IInv, Unspent
<1>15. Dead'
  <2>1. \A u \in Users : db.password[u] \notin Of({"code"}, r.user)
    BY <1>8, <1>9, <1>11, <1>12 DEF Owned, Names
  <2>2. \A u \in Users : db.totp[u].proof \notin Of({"code"}, r.user)
    BY <1>8, <1>9, <1>11, <1>12 DEF Owned, Names
  <2>3. \A i \in db.invites : i.code \notin Of({"code"}, r.user)
    BY <1>8, <1>9, <1>11, <1>12 DEF Owned, Names
  <2>4. \A c \in db'.codes : c.code \notin ended'
    <3>1. f \notin Of({"code"}, r.user)
      BY <1>2, <1>9 DEF New, Kinds
    <3>2. ASSUME NEW c \in db.codes, c.user # r.user PROVE c.code \notin Of({"code"}, r.user)
      BY <1>8, <1>9, <1>11, <1>12, <3>2 DEF Owned, Names
    <3> QED BY <1>2, <1>4, <1>5, <1>7, <3>1, <3>2 DEF IInv, Dead, New
  <2>5. \A b \in db.sessions \union db.tokens : b.id \notin Of({"code"}, r.user)
    BY <1>8, <1>9, <1>11, <1>12 DEF Owned, OwnedBadges, Names
  <2> QED BY <1>5, <1>7, <2>1, <2>2, <2>3, <2>4, <2>5 DEF IInv, Dead, Alive
<1>16. Proven'
  BY <1>5, <1>7 DEF IInv, Proven
<1>17. (\A e \in copy : Owned(e))' /\ (\A q \in requests : Asked(q))'
  BY <1>3, <1>5, AroundStays DEF IInv
<1> QED BY <1>10, <1>13, <1>14, <1>15, <1>16, <1>17 DEF IInv

(* A recovery, with a printed code or at the console: the account's new    *)
(* password is the only credential it has.                                 *)
LEMMA RecoveryKeeps ==
  ASSUME IInv, NEW u \in Users, Draw("password", u), db' = WithoutCredentials(u),
         End(Of(Credentials \union {"code"}, u)), UNCHANGED <<now, copy, requests, stepped>>,
         NEW paid, paid \subseteq {Once(c.code) : c \in {c \in db.codes : c.user = u}},
         spent' = spent \union paid
  PROVE  IInv'
<1>1. db \in Tables
  BY DEF IInv, Typed
<1>2. PICK f : f = Fresh("password") /\ New(u, "password", f)
  BY <1>1, NewIs DEF Kinds
<1>3. made' \in [Kinds -> Seq(Users)] /\ Grows
  BY <1>1, NewIs DEF Kinds
<1>4. db' = [db EXCEPT !.password[u] = f, !.totp[u] = NoFactor,
                       !.codes = {c \in @ : c.user # u}, !.generation[u] = @ + 1]
  BY <1>2 DEF WithoutCredentials
<1>5. NoFactor \in Factor /\ NoFactor.seed = None /\ NoFactor.proof = None
  BY DEF NoFactor, Factor, Random
<1>6. db' \in Tables
  <2>1. [db.password EXCEPT ![u] = f] \in [Users -> Random]
    BY <1>1, <1>2 DEF Tables, New
  <2>2. [db.totp EXCEPT ![u] = NoFactor] \in [Users -> Factor]
    BY <1>1, <1>5 DEF Tables
  <2>3. {c \in db.codes : c.user # u} \in SUBSET CodeRow
    BY <1>1 DEF Tables
  <2>4. [db.generation EXCEPT ![u] = @ + 1] \in [Users -> Nat]
    BY <1>1 DEF Tables
  <2> QED BY <1>1, <1>4, <2>1, <2>2, <2>3, <2>4 DEF Tables
<1>7. /\ db'.password = [db.password EXCEPT ![u] = f]
      /\ db'.totp = [db.totp EXCEPT ![u] = NoFactor]
      /\ db'.codes = {c \in db.codes : c.user # u}
      /\ db'.generation = [db.generation EXCEPT ![u] = @ + 1] /\ db'.epoch = db.epoch
      /\ db'.invites = db.invites /\ db'.sessions = db.sessions /\ db'.tokens = db.tokens
  BY <1>1, <1>4 DEF Tables
<1> DEFINE kinds == {"password", "session", "token", "proof", "code"}
           gone == Of(Credentials \union {"code"}, u)
<1>8. Names
  BY NamesAre DEF IInv, Typed
<1>9. \A s : s \in gone <=> \E k \in kinds : Owns(u, k, s)
  <2>1. Credentials \union {"code"} = kinds /\ kinds \in SUBSET Kinds
    BY DEF Credentials, Kinds
  <2> QED BY <1>8, <2>1 DEF Names
<1>10. ended' = ended \union gone
  BY DEF End
<1> HIDE DEF gone
<1>11. Typed'
  <2>1. ASSUME NEW s \in ended' PROVE Held(Endable, s)'
    <3>1. Held(Endable, s)
      BY <1>9, <1>10 DEF IInv, Typed, Held, Endable, Kinds
    <3> QED BY <1>3, <3>1, HeldStays DEF Endable
  <2> QED BY <1>3, <1>6, <2>1, TypedStays
<1>12. PICK d : d = db
  OBVIOUS
<1>13. Owned(d)' /\ Owned(d)
  BY <1>3, <1>12, OwnedStays DEF IInv
<1>14. /\ db.totp \in [Users -> Factor] /\ db.password \in [Users -> Random]
       /\ db.generation \in [Users -> Nat]
  BY <1>1 DEF Tables
<1>15. \A b \in db.sessions \union db.tokens : b.user \in Users /\ b.generation \in Nat
  BY <1>1 DEF Tables, Badge
<1>16. \A v \in Users : db'.generation[v] \in Nat /\ db'.generation[v] >= db.generation[v]
  BY <1>7, <1>14
<1>17. \A b \in db.sessions \union db.tokens : b.generation <= db.generation[b.user]
  BY <1>12, <1>13 DEF Owned, OwnedBadges
<1>18. ASSUME NEW b \in db.sessions \union db.tokens PROVE b.generation <= db'.generation[b.user]
  <2>1. b.generation \in Nat /\ db.generation[b.user] \in Nat /\ db'.generation[b.user] \in Nat
    BY <1>14, <1>15, <1>16
  <2>2. b.generation <= db.generation[b.user] /\ db'.generation[b.user] >= db.generation[b.user]
    BY <1>15, <1>16, <1>17
  <2> QED BY <2>1, <2>2
<1>19. Owned(db)'
  <2>1. OwnedBadges(db, "session", db.sessions)' /\ OwnedBadges(db, "token", db.tokens)'
    BY <1>7, <1>12, <1>13, <1>18 DEF Owned, OwnedBadges
  <2> QED BY <1>2, <1>5, <1>7, <1>12, <1>13, <1>14, <2>1 DEF Owned, New
<1>20. \A x \in paid : \E c \in db.codes : x = Once(c.code) /\ c.user = u
  OBVIOUS
<1>21. Unspent'
  <2>1. ASSUME NEW x \in paid PROVE SpentOf(x)' /\ x.counter = -1 /\ Owns(u, "code", x.secret)
    <3>1. PICK c \in db.codes : x = Once(c.code) /\ c.user = u
      BY <1>20
    <3>2. x.counter = -1 /\ x.secret = c.code
      BY <3>1 DEF Once
    <3> QED BY <1>12, <1>13, <3>1, <3>2 DEF Owned, SpentOf, Held
  <2>2. ASSUME NEW x \in spent' PROVE SpentOf(x)'
    BY <1>3, <2>1, SpentStays
  <2>3. \A s : Once(s).secret = s
    BY DEF Once
  <2>4. ASSUME NEW i \in db.invites PROVE Once(i.code) \notin paid
    BY <1>8, <1>12, <1>13, <2>1, <2>3 DEF Owned, Names
  <2>5. ASSUME NEW c \in db'.codes PROVE Once(c.code) \notin spent'
    <3>1. Once(c.code) \notin paid
      BY <1>7, <1>8, <1>12, <1>13, <2>1, <2>3 DEF Owned, Names
    <3> QED BY <1>7, <3>1 DEF IInv, Unspent
  <2>6. ASSUME NEW x \in spent', NEW v \in Users, x.secret = db'.totp[v].seed
        PROVE x.counter <= db'.totp[v].last \/ x.counter < now' - 1
    <3>1. x.secret # None
      BY <1>8, <2>1 DEF IInv, Unspent, SpentOf, Held, Names
    <3>2. v # u /\ db'.totp[v] = db.totp[v]
      BY <1>5, <1>7, <1>14, <2>6, <3>1
    <3>3. x \notin paid
      BY <1>8, <1>12, <1>13, <2>1, <2>6, <3>1, <3>2 DEF Owned, Names
    <3> QED BY <2>6, <3>2, <3>3 DEF IInv, Unspent
  <2> QED BY <1>7, <2>2, <2>4, <2>5, <2>6 DEF IInv, Unspent
<1>22. None \notin ended' /\ \A p \in stepped : p.proof # None
  BY <1>8, <1>9, <1>10 DEF IInv, Typed, Held, Names
<1>23. Dead'
  <2>1. \A v \in Users : db'.password[v] \notin ended'
    <3>1. f \notin gone
      BY <1>2, <1>9 DEF New, Kinds
    <3>2. ASSUME NEW v \in Users, v # u PROVE db.password[v] \notin gone
      BY <1>8, <1>9, <1>12, <1>13, <3>2 DEF Owned, Names
    <3> QED BY <1>2, <1>7, <1>10, <1>14, <3>1, <3>2 DEF IInv, Dead, New
  <2>2. \A v \in Users : db'.totp[v].proof \notin ended'
    <3>1. ASSUME NEW v \in Users, v # u PROVE db.totp[v].proof \notin gone
      BY <1>8, <1>9, <1>12, <1>13, <3>1 DEF Owned, Names
    <3> QED BY <1>5, <1>7, <1>10, <1>14, <1>22, <3>1 DEF IInv, Dead
  <2>3. \A i \in db.invites : i.code \notin gone
    BY <1>8, <1>9, <1>12, <1>13 DEF Owned, Names
  <2>4. ASSUME NEW c \in db.codes, c.user # u PROVE c.code \notin gone
    BY <1>8, <1>9, <1>12, <1>13, <2>4 DEF Owned, Names
  <2>5. ASSUME NEW b \in db.sessions \union db.tokens, b.id \in ended' PROVE ~Alive(b)'
    <3>1. CASE b.id \in gone
      <4>1. b.user = u
        BY <1>8, <1>9, <1>12, <1>13, <3>1 DEF Owned, OwnedBadges, Names
      <4>2. b.generation < db'.generation[b.user]
        <5>1. b.generation \in Nat /\ db.generation[u] \in Nat /\ b.generation <= db.generation[u]
          BY <1>14, <1>15, <1>17, <4>1
        <5>2. db'.generation[u] = db.generation[u] + 1
          BY <1>7, <1>14
        <5> QED BY <4>1, <5>1, <5>2
      <4>3. b.generation # db'.generation[b.user]
        BY <1>15, <1>16, <4>2
      <4> QED BY <4>3 DEF Alive
    <3>2. CASE b.id \in ended
      <4>1. b.revoked \/ b.epoch # db.epoch \/ b.generation # db.generation[b.user]
        BY <3>2 DEF IInv, Dead, Alive
      <4>2. CASE b.generation # db.generation[b.user]
        <5>1. /\ b.generation \in Nat /\ db.generation[b.user] \in Nat /\ db'.generation[b.user] \in Nat
              /\ b.generation <= db.generation[b.user] /\ db'.generation[b.user] >= db.generation[b.user]
          BY <1>14, <1>15, <1>16, <1>17
        <5>2. b.generation # db'.generation[b.user]
          BY <4>2, <5>1
        <5> QED BY <5>2 DEF Alive
      <4> QED BY <1>7, <4>1, <4>2 DEF Alive
    <3> QED BY <1>10, <2>5, <3>1, <3>2
  <2> QED BY <1>7, <1>10, <2>1, <2>2, <2>3, <2>4, <2>5 DEF IInv, Dead
<1>24. Proven'
  BY <1>5, <1>7, <1>14, <1>22 DEF IInv, Proven
<1>25. (\A e \in copy : Owned(e))' /\ (\A q \in requests : Asked(q))'
  BY <1>3, AroundStays DEF IInv
<1> QED BY <1>11, <1>19, <1>21, <1>23, <1>24, <1>25 DEF IInv

LEMMA RecoverKeeps ==
  ASSUME IInv, NEW c \in db.codes, Recover(c) PROVE IInv'
<1>1. c.user \in Users
  BY DEF IInv, Typed, Tables, CodeRow
<1>2. {Once(c.code)} \subseteq {Once(e.code) : e \in {e \in db.codes : e.user = c.user}}
  OBVIOUS
<1> QED BY <1>1, <1>2, RecoveryKeeps DEF Recover, Spend

LEMMA ConsoleRecoverKeeps ==
  ASSUME IInv, NEW u \in Users, ConsoleRecover(u) PROVE IInv'
<1>1. spent' = spent \union {} /\ {} \subseteq {Once(e.code) : e \in {e \in db.codes : e.user = u}}
  BY DEF ConsoleRecover, Quiet
<1> QED BY <1>1, RecoveryKeeps DEF ConsoleRecover

(* Whoever is signed in is signed out by the epoch that is drawn.          *)
LEMMA SignedOutIs ==
  ASSUME IInv, Draw("epoch", Founder), NEW d, d \in Tables, Owned(d)
  PROVE  /\ made' \in [Kinds -> Seq(Users)] /\ Grows
         /\ \E f, factors :
              /\ New(Founder, "epoch", f) /\ f \in Random /\ factors \in [Users -> Factor]
              /\ \A u \in Users : /\ factors[u].proof = None /\ factors[u].last = d.totp[u].last
                                  /\ factors[u].seed = d.totp[u].seed
                                  /\ factors[u].confirmed = d.totp[u].confirmed
              /\ SignedOut(d) = [d EXCEPT !.epoch = f, !.totp = factors]
              /\ \A b \in d.sessions \union d.tokens : b.epoch # f
<1>1. Founder \in Users
  BY AccountsAssumption
<1>2. PICK f : f = Fresh("epoch") /\ New(Founder, "epoch", f)
  BY <1>1, NewIs DEF Kinds
<1>3. made' \in [Kinds -> Seq(Users)] /\ Grows
  BY <1>1, NewIs DEF Kinds
<1> DEFINE factors == [u \in Users |-> [d.totp[u] EXCEPT !.proof = None, !.at = 0]]
<1>4. ASSUME NEW u \in Users
      PROVE  /\ factors[u] \in Factor /\ factors[u].proof = None
             /\ factors[u].last = d.totp[u].last /\ factors[u].seed = d.totp[u].seed
             /\ factors[u].confirmed = d.totp[u].confirmed
  <2>1. d.totp[u] \in Factor
    BY DEF Tables
  <2> QED BY <2>1 DEF Factor, Random
<1>5. factors \in [Users -> Factor]
  BY <1>4
<1>6. SignedOut(d) = [d EXCEPT !.epoch = f, !.totp = factors]
  BY <1>2 DEF SignedOut
<1>7. \A e : Drawn(e) => e # f
  BY <1>2 DEF New, Drawn, Held, Kinds
<1>8. \A b \in d.sessions \union d.tokens : b.epoch # f
  BY <1>7 DEF Owned, OwnedBadges
<1>9. f \in Random
  BY <1>2 DEF New
<1> HIDE DEF factors
<1>10. \E g, fs :
         /\ New(Founder, "epoch", g) /\ g \in Random /\ fs \in [Users -> Factor]
         /\ \A u \in Users : /\ fs[u].proof = None /\ fs[u].last = d.totp[u].last
                             /\ fs[u].seed = d.totp[u].seed
                             /\ fs[u].confirmed = d.totp[u].confirmed
         /\ SignedOut(d) = [d EXCEPT !.epoch = g, !.totp = fs]
         /\ \A b \in d.sessions \union d.tokens : b.epoch # g
  <2> WITNESS f, factors
  <2> QED BY <1>2, <1>4, <1>5, <1>6, <1>8, <1>9
<1> QED BY <1>3, <1>10

LEMMA ResetSignInsKeeps ==
  ASSUME IInv, ResetSignIns PROVE IInv'
<1>1. db \in Tables /\ Owned(db)
  BY DEF IInv, Typed
<1>2. made' \in [Kinds -> Seq(Users)] /\ Grows
  BY <1>1, SignedOutIs DEF ResetSignIns
<1>3. PICK f, factors :
        /\ New(Founder, "epoch", f) /\ f \in Random /\ factors \in [Users -> Factor]
        /\ \A u \in Users : /\ factors[u].proof = None /\ factors[u].last = db.totp[u].last
                            /\ factors[u].seed = db.totp[u].seed
                            /\ factors[u].confirmed = db.totp[u].confirmed
        /\ SignedOut(db) = [db EXCEPT !.epoch = f, !.totp = factors]
        /\ \A b \in db.sessions \union db.tokens : b.epoch # f
  BY <1>1, SignedOutIs DEF ResetSignIns
<1>4. db' = [db EXCEPT !.epoch = f, !.totp = factors]
  BY <1>3 DEF ResetSignIns
<1>5. db' \in Tables
  BY <1>1, <1>3, <1>4 DEF Tables
<1>6. /\ db'.epoch = f /\ db'.totp = factors /\ db'.password = db.password
      /\ db'.codes = db.codes /\ db'.generation = db.generation
      /\ db'.invites = db.invites /\ db'.sessions = db.sessions /\ db'.tokens = db.tokens
  BY <1>1, <1>4 DEF Tables
<1> DEFINE gone == Secrets({"session", "token", "proof"})
<1>7. /\ UNCHANGED <<now, copy, requests, stepped, spent>> /\ ended' = ended \union gone
  BY DEF ResetSignIns, Quiet, End
<1>8. Names
  BY NamesAre DEF IInv, Typed
<1>9. \A s : s \in gone <=> Held({"session", "token", "proof"}, s)
  BY <1>8 DEF Names, Kinds
<1> HIDE DEF gone
<1>10. Typed'
  <2>1. ASSUME NEW s \in ended' PROVE Held(Endable, s)'
    <3>1. Held(Endable, s)
      BY <1>7, <1>9 DEF IInv, Typed, Held, Endable, Kinds
    <3> QED BY <1>2, <3>1, HeldStays DEF Endable
  <2> QED BY <1>2, <1>5, <1>7, <2>1, TypedStays
<1>11. PICK d : d = db
  OBVIOUS
<1>12. Owned(d)' /\ Owned(d)
  BY <1>1, <1>2, <1>11, OwnedStays
<1>13. Owned(db)'
  <2>1. OwnedBadges(db, "session", db.sessions)' /\ OwnedBadges(db, "token", db.tokens)'
    BY <1>6, <1>11, <1>12 DEF Owned, OwnedBadges
  <2>2. Drawn(f)'
    BY <1>3, AccountsAssumption DEF New, Drawn, Held
  <2> QED BY <1>3, <1>6, <1>11, <1>12, <2>1, <2>2 DEF Owned
<1>14. Unspent'
  BY <1>2, <1>3, <1>6, <1>7, SpentStays DEF IInv, Unspent
<1>15. None \notin ended' /\ \A p \in stepped : p.proof # None
  BY <1>7, <1>8, <1>9 DEF IInv, Typed, Held, Names
<1>16. Dead'
  <2>1. \A u \in Users : db.password[u] \notin gone
    BY <1>8, <1>9, <1>11, <1>12 DEF Owned, Names, Held
  <2>2. \A i \in db.invites : i.code \notin gone
    BY <1>8, <1>9, <1>11, <1>12 DEF Owned, Names, Held
  <2>3. \A c \in db.codes : c.code \notin gone
    BY <1>8, <1>9, <1>11, <1>12 DEF Owned, Names, Held
  <2> QED BY <1>3, <1>6, <1>7, <1>15, <2>1, <2>2, <2>3 DEF IInv, Dead, Alive
<1>17. Proven'
  BY <1>3, <1>6, <1>7, <1>15 DEF IInv, Proven
<1>18. (\A e \in copy : Owned(e))' /\ (\A q \in requests : Asked(q))'
  BY <1>2, <1>7, AroundStays DEF IInv
<1> QED BY <1>10, <1>13, <1>14, <1>16, <1>17, <1>18 DEF IInv

(* A code used just before the loss is out of its window by the time the   *)
(* backup that has not seen it is in place.                                *)
LEMMA RestoreKeeps ==
  ASSUME IInv, NEW d \in copy, Restore(d) PROVE IInv'
<1>1. d \in Tables /\ Owned(d)
  BY DEF IInv, Typed
<1>2. made' \in [Kinds -> Seq(Users)] /\ Grows
  BY <1>1, SignedOutIs DEF Restore
<1>3. PICK f, factors :
        /\ New(Founder, "epoch", f) /\ f \in Random /\ factors \in [Users -> Factor]
        /\ \A u \in Users : /\ factors[u].proof = None /\ factors[u].last = d.totp[u].last
                            /\ factors[u].seed = d.totp[u].seed
                            /\ factors[u].confirmed = d.totp[u].confirmed
        /\ SignedOut(d) = [d EXCEPT !.epoch = f, !.totp = factors]
        /\ \A b \in d.sessions \union d.tokens : b.epoch # f
  BY <1>1, SignedOutIs DEF Restore
<1>4. db' = [[d EXCEPT !.epoch = f, !.totp = factors]
               EXCEPT !.codes = {}, !.invites = {i \in @ : i.redeemed}]
  BY <1>3 DEF Restore, Restored
<1>5. db' \in Tables
  BY <1>1, <1>3, <1>4 DEF Tables
<1>6. /\ db'.epoch = f /\ db'.totp = factors /\ db'.password = d.password
      /\ db'.codes = {} /\ db'.generation = d.generation
      /\ db'.invites = {i \in d.invites : i.redeemed}
      /\ db'.sessions = d.sessions /\ db'.tokens = d.tokens
  BY <1>1, <1>4 DEF Tables
<1>7. /\ UNCHANGED <<copy, stepped, spent>> /\ requests' = {} /\ now' = now + RestoreTime
      /\ ended' = Secrets(Endable) \ {d.password[u] : u \in Users}
  BY DEF Restore, Quiet, Endable
<1>8. now \in Nat /\ RestoreTime \in Nat /\ RestoreTime >= 3
  BY AccountsAssumption DEF IInv, Typed
<1>9. Names
  BY NamesAre DEF IInv, Typed
<1>10. \A s : s \in ended' => Held(Endable, s)
  <2>1. Endable \in SUBSET Kinds
    BY DEF Endable
  <2> QED BY <1>7, <1>9, <2>1 DEF Names
<1>11. \A K \in SUBSET Kinds : \A s : Held(K, s) => Held(K, s)'
  BY <1>2, HeldStays
<1>12. Typed'
  <2>1. now' \in Nat
    BY <1>7, <1>8
  <2>2. (\A s \in ended : Held(Endable, s))'
    BY <1>10, <1>11 DEF Endable
  <2>3. (\A p \in stepped : Held({"proof"}, p.proof) /\ p.at \in Nat)'
    BY <1>7, <1>11 DEF IInv, Typed, Kinds
  <2>4. (copy \subseteq Tables)'
    BY <1>7 DEF IInv, Typed
  <2> QED BY <1>2, <1>5, <2>1, <2>2, <2>3, <2>4 DEF Typed
<1>13. Owned(d)'
  BY <1>1, <1>2, OwnedStays
<1>14. Owned(db)'
  <2>1. OwnedBadges(db, "session", db.sessions)' /\ OwnedBadges(db, "token", db.tokens)'
    BY <1>6, <1>13 DEF Owned, OwnedBadges
  <2>2. Drawn(f)'
    BY <1>3, AccountsAssumption DEF New, Drawn, Held
  <2> QED BY <1>3, <1>6, <1>13, <2>1, <2>2 DEF Owned
<1>15. Unspent'
  <2>1. ASSUME NEW x \in spent' PROVE SpentOf(x)'
    <3>1. SpentOf(x)
      BY <1>7, <2>1 DEF IInv, Unspent
    <3>2. CASE x.counter = -1 /\ Held({"invite", "code"}, x.secret)
      BY <1>11, <3>2 DEF SpentOf, Kinds
    <3>3. CASE x.counter \in Int /\ x.counter <= now + 1 /\ Held({"seed"}, x.secret)
      <4>1. x.counter <= now' + 1
        BY <1>7, <1>8, <3>3
      <4> QED BY <1>11, <3>3, <4>1 DEF SpentOf, Kinds
    <3> QED BY <3>1, <3>2, <3>3 DEF SpentOf
  <2>2. ASSUME NEW x \in spent', NEW u \in Users, x.secret = db'.totp[u].seed
        PROVE x.counter <= db'.totp[u].last \/ x.counter < now' - 1
    <3>1. SpentOf(x)
      BY <1>7, <2>2 DEF IInv, Unspent
    <3>2. x.secret = None \/ Owns(u, "seed", x.secret)
      BY <1>1, <1>3, <1>6, <2>2 DEF Owned
    <3>3. ~Held({"invite", "code"}, x.secret)
      BY <1>9, <3>2 DEF Held, Names
    <3>4. x.counter \in Int /\ x.counter <= now + 1
      BY <3>1, <3>3 DEF SpentOf
    <3> QED BY <1>7, <1>8, <3>4
  <2> QED BY <1>6, <2>1, <2>2 DEF Unspent
<1>16. None \notin ended' /\ \A p \in stepped : p.proof # None
  BY <1>9, <1>10 DEF IInv, Typed, Held, Names
<1>17. Dead'
  <2>1. \A u \in Users : db'.password[u] \notin ended' /\ db'.totp[u].proof \notin ended'
    BY <1>3, <1>6, <1>7, <1>16
  <2>2. \A b \in db'.sessions \union db'.tokens : ~Alive(b)'
    BY <1>3, <1>6 DEF Alive
  <2> QED BY <1>6, <2>1, <2>2 DEF Dead
<1>18. Proven'
  BY <1>3, <1>6, <1>7, <1>16 DEF Proven
<1>19. (\A e \in copy : Owned(e))'
  BY <1>2, <1>7, OwnedStays DEF IInv
<1> QED BY <1>7, <1>12, <1>14, <1>15, <1>17, <1>18, <1>19 DEF IInv

-----------------------------------------------------------------------------
(* A server in use.                                                        *)
LEMMA InitHolds ==
  Init => IInv
<1> SUFFICES ASSUME Init PROVE IInv
  OBVIOUS
<1>1. Founder \in Users
  BY AccountsAssumption
<1> PICK zero \in Int : zero = 0
  OBVIOUS
<1> PICK seed : seed = <<"seed", 1>>
  OBVIOUS
<1> DEFINE first == {"password", "session", "token", "seed", "code"}
           session == Bearer("session", Founder, 0, None)
           token == Bearer("token", Founder, 0, None)
           factor == [NoFactor EXCEPT !.seed = seed, !.confirmed = TRUE, !.last = zero]
           code == [code |-> <<"code", 1>>, user |-> Founder]
<1>2. made = [k \in Kinds |-> IF k \in {"invite", "proof", "epoch"} THEN <<>> ELSE <<Founder>>]
  BY DEF Init
<1>3. made \in [Kinds -> Seq(Users)]
  BY <1>1, <1>2
<1>4. ASSUME NEW k \in first PROVE Owns(Founder, k, <<k, 1>>) /\ <<k, 1>> \in Random
  <2>1. k \in Kinds /\ made[k] = <<Founder>>
    BY <1>2 DEF Kinds
  <2>2. Len(made[k]) = 1 /\ made[k][1] = Founder
    BY <2>1
  <2>3. <<k, 1>> \in Secrets({k})
    BY <2>2 DEF Secrets
  <2>4. UserOf(<<k, 1>>) = Founder
    BY <2>2 DEF UserOf
  <2> QED BY <2>1, <2>3, <2>4 DEF Owns, Of, Random
<1>5. None \in Random
  BY DEF Random
<1>6. /\ session \in Badge /\ session.id = <<"session", 1>> /\ session.user = Founder
      /\ session.generation = 0 /\ session.epoch = None
      /\ token \in Badge /\ token.id = <<"token", 1>> /\ token.user = Founder
      /\ token.generation = 0 /\ token.epoch = None
  BY <1>1, <1>4, <1>5 DEF Bearer, Badge
<1>7. NoFactor \in Factor /\ NoFactor.seed = None /\ NoFactor.proof = None
  BY <1>5 DEF NoFactor, Factor
<1>8. factor \in Factor /\ factor.seed = <<"seed", 1>> /\ factor.proof = None
  <2>1. seed \in Random
    BY <1>4
  <2>2. factor \in Factor
    BY <1>7, <2>1 DEF Factor
  <2>3. factor.seed = seed /\ factor.proof = NoFactor.proof
    BY <1>7 DEF Factor
  <2> HIDE DEF factor
  <2> QED BY <1>7, <2>2, <2>3
<1>9. code \in CodeRow /\ code.code = <<"code", 1>> /\ code.user = Founder
  BY <1>1, <1>4 DEF CodeRow
<1> HIDE DEF session, token, factor, code
<1>10. /\ db.password = [u \in Users |-> IF u = Founder THEN <<"password", 1>> ELSE None]
       /\ db.generation = [u \in Users |-> 0] /\ db.epoch = None
       /\ db.invites = {} /\ db.codes = {code} /\ db.sessions = {session} /\ db.tokens = {token}
       /\ db.totp = [u \in Users |-> IF u # Founder THEN NoFactor ELSE factor]
  BY DEF Init, session, token, factor, code
<1>11. db \in Tables
  <2>1. [u \in Users |-> IF u = Founder THEN <<"password", 1>> ELSE None] \in [Users -> Random]
    BY <1>4, <1>5
  <2>2. [u \in Users |-> IF u # Founder THEN NoFactor ELSE factor] \in [Users -> Factor]
    BY <1>7, <1>8
  <2> QED BY <1>5, <1>6, <1>9, <2>1, <2>2 DEF Init, Tables, session, token, factor, code
<1>12. now = 1 /\ copy = {} /\ requests = {} /\ spent = {} /\ ended = {} /\ stepped = {}
  BY DEF Init
<1>13. Typed
  BY <1>3, <1>11, <1>12 DEF Typed
<1>14. Owned(db)
  <2>1. OwnedBadges(db, "session", db.sessions)
    BY <1>1, <1>4, <1>6, <1>10 DEF OwnedBadges, Drawn
  <2>2. OwnedBadges(db, "token", db.tokens)
    BY <1>1, <1>4, <1>6, <1>10 DEF OwnedBadges, Drawn
  <2> QED BY <1>4, <1>7, <1>8, <1>9, <1>10, <2>1, <2>2 DEF Owned, Drawn
<1> QED BY <1>10, <1>12, <1>13, <1>14 DEF IInv, Unspent, Dead, Proven

LEMMA BlankIs ==
  /\ Blank \in [step : {"password"}, user : Users, hash : Random, knows : SUBSET Random,
                seed : Random, counter : Int, by : Random]
  /\ Blank.knows = {}
BY AccountsAssumption DEF Blank, Random

(* The steps that only ask, look or let time pass.                         *)
LEMMA RequestsKeep ==
  ASSUME IInv, UNCHANGED <<now, db, copy, made, spent, ended, stepped>>,
         \A r \in requests' : r \in requests \/ Asked(r)
  PROVE  IInv'
BY FrameKeeps DEF IInv, Typed

LEMMA AuthenticateKeeps ==
  ASSUME IInv, NEW u \in Users, Authenticate(u) PROVE IInv'
<1> DEFINE known == Secrets({"seed", "proof"})
           r == [Blank EXCEPT !.user = u, !.hash = db.password[u], !.knows = known]
<1>1. db.password[u] \in Random /\ Owns(u, "password", db.password[u])
  BY DEF IInv, Typed, Tables, Owned, Authenticate, HasAccount
<1>2. known \subseteq Random /\ \A s \in known : Held({"seed", "proof"}, s)
  <2>1. Names
    BY NamesAre DEF IInv, Typed
  <2>2. \A s : s \in known <=> Held({"seed", "proof"}, s)
    BY <2>1 DEF Names, Kinds
  <2>3. \A s : Held({"seed", "proof"}, s) => s \in Random
    BY <2>1 DEF Names, Held, Kinds
  <2> QED BY <2>2, <2>3
<1>3. requests' \subseteq requests \union {r}
  BY DEF Authenticate, Ask
<1> HIDE DEF known
<1>4. r \in Request /\ r.step = "password" /\ r.user = u /\ r.hash = db.password[u] /\ r.knows = known
  BY <1>1, <1>2, BlankIs DEF Request
<1> HIDE DEF r
<1>5. Asked(r)
  BY <1>1, <1>2, <1>4 DEF Asked
<1> QED BY <1>3, <1>5, RequestsKeep DEF Authenticate

LEMMA ReadFactorKeeps ==
  ASSUME IInv, NEW r \in requests, NEW counter \in (now - 1)..(now + 1), ReadFactor(r, counter)
  PROVE  IInv'
<1> DEFINE step == IF db.totp[r.user].confirmed THEN "step up" ELSE "confirm"
           q == [r EXCEPT !.step = step, !.seed = db.totp[r.user].seed, !.counter = counter]
<1>1. db.totp[r.user].seed \in Random /\ r.user \in Users /\ now \in Nat
  BY DEF IInv, Typed, Tables, Factor, Asked, Request
<1>2. counter \in Int
  BY <1>1
<1>3. step \in {"step up", "confirm"}
  OBVIOUS
<1>4. requests' \subseteq requests \union {q}
  BY DEF ReadFactor
<1> HIDE DEF step
<1>0. r \in Request /\ Asked(r) /\ r.step = "password" /\ db.totp[r.user].seed \in r.knows
  BY DEF IInv, Asked, ReadFactor
<1>5. /\ q \in Request /\ q.user = r.user /\ q.seed = db.totp[r.user].seed
      /\ q.hash = r.hash /\ q.knows = r.knows /\ q.step \in {"step up", "confirm"}
  BY <1>1, <1>2, <1>3, <1>0 DEF Request
<1> HIDE DEF q
<1>6. Owns(q.user, "seed", q.seed)
  <2>1. Names /\ Held({"seed", "proof"}, None) => FALSE
    BY DEF Held, Names
  <2>2. db.totp[r.user].seed # None
    BY <1>0, <2>1, NamesAre DEF Asked, IInv, Typed
  <2> QED BY <1>1, <1>5, <2>2 DEF IInv, Owned
<1>7. Asked(q)
  BY <1>0, <1>5, <1>6 DEF Asked
<1> QED BY <1>4, <1>7, RequestsKeep DEF ReadFactor, Quiet

LEMMA AskTokenKeeps ==
  ASSUME IInv, NEW s \in db.sessions, NEW proof, AskToken(s, proof) PROVE IInv'
<1> DEFINE r == [Blank EXCEPT !.step = "token", !.user = s.user, !.by = s.id]
<1>1. s.user \in Users /\ s.id \in Random
  BY DEF IInv, Typed, Tables, Badge
<1>2. r \in Request /\ r.step = "token" /\ r.knows = {}
  BY <1>1, BlankIs DEF Request
<1>3. requests' \subseteq requests \union {r}
  BY DEF AskToken, Ask
<1> HIDE DEF r
<1>4. Asked(r)
  BY <1>2 DEF Asked
<1> QED BY <1>3, <1>4, RequestsKeep DEF AskToken

LEMMA LookingKeeps ==
  ASSUME IInv,
         \/ \E r \in requests : GiveUp(r)
         \/ \E s \in db.sessions : Touch(s)
         \/ \E by \in Bearers, proof \in Proofs : BeginChange(by, proof)
         \/ \E c \in change : RecordChange(c)
         \/ AbortChange \/ BackUp \/ Tick
  PROVE  IInv'
<1>1. UNCHANGED <<db, made, spent, ended, stepped>> /\ requests' \subseteq requests
      /\ copy' \subseteq copy \union {db}
  BY DEF GiveUp, Touch, BeginChange, RecordChange, AbortChange, BackUp, Tick, Quiet
<1>2. now' \in {now, now + 1} /\ now \in Nat
  BY DEF GiveUp, Touch, BeginChange, RecordChange, AbortChange, BackUp, Tick, IInv, Typed
<1>3. now' \in Nat /\ now' >= now
  BY <1>2
<1> QED BY <1>1, <1>3, FrameKeeps DEF IInv

LEMMA StepsKeep ==
  IInv /\ [Next]_vars => IInv'
<1> SUFFICES ASSUME IInv, [Next]_vars PROVE IInv'
  OBVIOUS
<1>1. CASE UNCHANGED vars
  BY <1>1, RequestsKeep DEF vars, IInv
<1>2. ASSUME NEW u \in Users, Invite(u) \/ Authenticate(u) \/ ConsoleRecover(u) PROVE IInv'
  BY <1>2, InviteKeeps, AuthenticateKeeps, ConsoleRecoverKeeps
<1>3. ASSUME NEW i \in db.invites, Redeem(i) PROVE IInv'
  BY <1>3, RedeemKeeps
<1>4. ASSUME NEW r \in requests,
             SignIn(r) \/ SetUp(r) \/ Confirm(r) \/ StepUp(r) \/ IssueToken(r)
      PROVE IInv'
  BY <1>4, SignInKeeps, SetUpKeeps, ConfirmKeeps, StepUpKeeps, IssueTokenKeeps
<1>5. ASSUME NEW r \in requests, NEW counter \in (now - 1)..(now + 1), ReadFactor(r, counter)
      PROVE IInv'
  BY <1>5, ReadFactorKeeps
<1>6. ASSUME NEW r \in requests, NEW proof \in Proofs, PrintCodes(r, proof) PROVE IInv'
  BY <1>6, PrintCodesKeeps
<1>7. ASSUME NEW s \in db.sessions, NEW all \in BOOLEAN, SignOut(s, all) PROVE IInv'
  BY <1>7, SignOutKeeps
<1>8. ASSUME NEW s \in db.sessions, NEW proof \in Proofs, AskToken(s, proof) PROVE IInv'
  BY <1>8, AskTokenKeeps
<1>9. ASSUME NEW s \in db.sessions, NEW t \in db.tokens, RevokeToken(s, t) PROVE IInv'
  BY <1>9, RevokeTokenKeeps
<1>10. ASSUME NEW c \in db.codes, Recover(c) PROVE IInv'
  BY <1>10, RecoverKeeps
<1>11. CASE ResetSignIns
  BY <1>11, ResetSignInsKeeps
<1>12. ASSUME NEW d \in copy, Restore(d) PROVE IInv'
  BY <1>12, RestoreKeeps
<1> QED BY <1>1, <1>2, <1>3, <1>4, <1>5, <1>6, <1>7, <1>8, <1>9, <1>10, <1>11, <1>12,
           LookingKeeps DEF Next

(* In every reachable state everybody's credentials are their own, what    *)
(* was used is remembered or out of its window, and what was ended is no   *)
(* longer there or no longer alive: the state every answer of store/       *)
(* accounts depends on.                                                    *)
THEOREM CredentialsHold == Spec => []IInv
<1>1. Init => IInv
  BY InitHolds
<1>2. IInv /\ [Next]_vars => IInv'
  BY StepsKeep
<1> QED BY <1>1, <1>2, PTL DEF Spec

-----------------------------------------------------------------------------
(* A request that knows the authenticator or the proof its account has now *)
(* came with the password that the account has now: a recovery takes both  *)
(* away, and later ones were not drawn when the request came.              *)
Aware(r) ==
  \A s \in r.knows :
    s = db.totp[r.user].seed \/ s = db.totp[r.user].proof => db.password[r.user] = r.hash
Awareness == \A r \in requests : Aware(r)

Unknown(u, s) == \A r \in requests : r.user = u => s \notin r.knows

(* No request knows a secret drawn just now, or none.                      *)
LEMMA UnknownAre ==
  ASSUME IInv, NEW v
  PROVE  Unknown(v, None) /\ \A u, kind, f : New(u, kind, f) => Unknown(v, f)
<1>1. Names
  BY NamesAre DEF IInv, Typed
<1>2. ASSUME NEW r \in requests, NEW s \in r.knows
      PROVE s # None /\ \A u, kind, f : New(u, kind, f) => s # f
  <2>1. PICK u \in Users, k \in {"seed", "proof"} : Owns(u, k, s)
    BY DEF IInv, Asked, Held
  <2> QED BY <1>1, <2>1 DEF Names, New, Kinds
<1> QED BY <1>2 DEF Unknown

(* What a step may do to an account's password, authenticator and proof.   *)
Fenced(u) ==
  /\ db'.totp[u].seed = db.totp[u].seed \/ Unknown(u, db'.totp[u].seed)
  /\ db'.totp[u].proof = db.totp[u].proof \/ Unknown(u, db'.totp[u].proof)
  /\ \/ db'.password[u] = db.password[u]
     \/ Unknown(u, db'.totp[u].seed) /\ Unknown(u, db'.totp[u].proof)

LEMMA FencedKeeps ==
  ASSUME IInv, Awareness, requests' \subseteq requests, \A u \in Users : Fenced(u)
  PROVE  Awareness'
<1> SUFFICES ASSUME NEW r \in requests', NEW s \in r.knows,
                    s = db'.totp[r.user].seed \/ s = db'.totp[r.user].proof
             PROVE  db'.password[r.user] = r.hash
  BY DEF Awareness, Aware
<1>1. r \in requests /\ r.user \in Users
  BY DEF IInv, Asked, Request
<1>2. ~Unknown(r.user, s)
  BY <1>1 DEF Unknown
<1>3. Fenced(r.user)
  BY <1>1
<1>4. db'.password[r.user] = db.password[r.user]
  BY <1>2, <1>3 DEF Fenced
<1>5. s = db.totp[r.user].seed \/ s = db.totp[r.user].proof
  BY <1>2, <1>3 DEF Fenced
<1> QED BY <1>1, <1>4, <1>5 DEF Awareness, Aware

(* Most steps touch neither passwords nor authenticators.                  *)
LEMMA OthersKeepAwareness ==
  ASSUME IInv, Awareness, requests' \subseteq requests, db'.totp = db.totp, db'.password = db.password
  PROVE  Awareness'
BY FencedKeeps DEF Fenced

(* A new request is aware of what it read.                                 *)
LEMMA AskingKeepsAwareness ==
  ASSUME IInv, Awareness, UNCHANGED db,
         \A q \in requests' : \/ q \in requests
                              \/ q.knows = {}
                              \/ q.hash = db.password[q.user]
                              \/ \E r \in requests : q.user = r.user /\ q.hash = r.hash /\ q.knows = r.knows
  PROVE  Awareness'
BY DEF Awareness, Aware

LEMMA RedeemKeepsAwareness ==
  ASSUME IInv, Awareness, NEW i \in db.invites, Redeem(i) PROVE Awareness'
<1>1. db \in Tables
  BY DEF IInv, Typed
<1>2. db'.totp = db.totp /\ db'.password = [db.password EXCEPT ![i.user] = Fresh("password")]
  BY <1>1 DEF Redeem, Tables
<1>3. db.password[i.user] = None
  BY DEF Redeem, HasAccount
<1>4. ASSUME NEW r \in requests, r.user = i.user, NEW s \in r.knows,
             s = db.totp[i.user].seed \/ s = db.totp[i.user].proof
      PROVE FALSE
  <2>1. db.password[r.user] = r.hash
    BY <1>4 DEF Awareness, Aware
  <2>2. Owns(r.user, "password", r.hash)
    BY <1>4 DEF IInv, Asked
  <2>3. Names
    BY NamesAre DEF IInv, Typed
  <2> QED BY <1>3, <1>4, <2>1, <2>2, <2>3 DEF Names
<1>5. Unknown(i.user, db.totp[i.user].seed) /\ Unknown(i.user, db.totp[i.user].proof)
  BY <1>4 DEF Unknown
<1>6. \A u \in Users : Fenced(u)
  <2> SUFFICES ASSUME NEW u \in Users PROVE Fenced(u)
    OBVIOUS
  <2>1. u # i.user => db'.password[u] = db.password[u]
    BY <1>1, <1>2 DEF Tables
  <2> QED BY <1>2, <1>5, <2>1 DEF Fenced
<1> QED BY <1>6, FencedKeeps DEF Redeem

(* What becomes of one account's authenticator leaves the others alone.    *)
LEMMA FactorKeepsAwareness ==
  ASSUME IInv, Awareness, requests' \subseteq requests, NEW v \in Users, NEW row,
         db'.totp = [db.totp EXCEPT ![v] = row], db'.password = db.password,
         row.seed = db.totp[v].seed \/ Unknown(v, row.seed),
         row.proof = db.totp[v].proof \/ Unknown(v, row.proof)
  PROVE  Awareness'
<1>1. db.totp \in [Users -> Factor]
  BY DEF IInv, Typed, Tables
<1>2. \A u \in Users : db'.totp[u] = IF u = v THEN row ELSE db.totp[u]
  BY <1>1
<1>3. \A u \in Users : Fenced(u)
  BY <1>2 DEF Fenced
<1> QED BY <1>3, FencedKeeps

LEMMA SetUpKeepsAwareness ==
  ASSUME IInv, Awareness, NEW r \in requests, SetUp(r) PROVE Awareness'
<1>1. db \in Tables /\ r.user \in Users
  BY DEF IInv, Typed, Asked, Request
<1>2. PICK f : f = Fresh("seed") /\ New(r.user, "seed", f)
  BY <1>1, NewIs DEF SetUp, Kinds
<1> DEFINE row == [db.totp[r.user] EXCEPT !.seed = f, !.until = now + SetupLife]
<1>3. db.totp[r.user] \in Factor
  BY <1>1 DEF Tables
<1>4. row.seed = f /\ row.proof = db.totp[r.user].proof
  BY <1>3 DEF Factor
<1>5. db' = [db EXCEPT !.totp[r.user] = row]
  BY <1>1, <1>2, <1>3 DEF SetUp, Tables, Factor
<1> HIDE DEF row
<1>6. db'.totp = [db.totp EXCEPT ![r.user] = row] /\ db'.password = db.password
  BY <1>1, <1>5 DEF Tables
<1>7. Unknown(r.user, f)
  BY <1>2, UnknownAre
<1>8. requests' \subseteq requests
  BY DEF SetUp, Done
<1> QED BY <1>1, <1>4, <1>6, <1>7, <1>8, FactorKeepsAwareness

LEMMA ConfirmKeepsAwareness ==
  ASSUME IInv, Awareness, NEW r \in requests, Confirm(r) PROVE Awareness'
<1>1. db \in Tables /\ r.user \in Users
  BY DEF IInv, Typed, Asked, Request
<1> DEFINE row == [db.totp[r.user] EXCEPT !.confirmed = TRUE, !.last = r.counter, !.proof = None, !.at = now]
<1>2. db.totp[r.user] \in Factor
  BY <1>1 DEF Tables
<1>3. row.seed = db.totp[r.user].seed /\ row.proof = None
  BY <1>2 DEF Factor
<1>4. db' = [db EXCEPT !.totp[r.user] = row]
  BY <1>1, <1>2 DEF Confirm, Tables, Factor
<1> HIDE DEF row
<1>5. db'.totp = [db.totp EXCEPT ![r.user] = row] /\ db'.password = db.password
  BY <1>1, <1>4 DEF Tables
<1>6. Unknown(r.user, None)
  BY UnknownAre
<1>7. requests' \subseteq requests
  BY DEF Confirm, Done
<1> QED BY <1>1, <1>3, <1>5, <1>6, <1>7, FactorKeepsAwareness

LEMMA StepUpKeepsAwareness ==
  ASSUME IInv, Awareness, NEW r \in requests, StepUp(r) PROVE Awareness'
<1>1. db \in Tables /\ r.user \in Users
  BY DEF IInv, Typed, Asked, Request
<1>2. PICK f : f = Fresh("proof") /\ New(r.user, "proof", f)
  BY <1>1, NewIs DEF StepUp, Kinds
<1> DEFINE row == [db.totp[r.user] EXCEPT !.last = r.counter, !.proof = f, !.at = now]
<1>3. db.totp[r.user] \in Factor
  BY <1>1 DEF Tables
<1>4. row.seed = db.totp[r.user].seed /\ row.proof = f
  BY <1>3 DEF Factor
<1>5. db' = [db EXCEPT !.totp[r.user] = row]
  BY <1>1, <1>2, <1>3 DEF StepUp, Tables, Factor
<1> HIDE DEF row
<1>6. db'.totp = [db.totp EXCEPT ![r.user] = row] /\ db'.password = db.password
  BY <1>1, <1>5 DEF Tables
<1>7. Unknown(r.user, f)
  BY <1>2, UnknownAre
<1>8. requests' \subseteq requests
  BY DEF StepUp, Done
<1> QED BY <1>1, <1>4, <1>6, <1>7, <1>8, FactorKeepsAwareness

LEMMA RecoveryKeepsAwareness ==
  ASSUME IInv, Awareness, NEW v \in Users, db' = WithoutCredentials(v), UNCHANGED requests
  PROVE  Awareness'
<1>1. db \in Tables
  BY DEF IInv, Typed
<1>2. /\ db'.totp = [db.totp EXCEPT ![v] = NoFactor]
      /\ db'.password = [db.password EXCEPT ![v] = Fresh("password")]
  BY <1>1 DEF WithoutCredentials, Tables
<1>3. NoFactor.seed = None /\ NoFactor.proof = None
  BY DEF NoFactor
<1>4. \A u \in Users : /\ db'.totp[u] = IF u = v THEN NoFactor ELSE db.totp[u]
                       /\ u # v => db'.password[u] = db.password[u]
  BY <1>1, <1>2 DEF Tables
<1>5. \A u \in Users : Fenced(u)
  BY <1>3, <1>4, UnknownAre DEF Fenced
<1> QED BY <1>5, FencedKeeps

LEMMA ResetKeepsAwareness ==
  ASSUME IInv, Awareness, ResetSignIns PROVE Awareness'
<1>1. db \in Tables
  BY DEF IInv, Typed
<1>2. /\ db'.totp = [u \in Users |-> [db.totp[u] EXCEPT !.proof = None, !.at = 0]]
      /\ db'.password = db.password
  BY <1>1 DEF ResetSignIns, SignedOut, Tables
<1>3. ASSUME NEW u \in Users PROVE db'.totp[u].seed = db.totp[u].seed /\ db'.totp[u].proof = None
  <2>1. db.totp[u] \in Factor
    BY <1>1 DEF Tables
  <2>2. db'.totp[u] = [db.totp[u] EXCEPT !.proof = None, !.at = 0]
    BY <1>2
  <2> QED BY <2>1, <2>2 DEF Factor
<1>4. \A u \in Users : Fenced(u)
  BY <1>2, <1>3, UnknownAre DEF Fenced
<1> QED BY <1>4, FencedKeeps DEF ResetSignIns

LEMMA AwarenessStays == IInv /\ Awareness /\ [Next]_vars => Awareness'
<1> SUFFICES ASSUME IInv, Awareness, [Next]_vars PROVE Awareness'
  OBVIOUS
<1>1. db \in Tables
  BY DEF IInv, Typed
<1>2. CASE \/ \E u \in Users : Invite(u)
           \/ \E r \in requests : GiveUp(r) \/ SignIn(r) \/ IssueToken(r)
           \/ \E r \in requests : \E proof \in Proofs : PrintCodes(r, proof)
           \/ \E s \in db.sessions : \/ Touch(s)
                                     \/ \E all \in BOOLEAN : SignOut(s, all)
                                     \/ \E t \in db.tokens : RevokeToken(s, t)
  <2>1. db'.totp = db.totp /\ db'.password = db.password
    BY <1>1, <1>2 DEF Invite, GiveUp, SignIn, IssueToken, PrintCodes, Touch, SignOut, RevokeToken, Tables
  <2>2. requests' \subseteq requests
    BY <1>2 DEF Invite, GiveUp, SignIn, IssueToken, PrintCodes, Touch, SignOut, RevokeToken, Done
  <2> QED BY <2>1, <2>2, OthersKeepAwareness
<1>3. CASE \/ \E by \in Bearers, proof \in Proofs : BeginChange(by, proof)
           \/ \E c \in change : RecordChange(c)
           \/ AbortChange \/ BackUp \/ Tick \/ UNCHANGED vars
  BY <1>3, OthersKeepAwareness DEF BeginChange, RecordChange, AbortChange, BackUp, Tick, vars
<1>4. ASSUME NEW u \in Users, Authenticate(u) PROVE Awareness'
  <2> DEFINE q == [Blank EXCEPT !.user = u, !.hash = db.password[u], !.knows = Secrets({"seed", "proof"})]
  <2>1. requests' \subseteq requests \union {q} /\ UNCHANGED db
    BY <1>4 DEF Authenticate, Ask
  <2>2. q.user = u /\ q.hash = db.password[u]
    BY DEF Blank
  <2> HIDE DEF q
  <2> QED BY <2>1, <2>2, AskingKeepsAwareness
<1>5. ASSUME NEW s \in db.sessions, NEW proof \in Proofs, AskToken(s, proof) PROVE Awareness'
  <2> DEFINE q == [Blank EXCEPT !.step = "token", !.user = s.user, !.by = s.id]
  <2>1. requests' \subseteq requests \union {q} /\ UNCHANGED db
    BY <1>5 DEF AskToken, Ask
  <2>2. q.knows = {}
    BY DEF Blank
  <2> HIDE DEF q
  <2> QED BY <2>1, <2>2, AskingKeepsAwareness
<1>6. ASSUME NEW r \in requests, NEW counter \in (now - 1)..(now + 1), ReadFactor(r, counter)
      PROVE Awareness'
  <2> DEFINE q == [r EXCEPT !.step = IF db.totp[r.user].confirmed THEN "step up" ELSE "confirm",
                            !.seed = db.totp[r.user].seed, !.counter = counter]
  <2>1. requests' \subseteq requests \union {q} /\ UNCHANGED db
    BY <1>6 DEF ReadFactor
  <2>2. r \in Request
    BY DEF IInv, Asked
  <2>3. q.user = r.user /\ q.hash = r.hash /\ q.knows = r.knows
    BY <2>2 DEF Request
  <2> HIDE DEF q
  <2> QED BY <2>1, <2>3, AskingKeepsAwareness
<1>7. ASSUME NEW c \in db.codes, Recover(c) PROVE Awareness'
  BY <1>1, <1>7, RecoveryKeepsAwareness DEF Recover, Tables, CodeRow
<1>8. ASSUME NEW u \in Users, ConsoleRecover(u) PROVE Awareness'
  BY <1>8, RecoveryKeepsAwareness DEF ConsoleRecover
<1>9. ASSUME NEW d \in copy, Restore(d) PROVE Awareness'
  BY <1>9 DEF Restore, Awareness
<1> QED BY <1>2, <1>3, <1>4, <1>5, <1>6, <1>7, <1>8, <1>9, RedeemKeepsAwareness, SetUpKeepsAwareness,
           ConfirmKeepsAwareness, StepUpKeepsAwareness, ResetKeepsAwareness DEF Next

LEMMA RequestsAreAware == Spec => []Awareness
<1>1. Init => Awareness
  BY DEF Init, Awareness
<1>2. IInv /\ Awareness /\ [Next]_vars => Awareness'
  BY AwarenessStays
<1> QED BY <1>1, <1>2, CredentialsHold, PTL DEF Spec

-----------------------------------------------------------------------------
(* What the server lets through is in its tables and alive; or it is the   *)
(* password with which an authenticator setup was asked for.               *)
Good(a) ==
  \/ \E i \in db.invites : ~i.redeemed /\ a = Once(i.code)
  \/ \E c \in db.codes : a = Once(c.code)
  \/ \E r \in requests : /\ Owns(r.user, "seed", r.seed) /\ CounterNew(r)
                         /\ a = [secret |-> r.seed, counter |-> r.counter]
  \/ \E u \in Users : a = Once(db.password[u])
  \/ \E u \in Users : \E proof : Recent(u, proof) /\ a = Once(proof)
  \/ \E b \in db.sessions \union db.tokens : Alive(b) /\ a = Once(b.id)

SettingUp(a) ==
  /\ made'["seed"] # made["seed"]
  /\ \E r \in requests : Owns(r.user, "password", r.hash) /\ a = Once(r.hash)

LEMMA LiveIsAlive ==
  ASSUME NEW id
  PROVE  /\ \A s \in LiveSession(id) : s \in db.sessions /\ s.id = id /\ Alive(s)
         /\ \A t \in LiveToken(id) : t \in db.tokens /\ t.id = id /\ Alive(t)
BY DEF LiveSession, LiveToken, Alive

(* A league change is admitted by a live token, or by a live session, with *)
(* a recent proof when its user is privileged.                             *)
LEMMA AdmittedIsGood ==
  ASSUME IInv, NEW c, Admitted(c), NEW a \in Shown(c) PROVE Good(a)
<1>1. Names /\ Owned(db)
  BY NamesAre DEF IInv, Typed
<1>2. CASE a = Once(c.by)
  BY <1>2, LiveIsAlive DEF Admitted, Good
<1>3. CASE a = Once(c.proof) /\ c.by[1] = "session" /\ UserOf(c.by) \in Privileged
  <2>1. LiveToken(c.by) = {}
    <3> SUFFICES ASSUME NEW t \in LiveToken(c.by) PROVE FALSE
      OBVIOUS
    <3>1. Owns(t.user, "token", c.by)
      BY <1>1, LiveIsAlive DEF Owned, OwnedBadges
    <3> QED BY <1>1, <1>3, <3>1 DEF Names
  <2>2. PICK s \in LiveSession(c.by) : s.user \in Privileged => Recent(s.user, c.proof)
    BY <2>1 DEF Admitted
  <2>3. Owns(s.user, "session", c.by)
    BY <1>1, LiveIsAlive DEF Owned, OwnedBadges
  <2>4. Recent(s.user, c.proof) /\ s.user \in Users
    BY <1>1, <1>3, <2>2, <2>3, AccountsAssumption DEF Names
  <2> QED BY <1>3, <2>4 DEF Good
<1> QED BY <1>2, <1>3 DEF Shown

LEMMA AcceptedIsGood ==
  ASSUME IInv, Awareness, Next, NEW a \in accepted' PROVE Good(a) \/ SettingUp(a)
<1>1. ASSUME NEW r \in requests PROVE r.user \in Users
  BY DEF IInv, Asked, Request
<1>2. ASSUME NEW s \in db.sessions PROVE s.user \in Users
  BY DEF IInv, Typed, Tables, Badge
<1>3. CASE \/ \E u \in Users : Invite(u) \/ ConsoleRecover(u)
           \/ \E r \in requests : GiveUp(r)
           \/ \E r \in requests : \E counter \in (now - 1)..(now + 1) : ReadFactor(r, counter)
           \/ AbortChange \/ ResetSignIns \/ BackUp \/ Tick
           \/ \E d \in copy : Restore(d)
  BY <1>3 DEF Invite, ConsoleRecover, GiveUp, ReadFactor, AbortChange, ResetSignIns,
              BackUp, Tick, Restore, Quiet
<1>4. ASSUME NEW u \in Users, Authenticate(u) PROVE Good(a)
  BY <1>4 DEF Authenticate, Good
<1>5. ASSUME NEW i \in db.invites, Redeem(i) PROVE Good(a)
  BY <1>5 DEF Redeem, Spend, Good
<1>6. ASSUME NEW r \in requests, SignIn(r) PROVE Good(a)
  BY <1>1, <1>6 DEF SignIn, PasswordHeld, Good
<1>7. ASSUME NEW r \in requests, Confirm(r) \/ StepUp(r) PROVE Good(a)
  <2>1. /\ Owns(r.user, "seed", r.seed) /\ r.seed \in r.knows /\ CounterNew(r)
        /\ a = [secret |-> r.seed, counter |-> r.counter] \/ a = Once(r.hash)
    BY <1>7 DEF Confirm, StepUp, Spend, IInv, Asked
  <2>2. db.password[r.user] = r.hash
    BY <2>1 DEF CounterNew, Awareness, Aware
  <2> QED BY <1>1, <2>1, <2>2 DEF Good
<1>8. ASSUME NEW r \in requests, NEW proof \in Proofs, PrintCodes(r, proof) PROVE Good(a)
  <2>1. proof \in r.knows /\ Recent(r.user, proof) /\ (a = Once(proof) \/ a = Once(r.hash))
    BY <1>8 DEF PrintCodes
  <2>2. db.password[r.user] = r.hash
    BY <2>1 DEF Recent, Awareness, Aware
  <2> QED BY <1>1, <2>1, <2>2 DEF Good
<1>18. ASSUME NEW r \in requests, SetUp(r) PROVE SettingUp(a)
  <2>1. Owns(r.user, "password", r.hash) /\ a = Once(r.hash)
    BY <1>18 DEF SetUp, IInv, Asked
  <2>2. made \in [Kinds -> Seq(Users)] /\ "seed" \in Kinds
    BY DEF IInv, Typed, Kinds
  <2>3. made'["seed"] = Append(made["seed"], r.user)
    BY <1>18, <2>2 DEF SetUp, Draw
  <2>4. Len(made'["seed"]) = Len(made["seed"]) + 1 /\ Len(made["seed"]) \in Nat
    BY <1>1, <2>2, <2>3
  <2>5. made'["seed"] # made["seed"]
    BY <2>4
  <2> QED BY <2>1, <2>5 DEF SettingUp
<1>9. ASSUME NEW r \in requests, IssueToken(r) PROVE Good(a)
  <2>1. PICK s \in LiveSession(r.by) : a = Once(r.by)
    BY <1>9 DEF IssueToken
  <2> QED BY <2>1, LiveIsAlive DEF Good
<1>10. ASSUME NEW s \in db.sessions, s \in LiveSession(s.id), a = Once(s.id) PROVE Good(a)
  BY <1>10, LiveIsAlive DEF Good
<1>11. ASSUME NEW s \in db.sessions, Touch(s) PROVE Good(a)
  BY <1>10, <1>11 DEF Touch
<1>12. ASSUME NEW s \in db.sessions, NEW all \in BOOLEAN, SignOut(s, all) PROVE Good(a)
  BY <1>10, <1>12 DEF SignOut
<1>13. ASSUME NEW s \in db.sessions, NEW t \in db.tokens, RevokeToken(s, t) PROVE Good(a)
  BY <1>10, <1>13 DEF RevokeToken
<1>14. ASSUME NEW s \in db.sessions, NEW proof \in Proofs, AskToken(s, proof) PROVE Good(a)
  <2>1. CASE a = Once(s.id)
    BY <1>10, <1>14, <2>1 DEF AskToken
  <2>2. CASE a = Once(proof)
    BY <1>2, <1>14, <2>2 DEF AskToken, Good
  <2> QED BY <1>14, <2>1, <2>2 DEF AskToken
<1>15. ASSUME NEW by \in Bearers, NEW proof \in Proofs, BeginChange(by, proof) PROVE Good(a)
  BY <1>15, AdmittedIsGood DEF BeginChange
<1>16. ASSUME NEW c \in change, RecordChange(c) PROVE Good(a)
  BY <1>16, AdmittedIsGood DEF RecordChange
<1>17. ASSUME NEW c \in db.codes, Recover(c) PROVE Good(a)
  BY <1>17 DEF Recover, Spend, Good
<1> QED BY <1>3, <1>4, <1>5, <1>6, <1>7, <1>8, <1>9, <1>11, <1>12, <1>13, <1>14, <1>15,
           <1>16, <1>17, <1>18 DEF Next

-----------------------------------------------------------------------------
LEMMA BearersAreUnspent ==
  ASSUME IInv, NEW s, s = None \/ Held(Credentials, s) PROVE Once(s) \notin spent
<1>1. Names
  BY NamesAre DEF IInv, Typed
<1> SUFFICES ASSUME Once(s) \in spent PROVE FALSE
  OBVIOUS
<1>2. Once(s).secret = s
  BY DEF Once
<1>3. Held({"invite", "code"}, s) \/ Held({"seed"}, s)
  BY <1>2 DEF IInv, Unspent, SpentOf
<1> QED BY <1>1, <1>3 DEF Held, Names, Credentials

LEMMA GoodIsUnspent ==
  ASSUME IInv, NEW a, Good(a) PROVE a \notin spent
<1>1. Owned(db)
  BY DEF IInv
<1>2. CASE \E i \in db.invites : ~i.redeemed /\ a = Once(i.code)
  BY <1>2 DEF IInv, Unspent
<1>3. CASE \E c \in db.codes : a = Once(c.code)
  BY <1>3 DEF IInv, Unspent
<1>4. ASSUME NEW r \in requests, Owns(r.user, "seed", r.seed), CounterNew(r),
             a = [secret |-> r.seed, counter |-> r.counter]
      PROVE a \notin spent
  <2>1. r.counter \in Int /\ \A x \in spent : x.secret = r.seed => x.counter < r.counter
    BY <1>4, CounterIsNew
  <2>2. a.secret = r.seed /\ a.counter = r.counter
    BY <1>4
  <2> QED BY <2>1, <2>2
<1>5. CASE \E u \in Users : a = Once(db.password[u])
  BY <1>1, <1>5, BearersAreUnspent DEF Owned, Held, Credentials
<1>6. CASE \E u \in Users : \E proof : Recent(u, proof) /\ a = Once(proof)
  BY <1>1, <1>6, BearersAreUnspent DEF Owned, Recent, Held, Credentials
<1>7. ASSUME NEW b \in db.sessions \union db.tokens, a = Once(b.id) PROVE a \notin spent
  <2>1. b.user \in Users
    BY DEF IInv, Typed, Tables, Badge
  <2> QED BY <1>1, <1>7, <2>1, BearersAreUnspent DEF Owned, OwnedBadges, Held, Credentials
<1> QED BY <1>2, <1>3, <1>4, <1>5, <1>6, <1>7 DEF Good

LEMMA GoodIsNotEnded ==
  ASSUME IInv, NEW a, Good(a) PROVE a.secret \notin ended
<1>1. \A s : Once(s).secret = s
  BY DEF Once
<1>2. ASSUME NEW r \in requests, Owns(r.user, "seed", r.seed) PROVE r.seed \notin ended
  <2>1. Names
    BY NamesAre DEF IInv, Typed
  <2> QED BY <1>2, <2>1 DEF IInv, Typed, Held, Names, Endable
<1>3. ASSUME NEW u \in Users, NEW proof, Recent(u, proof) PROVE proof \notin ended
  BY <1>3 DEF Recent, IInv, Dead
<1> QED BY <1>1, <1>2, <1>3 DEF Good, IInv, Dead

LEMMA GoodIsRecent ==
  ASSUME IInv, NEW a, Good(a), NEW p \in stepped, a.secret = p.proof
  PROVE  /\ now < p.at + RecentLife
         /\ db.totp[UserOf(p.proof)].seed = p.seed /\ db.totp[UserOf(p.proof)].confirmed
<1>1. Names /\ Owned(db) /\ Held({"proof"}, p.proof)
  BY NamesAre DEF IInv, Typed
<1>2. \A u, k : Owns(u, k, p.proof) => k = "proof"
  BY <1>1 DEF Held, Names
<1>3. \A s : Once(s).secret = s
  BY DEF Once
<1>4. PICK u \in Users : Recent(u, p.proof)
  <2>1. CASE \E i \in db.invites : a = Once(i.code)
    BY <1>1, <1>2, <1>3, <2>1 DEF Owned
  <2>2. CASE \E c \in db.codes : a = Once(c.code)
    BY <1>1, <1>2, <1>3, <2>2 DEF Owned
  <2>3. CASE \E r \in requests : Owns(r.user, "seed", r.seed) /\ a = [secret |-> r.seed, counter |-> r.counter]
    BY <1>2, <2>3
  <2>4. CASE \E u \in Users : a = Once(db.password[u])
    BY <1>1, <1>2, <1>3, <2>4 DEF Owned, Held, Names
  <2>5. CASE \E u \in Users : \E proof : Recent(u, proof) /\ a = Once(proof)
    BY <1>3, <2>5
  <2>6. CASE \E b \in db.sessions \union db.tokens : a = Once(b.id)
    BY <1>1, <1>2, <1>3, <2>6 DEF Owned, OwnedBadges
  <2> QED BY <2>1, <2>2, <2>3, <2>4, <2>5, <2>6 DEF Good
<1>5. p.proof = db.totp[u].proof /\ p.proof # None /\ now - RecentLife < db.totp[u].at
  BY <1>4 DEF Recent
<1>6. UserOf(p.proof) = u
  BY <1>1, <1>5 DEF Owned, Names
<1>7. p.at = db.totp[u].at /\ p.seed = db.totp[u].seed /\ db.totp[u].confirmed
  BY <1>5 DEF IInv, Proven
<1>8. now \in Nat /\ RecentLife \in Nat /\ p.at \in Nat
  BY AccountsAssumption DEF IInv, Typed
<1>9. now < p.at + RecentLife
  BY <1>5, <1>7, <1>8
<1> QED BY <1>6, <1>7, <1>9

(* A password asked for a setup is no one-use code and no proof.           *)
LEMMA SettingUpIs ==
  ASSUME IInv, NEW a, SettingUp(a)
  PROVE  a \notin spent /\ a.secret[1] = "password" /\ \A p \in stepped : a.secret # p.proof
<1>1. PICK r \in requests : Owns(r.user, "password", r.hash) /\ a = Once(r.hash)
  BY DEF SettingUp
<1>2. Names /\ r.user \in Users
  BY <1>1, NamesAre DEF IInv, Typed, Asked, Request
<1>3. Held(Credentials, r.hash)
  BY <1>1, <1>2 DEF Held, Credentials
<1>4. a.secret = r.hash /\ r.hash[1] = "password"
  BY <1>1, <1>2 DEF Once, Names
<1>5. \A p \in stepped : r.hash # p.proof
  BY <1>2, <1>4 DEF IInv, Typed, Held, Names
<1> QED BY <1>1, <1>3, <1>4, <1>5, BearersAreUnspent

-----------------------------------------------------------------------------
(* A code is good once, for any number of users and codes: an invitation,  *)
(* a code of the authenticator and a printed code are marked, put behind   *)
(* the counter or deleted in the write that accepts them, and a restored   *)
(* backup drops those it may not know to be used (store/accounts/          *)
(* totp.go:93, recovery.go:55, reset.go:19).                               *)
THEOREM CodesGoodOnce == Spec => OnlyOnce
<1>1. IInv /\ Awareness /\ [Next]_vars => [accepted' \intersect spent = {}]_vars
  BY AcceptedIsGood, GoodIsUnspent, SettingUpIs DEF vars
<1> QED BY <1>1, CredentialsHold, RequestsAreAware, PTL DEF Spec, OnlyOnce

(* What was ended lets nothing through: a session or a token is asked for  *)
(* by its epoch and its user's generation in every read, also at the end   *)
(* of a change it began (sessions.go:118), and a password is compared      *)
(* again, or comes with a code or a proof that a recovery takes away.  It  *)
(* may still begin the setup of an authenticator (totp.go:29).             *)
THEOREM EndedRefused == Spec => EndedAreRefused
<1>1. IInv /\ Awareness /\ [Next]_vars =>
        [\A a \in accepted' : a.secret \in ended =>
           a.secret[1] = "password" /\ made'["seed"] # made["seed"]]_vars
  <2>1. ASSUME IInv, Awareness, Next, NEW a \in accepted', a.secret \in ended
        PROVE  a.secret[1] = "password" /\ made'["seed"] # made["seed"]
    <3>1. SettingUp(a)
      BY <2>1, AcceptedIsGood, GoodIsNotEnded
    <3> QED BY <2>1, <3>1, SettingUpIs DEF SettingUp
  <2> QED BY <2>1 DEF vars
<1> QED BY <1>1, CredentialsHold, RequestsAreAware, PTL DEF Spec, EndedAreRefused

(* A proof lets something through only while it is recent and the account  *)
(* has the authenticator it was given for (totp.go:119).                   *)
THEOREM ProofsRecent == Spec => ProofsAreRecent
<1>1. IInv /\ Awareness /\ [Next]_vars =>
        [\A a \in accepted', p \in stepped : a.secret = p.proof =>
           /\ now < p.at + RecentLife
           /\ db.totp[UserOf(p.proof)].seed = p.seed /\ db.totp[UserOf(p.proof)].confirmed]_vars
  BY AcceptedIsGood, GoodIsRecent, SettingUpIs DEF vars
<1> QED BY <1>1, CredentialsHold, RequestsAreAware, PTL DEF Spec, ProofsAreRecent
=============================================================================
