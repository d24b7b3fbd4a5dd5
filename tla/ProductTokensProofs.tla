------------------------- MODULE ProductTokensProofs ------------------------
(***************************************************************************)
(* Proofs about ProductTokens, for any number of tokens, apps and rotations*)
(* at once, and any length of time: what a rotation leaves of the tokens   *)
(* there were, whose scopes it hands on, and that a token lives once.      *)
(***************************************************************************)
EXTENDS ProductTokens, TLAPS

\* What was answered is known of the tokens there are, and nothing is dated
\* after the present.
Dates ==
  /\ \A t \in Tokens : hub_product_token[t] = None <=> issued[t] = None
  /\ \A t \in Made : /\ hub_product_token[t].created_at <= now
                     /\ issued[t].since <= now

\* A rotation under way has not made its token yet, and works on rows of its app.
UnderWay ==
  \A t \in Tokens : rotation[t] # None =>
    /\ hub_product_token[t] = None
    /\ rotation[t].since <= now
    /\ \A x \in Tokens : rotation[t].rows[x] # None =>
         rotation[t].rows[x].app = rotation[t].app

Base == TypeOK /\ Dates /\ UnderWay

(***************************************************************************)
(* What a step does to the tokens there are, and which one it makes        *)
(***************************************************************************)
\* What stays of a row: everything but its end, which a rotation may move
\* forward, and its revocation, which comes once.
RowKept(t) ==
  /\ t \in Made'
  /\ issued'[t] = issued[t]
  /\ hub_product_token'[t].app = hub_product_token[t].app
  /\ hub_product_token'[t].scopes = hub_product_token[t].scopes
  /\ hub_product_token'[t].created_at = hub_product_token[t].created_at

EndKept(t) == hub_product_token'[t].expires_at = hub_product_token[t].expires_at

RevocationKept(t) == hub_product_token'[t].revoked_at = hub_product_token[t].revoked_at

RevokedNow(t) ==
  /\ hub_product_token[t].revoked_at = None
  /\ hub_product_token'[t].revoked_at = now
  /\ EndKept(t)

EndMoved(t) ==
  /\ hub_product_token[t].expires_at > now + Overlap
  /\ hub_product_token'[t].expires_at = now + Overlap
  /\ RevocationKept(t)

\* The row of a token that is made.
MadeRow(t, a, scopes, ttl, by, asked, since) ==
  /\ hub_product_token[t] = None
  /\ hub_product_token'[t] = NewRow(a, scopes, ttl)
  /\ issued'[t] = [by |-> by, scopes |-> asked, expires_at |-> now + ttl,
                   since |-> since]
  /\ now' = now

IssueOf(t) ==
  \E a \in Apps, scopes \in SUBSET Scopes, ttl \in Ttls \cup {DefaultTtl} :
    Issue(t, a, scopes, ttl)

\* The token that the transaction of a rotation makes.
RotatedRow(t) ==
  MadeRow(t, rotation[t].app, rotation[t].scopes, DefaultTtl, "rotate",
          rotation[t].asked, rotation[t].since)

\* No token is made or changed: a rotation begins or fails, or time passes.
Quiet ==
  /\ hub_product_token' = hub_product_token /\ issued' = issued
  /\ now' \in {now, now + 1}

\* The steps there are.
LEMMA Cases ==
  ASSUME [Next]_vars
  PROVE  \/ \E t \in Tokens : IssueOf(t)
         \/ \E t \in Tokens : Rotate(t)
         \/ \E t \in Tokens, a \in Apps : Revoke(t, a)
         \/ Quiet
BY DEF Next, vars, IssueToken, IssueOf, RotateToken, RevokeToken, BeginRotation, Abort, Look,
       Tick, Quiet

\* Every row is a record with its fields.
LEMMA RowFields ==
  ASSUME TypeOK, NEW t \in Made
  PROVE  /\ hub_product_token[t] \in Row
         /\ t \in Tokens
BY DEF TypeOK, Made

\* Every transaction is a record with its fields.
LEMMA TransactionFields ==
  ASSUME TypeOK, NEW t \in Tokens, rotation[t] # None
  PROVE  /\ rotation[t] \in Transaction
         /\ rotation[t].app \in Apps /\ rotation[t].since \in Nat
         /\ rotation[t].asked \in SUBSET Scopes /\ rotation[t].scopes \in SUBSET Scopes
         /\ rotation[t].rows \in [Tokens -> Row \cup {None}]
BY DEF TypeOK, Transaction

\* The scopes a rotation hands on are scopes.
LEMMA InheritedScopes ==
  ASSUME TypeOK, NEW a \in Apps
  PROVE  Inherited(a) \subseteq SUBSET Scopes
<1> SUFFICES ASSUME NEW t \in ActiveOf(a)
             PROVE  hub_product_token[t].scopes \in SUBSET Scopes
  BY DEF Inherited
<1> QED
  BY DEF ActiveOf, Active, TypeOK, Row

\* A token is issued: the others stay as they are.
LEMMA IssueEffect ==
  ASSUME Base, NEW t \in Tokens, NEW a \in Apps, NEW scopes \in SUBSET Scopes,
         NEW ttl \in Ttls \cup {DefaultTtl}, Issue(t, a, scopes, ttl)
  PROVE  /\ MadeRow(t, a, scopes, ttl, "issue", scopes, now)
         /\ Made' = Made \cup {t}
         /\ TypeOK'
         /\ \A x \in Made : RowKept(x) /\ EndKept(x) /\ RevocationKept(x)
<1> USE TokensAssumption DEF Base
<1> DEFINE r == NewRow(a, scopes, ttl)
           i == [by |-> "issue", scopes |-> scopes, expires_at |-> now + ttl, since |-> now]
<1>1. ttl \in Nat /\ now \in Nat
  BY DEF TypeOK
<1>2. r \in Row
  BY <1>1 DEF Row, NewRow
<1>3. i \in IssuedToken
  BY <1>1 DEF IssuedToken
<1>4. r # None
  BY <1>2 DEF Row
<1>5. TypeOK'
  BY <1>2, <1>3 DEF Issue, TypeOK
<1>6. /\ hub_product_token[t] = None
      /\ hub_product_token' = [hub_product_token EXCEPT ![t] = r]
      /\ issued' = [issued EXCEPT ![t] = i]
      /\ now' = now
  BY DEF Issue
<1>7. MadeRow(t, a, scopes, ttl, "issue", scopes, now)
  BY <1>6 DEF MadeRow, TypeOK
<1> HIDE DEF r, i
<1>8. Made' = Made \cup {t}
  BY <1>4, <1>6 DEF Made, TypeOK
<1>9. \A x \in Made : RowKept(x) /\ EndKept(x) /\ RevocationKept(x)
  BY <1>6, <1>8 DEF RowKept, EndKept, RevocationKept, Made, TypeOK
<1> QED
  BY <1>5, <1>7, <1>8, <1>9

\* A rotation makes one token and moves the end of some others.
LEMMA RotateEffect ==
  ASSUME Base, NEW t \in Tokens, Rotate(t)
  PROVE  /\ RotatedRow(t)
         /\ Made' = Made \cup {t}
         /\ TypeOK'
         /\ \A x \in Made :
              RowKept(x) /\ (\/ EndKept(x) /\ RevocationKept(x)
                             \/ EndMoved(x) /\ hub_product_token[x].app = rotation[t].app)
<1> USE TokensAssumption DEF Base
<1> DEFINE a == rotation[t].app
           r == NewRow(a, rotation[t].scopes, DefaultTtl)
           i == [by |-> "rotate", scopes |-> rotation[t].asked,
                 expires_at |-> now + DefaultTtl, since |-> rotation[t].since]
           cut == Shortened(t)
<1>1. /\ rotation[t] # None
      /\ a \in Apps /\ rotation[t].since \in Nat
      /\ rotation[t].scopes \in SUBSET Scopes /\ rotation[t].asked \in SUBSET Scopes
      /\ rotation[t].rows \in [Tokens -> Row \cup {None}]
  BY TransactionFields DEF Rotate
<1>2. now \in Nat
  BY DEF TypeOK
<1>3. r \in Row
  BY <1>1, <1>2 DEF Row, NewRow
<1>4. i \in IssuedToken
  BY <1>1, <1>2 DEF IssuedToken
<1>5. /\ hub_product_token[t] = None
      /\ hub_product_token' = [cut EXCEPT ![t] = r]
      /\ issued' = [issued EXCEPT ![t] = i]
      /\ rotation' = [rotation EXCEPT ![t] = None]
      /\ now' = now
  BY DEF Rotate, UnderWay
<1>6. ASSUME NEW x \in Shortens(t)
      PROVE  /\ cut[x] = [hub_product_token[x] EXCEPT !.expires_at = now + Overlap]
             /\ cut[x] \in Row
             /\ hub_product_token[x] \in Row
             /\ hub_product_token[x].app = a
             /\ hub_product_token[x].expires_at > now + Overlap
  <2>1. /\ x \in Tokens /\ rotation[t].rows[x] # None
        /\ rotation[t].rows[x].expires_at > now + Overlap
        /\ hub_product_token[x] = rotation[t].rows[x]
    BY DEF Shortens, Rotate
  <2>2. rotation[t].rows[x].app = a
    BY <1>1, <2>1 DEF UnderWay
  <2>3. hub_product_token[x] \in Row
    BY <1>1, <2>1
  <2>4. cut[x] = [hub_product_token[x] EXCEPT !.expires_at = now + Overlap]
    BY <2>1 DEF Shortened
  <2>5. cut[x] \in Row
    BY <1>2, <2>3, <2>4 DEF Row
  <2> QED
    BY <2>1, <2>2, <2>3, <2>4, <2>5
<1>7. ASSUME NEW x \in Tokens, x \notin Shortens(t)
      PROVE  cut[x] = hub_product_token[x]
  BY <1>7 DEF Shortened
<1>8. cut \in [Tokens -> Row \cup {None}]
  <2>1. ASSUME NEW x \in Tokens PROVE cut[x] \in Row \cup {None}
    BY <1>6, <1>7, <2>1 DEF TypeOK
  <2>2. cut = [x \in Tokens |-> cut[x]]
    BY DEF Shortened
  <2> QED
    BY <2>1, <2>2
<1>9. r # None
  BY <1>3 DEF Row
<1> HIDE DEF r, i, cut
<1>10. TypeOK'
  BY <1>3, <1>4, <1>5, <1>8 DEF TypeOK
<1>11. hub_product_token'[t] = r /\ issued'[t] = i
  BY <1>5, <1>8 DEF TypeOK
<1>12. RotatedRow(t)
  BY <1>5, <1>11 DEF RotatedRow, MadeRow, r, i
<1>13. ASSUME NEW x \in Made
       PROVE  /\ x \in Made'
              /\ RowKept(x)
              /\ \/ EndKept(x) /\ RevocationKept(x)
                 \/ EndMoved(x) /\ hub_product_token[x].app = a
  <2>1. x \in Tokens /\ x # t /\ hub_product_token'[x] = cut[x]
        /\ issued'[x] = issued[x] /\ hub_product_token[x] \in Row
    BY <1>5, <1>8 DEF Made, TypeOK
  <2>2. CASE x \in Shortens(t)
    <3>1. /\ cut[x] = [hub_product_token[x] EXCEPT !.expires_at = now + Overlap]
          /\ cut[x] \in Row
      BY <1>6, <2>1, <2>2
    <3>2. cut[x] # None
      BY <3>1 DEF Row
    <3>3. x \in Made'
      BY <2>1, <3>2 DEF Made
    <3>4. EndMoved(x) /\ RowKept(x) /\ hub_product_token[x].app = a
      BY <1>6, <2>1, <2>2, <3>1, <3>3 DEF EndMoved, RowKept, RevocationKept, Row
    <3> QED
      BY <3>3, <3>4
  <2>3. CASE x \notin Shortens(t)
    <3>1. cut[x] = hub_product_token[x]
      BY <1>7, <2>1, <2>3
    <3> QED
      BY <2>1, <3>1 DEF Made, RowKept, EndKept, RevocationKept
  <2> QED
    BY <2>2, <2>3
<1>14. Made' = Made \cup {t}
  <2>1. ASSUME NEW x \in Tokens, x # t, x \notin Made PROVE x \notin Made'
    <3>1. hub_product_token[x] = None /\ hub_product_token'[x] = cut[x]
      BY <1>5, <1>8, <2>1 DEF Made
    <3>2. cut[x] = None
      BY <1>6, <1>7, <3>1 DEF Row
    <3> QED
      BY <3>1, <3>2 DEF Made
  <2>2. t \in Made'
    BY <1>9, <1>11 DEF Made
  <2>3. \A x \in Made : x \in Made'
    BY <1>13
  <2> QED
    BY <2>1, <2>2, <2>3 DEF Made
<1> QED
  BY <1>10, <1>12, <1>13, <1>14

\* A revocation changes the one row.
LEMMA RevokeEffect ==
  ASSUME Base, NEW t \in Tokens, NEW a \in Apps, Revoke(t, a)
  PROVE  /\ t \in Made /\ now' = now
         /\ Made' = Made
         /\ TypeOK'
         /\ RowKept(t) /\ RevokedNow(t)
         /\ \A x \in Made : x # t => RowKept(x) /\ EndKept(x) /\ RevocationKept(x)
<1> USE TokensAssumption DEF Base
<1> DEFINE r == [hub_product_token[t] EXCEPT !.revoked_at = now]
<1>1. /\ hub_product_token[t] # None
      /\ hub_product_token[t].revoked_at = None
      /\ hub_product_token' = [hub_product_token EXCEPT ![t].revoked_at = now]
      /\ issued' = issued /\ rotation' = rotation /\ now' = now
  BY DEF Revoke
<1>2. hub_product_token' = [hub_product_token EXCEPT ![t] = r]
  BY <1>1 DEF TypeOK
<1>3. hub_product_token[t] \in Row /\ now \in Nat
  BY <1>1 DEF TypeOK
<1>4. /\ r \in Row /\ r.revoked_at = now
      /\ r.app = hub_product_token[t].app /\ r.scopes = hub_product_token[t].scopes
      /\ r.created_at = hub_product_token[t].created_at
      /\ r.expires_at = hub_product_token[t].expires_at
  BY <1>3 DEF Row
<1>5. r # None
  BY <1>4 DEF Row
<1> HIDE DEF r
<1>6. TypeOK'
  BY <1>1, <1>2, <1>4 DEF TypeOK
<1>7. Made' = Made /\ t \in Made
  BY <1>1, <1>2, <1>5 DEF Made, TypeOK
<1>8. hub_product_token'[t] = r
  BY <1>2 DEF TypeOK
<1>9. RowKept(t) /\ RevokedNow(t)
  BY <1>1, <1>4, <1>7, <1>8 DEF RowKept, RevokedNow, EndKept
<1>10. \A x \in Made : x # t => RowKept(x) /\ EndKept(x) /\ RevocationKept(x)
  BY <1>1, <1>2, <1>7 DEF RowKept, EndKept, RevocationKept, Made, TypeOK
<1> QED
  BY <1>1, <1>6, <1>7, <1>9, <1>10

(***************************************************************************)
(* What keeps an invariant: each action in turn                            *)
(***************************************************************************)
\* The fields of what was made and of what was there before it.
LEMMA FieldTypes ==
  ASSUME Base, NEW t \in Made
  PROVE  /\ hub_product_token[t].created_at \in Nat /\ hub_product_token[t].expires_at \in Nat
         /\ hub_product_token[t].created_at <= now
         /\ hub_product_token[t].revoked_at \in Nat \cup {None}
         /\ issued[t] \in IssuedToken /\ issued[t].expires_at \in Nat
         /\ issued[t].since \in Nat /\ issued[t].since <= now
         /\ now \in Nat
<1>1. hub_product_token[t] \in Row /\ t \in Tokens
  BY RowFields DEF Base
<1>2. issued[t] # None
  BY <1>1 DEF Base, Dates, Made
<1>3. issued[t] \in IssuedToken
  BY <1>1, <1>2 DEF Base, TypeOK
<1> QED
  BY <1>1, <1>3 DEF Base, Dates, TypeOK, Row, IssuedToken

\* What is made is dated now.
LEMMA MadeFields ==
  ASSUME NEW t, NEW a, NEW scopes, NEW ttl, NEW by, NEW asked,
         NEW since, MadeRow(t, a, scopes, ttl, by, asked, since)
  PROVE  /\ hub_product_token'[t].app = a /\ hub_product_token'[t].scopes = scopes
         /\ hub_product_token'[t].created_at = now /\ hub_product_token'[t].expires_at = now + ttl
         /\ hub_product_token'[t].revoked_at = None
         /\ issued'[t].by = by /\ issued'[t].scopes = asked /\ issued'[t].expires_at = now + ttl
         /\ issued'[t].since = since
         /\ t \notin Made
BY DEF MadeRow, NewRow, Made

\* An answer is never "no answer".
LEMMA AnswerIsOne ==
  ASSUME NEW by \in {"issue", "rotate"}, NEW asked \in SUBSET Scopes, NEW e \in Nat,
         NEW since \in Nat
  PROVE  [by |-> by, scopes |-> asked, expires_at |-> e, since |-> since] # None
BY TokensAssumption DEF IssuedToken

\* One token more, made now and answered.
LEMMA MadeDates ==
  ASSUME Base, NEW t \in Tokens, NEW a, NEW scopes, NEW ttl, NEW by, NEW asked,
         NEW since \in Nat, since <= now,
         MadeRow(t, a, scopes, ttl, by, asked, since), Made' = Made \cup {t},
         issued'[t] # None,
         \A x \in Tokens : x # t => issued'[x] = issued[x],
         \A x \in Made : RowKept(x)
  PROVE  Dates'
<1>1. now' = now /\ now \in Nat /\ t \in Made'
  BY DEF MadeRow, Base, TypeOK
<1>2. ASSUME NEW x \in Tokens PROVE hub_product_token'[x] = None <=> issued'[x] = None
  <2>1. x \in Made' <=> hub_product_token'[x] # None
    BY DEF Made
  <2>2. x \in Made <=> issued[x] # None
    BY DEF Base, Dates, Made
  <2> QED
    BY <2>1, <2>2, <1>1
<1>3. ASSUME NEW x \in Made'
      PROVE  hub_product_token'[x].created_at <= now' /\ issued'[x].since <= now'
  <2>1. CASE x = t
    BY <2>1, <1>1, MadeFields
  <2>2. CASE x # t
    BY <2>2, <1>1, FieldTypes DEF RowKept
  <2> QED
    BY <2>1, <2>2
<1> QED
  BY <1>2, <1>3 DEF Dates

\* Rotations under way are not disturbed by a token that is not theirs, nor by
\* the end of one of them.
LEMMA UnderWayKept ==
  ASSUME Base, now' \in {now, now + 1},
         \A t \in Tokens : rotation'[t] # None =>
           rotation'[t] = rotation[t] /\ hub_product_token'[t] = hub_product_token[t]
  PROVE  UnderWay'
<1>1. now \in Nat
  BY DEF Base, TypeOK
<1>2. \A t \in Tokens : rotation[t] # None => rotation[t].since \in Nat
  BY TransactionFields DEF Base
<1> QED
  BY <1>1, <1>2 DEF Base, UnderWay

\* Tokens are made with an answer, and dated with the present.
LEMMA BaseKept ==
  ASSUME Base, [Next]_vars
  PROVE  Base'
<1> USE TokensAssumption
<1>1. \A x \in Made : x \in Tokens /\ hub_product_token[x].created_at <= now
  BY DEF Base, Dates, Made
<1>2. now \in Nat /\ TypeOK /\ Dates /\ UnderWay
  BY DEF Base, TypeOK
<1>3. ASSUME NEW t \in Tokens, NEW a \in Apps, NEW scopes \in SUBSET Scopes,
             NEW ttl \in Ttls \cup {DefaultTtl}, Issue(t, a, scopes, ttl)
      PROVE  Base'
  <2>1. /\ MadeRow(t, a, scopes, ttl, "issue", scopes, now) /\ Made' = Made \cup {t}
        /\ TypeOK'
        /\ \A x \in Made : RowKept(x)
    BY <1>3, IssueEffect
  <2>2. issued'[t] # None
    BY <2>1, <1>2, AnswerIsOne DEF MadeRow
  <2>3. \A x \in Tokens : x # t => issued'[x] = issued[x]
    BY <1>2, <1>3 DEF Issue, TypeOK
  <2>4. Dates'
    BY <1>2, <2>1, <2>2, <2>3, MadeDates
  <2>5. UnderWay'
    BY <1>2, <1>3, UnderWayKept DEF Issue, TypeOK
  <2> QED
    BY <2>1, <2>4, <2>5 DEF Base
<1>4. ASSUME NEW t \in Tokens, Rotate(t)
      PROVE  Base'
  <2>1. /\ RotatedRow(t) /\ Made' = Made \cup {t} /\ TypeOK'
        /\ \A x \in Made : RowKept(x)
    BY <1>4, RotateEffect
  <2>2. /\ rotation[t].since \in Nat /\ rotation[t].since <= now
        /\ rotation[t].asked \in SUBSET Scopes
    BY <1>2, <1>4, TransactionFields DEF Rotate, UnderWay
  <2>3. issued'[t] # None
    BY <2>1, <2>2, <1>2, AnswerIsOne DEF MadeRow, RotatedRow
  <2>4. \A x \in Tokens : x # t => issued'[x] = issued[x]
    BY <1>2, <1>4 DEF Rotate, TypeOK
  <2>5. Dates'
    BY <2>1, <2>2, <2>3, <2>4, MadeDates DEF RotatedRow
  <2>6. UnderWay'
    <3>1. now' = now /\ rotation' = [rotation EXCEPT ![t] = None]
      BY <1>4 DEF Rotate
    <3>2. ASSUME NEW x \in Tokens, rotation'[x] # None
          PROVE  rotation'[x] = rotation[x] /\ hub_product_token'[x] = hub_product_token[x]
      <4>1. x # t /\ rotation'[x] = rotation[x]
        BY <1>2, <3>1, <3>2 DEF TypeOK
      <4>2. hub_product_token[x] = None
        BY <1>2, <3>2, <4>1 DEF UnderWay
      <4>3. x \notin Made'
        BY <2>1, <4>1, <4>2 DEF Made
      <4> QED
        BY <4>1, <4>2, <4>3 DEF Made
    <3> QED
      BY <3>1, <3>2, UnderWayKept
  <2> QED
    BY <2>1, <2>5, <2>6 DEF Base
<1>5. ASSUME NEW t \in Tokens, NEW a \in Apps, Revoke(t, a) PROVE Base'
  <2>1. /\ Made' = Made /\ TypeOK' /\ now' = now /\ \A x \in Made : RowKept(x)
        /\ t \in Made
    BY <1>5, RevokeEffect
  <2>2. issued' = issued /\ rotation' = rotation
    BY <1>5 DEF Revoke
  <2>3. Dates'
    BY <1>1, <1>2, <2>1, <2>2 DEF Dates, Made, RowKept
  <2>4. \A x \in Tokens : rotation[x] # None => hub_product_token'[x] = hub_product_token[x]
    BY <1>2, <2>1 DEF UnderWay, Made
  <2>5. UnderWay'
    BY <2>1, <2>2, <2>4, UnderWayKept
  <2> QED
    BY <2>1, <2>3, <2>5 DEF Base
<1>6. CASE Tick
  <2>1. /\ now' = now + 1 /\ hub_product_token' = hub_product_token /\ issued' = issued
        /\ rotation' = rotation
    BY <1>6 DEF Tick
  <2>2. TypeOK'
    BY <1>2, <2>1 DEF TypeOK
  <2>3. \A t \in Made : hub_product_token[t].created_at \in Nat /\ issued[t].since \in Nat
    BY FieldTypes
  <2>4. Dates'
    BY <1>2, <2>1, <2>3 DEF Dates, Made
  <2>5. UnderWay'
    BY <2>1, UnderWayKept
  <2> QED
    BY <2>2, <2>4, <2>5 DEF Base
<1>7. ASSUME NEW t \in Tokens, NEW a \in Apps, NEW asked \in SUBSET Scopes,
             NEW scopes \in SUBSET Scopes, BeginRotation(t, a, asked, scopes)
      PROVE  Base'
  <2>1. /\ hub_product_token' = hub_product_token /\ issued' = issued /\ now' = now
        /\ hub_product_token[t] = None
    BY <1>7 DEF BeginRotation
  <2> DEFINE rows == [u \in Tokens |->
                        IF u \in ActiveOf(a) THEN hub_product_token[u] ELSE None]
             txn == [app |-> a, asked |-> asked, scopes |-> scopes, since |-> now,
                     rows |-> rows]
  <2>2. rotation' = [rotation EXCEPT ![t] = txn]
    BY <1>7 DEF BeginRotation
  <2>3. rows \in [Tokens -> Row \cup {None}]
    BY <1>2 DEF TypeOK
  <2>4. \A x \in Tokens : rows[x] # None => rows[x].app = a
    BY DEF ActiveOf
  <2> HIDE DEF rows
  <2>5. txn \in Transaction
    BY <1>2, <2>3 DEF Transaction
  <2>6. /\ txn.app = a /\ txn.since = now /\ txn.rows = rows
    OBVIOUS
  <2> HIDE DEF txn
  <2>7. TypeOK'
    BY <1>2, <2>1, <2>2, <2>5 DEF TypeOK
  <2>8. Dates'
    BY <1>2, <2>1 DEF Dates, Made
  <2>9. \A x \in Tokens : rotation'[x] = IF x = t THEN txn ELSE rotation[x]
    BY <1>2, <2>2 DEF TypeOK
  <2>10. UnderWay'
    BY <1>2, <2>1, <2>4, <2>6, <2>9 DEF UnderWay
  <2> QED
    BY <2>7, <2>8, <2>10 DEF Base
<1>8. ASSUME NEW t \in Tokens, Abort(t) PROVE Base'
  <2>1. /\ hub_product_token' = hub_product_token /\ issued' = issued /\ now' = now
        /\ rotation' = [rotation EXCEPT ![t] = None]
    BY <1>8 DEF Abort
  <2>2. TypeOK' /\ Dates'
    BY <1>2, <2>1 DEF TypeOK, Dates, Made
  <2>3. \A x \in Tokens : rotation'[x] # None => rotation'[x] = rotation[x]
    BY <1>2, <2>1 DEF TypeOK
  <2>4. UnderWay'
    BY <2>1, <2>3, UnderWayKept
  <2> QED
    BY <2>2, <2>4 DEF Base
<1>9. CASE UNCHANGED vars
  BY <1>9 DEF vars, Base, TypeOK, Dates, UnderWay, Made
<1>10. CASE \E a \in Apps : RotateToken(a)
  <2>1. PICK t \in Tokens, a \in Apps, asked \in SUBSET Scopes :
          \E scopes \in IF asked = {} THEN Inherited(a) ELSE {asked} :
            BeginRotation(t, a, asked, scopes)
    BY <1>10 DEF RotateToken
  <2>2. PICK scopes \in IF asked = {} THEN Inherited(a) ELSE {asked} :
          BeginRotation(t, a, asked, scopes)
    BY <2>1
  <2>3. scopes \in SUBSET Scopes
    BY <1>2, <2>2, InheritedScopes
  <2> QED
    BY <1>7, <2>2, <2>3
<1> QED
  BY <1>3, <1>4, <1>5, <1>6, <1>8, <1>9, <1>10 DEF Next, IssueToken, RevokeToken, Look

\* Every row, answer and date has its type, and rows and answers go together.
LEMMA BaseHolds == Spec => []Base
<1>1. Init => Base
  BY TokensAssumption DEF Init, Base, TypeOK, Dates, UnderWay, Made
<1> QED
  BY <1>1, BaseKept, PTL DEF Spec

(***************************************************************************)
(* The same for any step                                                   *)
(***************************************************************************)
\* The tokens there are keep what they are; an end is only moved by a rotation,
\* which makes a token of the same app.
LEMMA Kept ==
  ASSUME Base, [Next]_vars, NEW x \in Made
  PROVE  /\ RowKept(x)
         /\ RevocationKept(x) \/ RevokedNow(x)
         /\ \/ EndKept(x)
            \/ /\ EndMoved(x)
               /\ \E u \in Made' :
                    /\ u \notin Made
                    /\ issued'[u].by = "rotate"
                    /\ hub_product_token'[u].app = hub_product_token[x].app
                    /\ hub_product_token'[u].created_at = now
                    /\ hub_product_token'[u].expires_at = now + DefaultTtl
<1>1. ASSUME NEW t \in Tokens, NEW a \in Apps, NEW scopes \in SUBSET Scopes,
             NEW ttl \in Ttls \cup {DefaultTtl}, Issue(t, a, scopes, ttl)
      PROVE  RowKept(x) /\ EndKept(x) /\ RevocationKept(x)
  BY <1>1, IssueEffect
<1>2. ASSUME NEW t \in Tokens, Rotate(t)
      PROVE  /\ RowKept(x)
             /\ \/ EndKept(x) /\ RevocationKept(x)
                \/ /\ EndMoved(x)
                   /\ t \in Made' /\ t \notin Made
                   /\ issued'[t].by = "rotate"
                   /\ hub_product_token'[t].app = hub_product_token[x].app
                   /\ hub_product_token'[t].created_at = now
                   /\ hub_product_token'[t].expires_at = now + DefaultTtl
  BY <1>2, RotateEffect, MadeFields DEF RotatedRow
<1>3. ASSUME NEW t \in Tokens, NEW a \in Apps, Revoke(t, a)
      PROVE  /\ RowKept(x) /\ EndKept(x)
             /\ RevocationKept(x) \/ RevokedNow(x)
  BY <1>3, RevokeEffect DEF RevokedNow
<1>4. CASE Quiet
  BY <1>4 DEF Quiet, RowKept, EndKept, RevocationKept, Made
<1> QED
  BY <1>1, <1>2, <1>3, <1>4, Cases DEF IssueOf, EndMoved

\* A token that was not there before is dated now, and lives as long as
\* its issuer was told.
AsMade(t) ==
  /\ hub_product_token'[t].created_at = now /\ now' = now
  /\ hub_product_token'[t].expires_at = issued'[t].expires_at
  /\ hub_product_token'[t].expires_at \in Nat
  /\ hub_product_token'[t].revoked_at = None

LEMMA Newly ==
  ASSUME Base, [Next]_vars, NEW t \in Made', t \notin Made
  PROVE  AsMade(t)
<1> USE TokensAssumption
<1>1. now \in Nat
  BY DEF Base, TypeOK
<1>2. ASSUME NEW a, NEW scopes, NEW ttl \in Nat, NEW by, NEW asked, NEW since,
             MadeRow(t, a, scopes, ttl, by, asked, since)
      PROVE  AsMade(t)
  <2>1. now' = now
    BY <1>2 DEF MadeRow
  <2> QED
    BY <1>1, <1>2, <2>1, MadeFields DEF AsMade
<1>3. ASSUME NEW y \in Tokens, NEW a \in Apps, NEW scopes \in SUBSET Scopes,
             NEW ttl \in Ttls \cup {DefaultTtl}, Issue(y, a, scopes, ttl)
      PROVE  AsMade(t)
  <2>1. MadeRow(y, a, scopes, ttl, "issue", scopes, now) /\ Made' = Made \cup {y}
    BY <1>3, IssueEffect
  <2>2. t = y /\ ttl \in Nat
    BY <2>1
  <2> QED
    BY <1>2, <2>1, <2>2
<1>4. ASSUME NEW y \in Tokens, Rotate(y)
      PROVE  AsMade(t)
  <2>1. RotatedRow(y) /\ Made' = Made \cup {y}
    BY <1>4, RotateEffect
  <2>2. t = y
    BY <2>1
  <2> QED
    BY <1>2, <2>1, <2>2 DEF RotatedRow
<1>5. ASSUME NEW y \in Tokens, NEW a \in Apps, Revoke(y, a)
      PROVE  AsMade(t)
  BY <1>5, RevokeEffect
<1>6. CASE Quiet
  BY <1>6 DEF Quiet, Made
<1> QED
  BY <1>3, <1>4, <1>5, <1>6, Cases DEF IssueOf

(***************************************************************************)
(* Rotations                                                               *)
(***************************************************************************)
\* Of two rotations that cut one token only the first moves its end; the
\* second finds it within the overlap.
LEMMA KeepsItsTimeKept ==
  ASSUME Base, KeepsItsTime, [Next]_vars
  PROVE  KeepsItsTime'
<1> USE TokensAssumption
<1>1. ASSUME NEW t \in Made', t \notin Made
      PROVE  /\ hub_product_token'[t].expires_at = issued'[t].expires_at
             /\ hub_product_token'[t].expires_at <= issued'[t].expires_at
  BY <1>1, Newly DEF AsMade
<1>2. ASSUME NEW t \in Made, EndKept(t)
      PROVE  /\ hub_product_token'[t].expires_at <= issued'[t].expires_at
             /\ \/ hub_product_token'[t].expires_at = issued'[t].expires_at
                \/ \E u \in Made' :
                     /\ issued'[u].by = "rotate"
                     /\ hub_product_token'[u].app = hub_product_token'[t].app
                     /\ hub_product_token'[u].created_at >= hub_product_token'[t].created_at
                     /\ hub_product_token'[t].expires_at
                          = hub_product_token'[u].created_at + Overlap
  <2>1. RowKept(t) /\ hub_product_token[t].expires_at <= issued[t].expires_at
    BY Kept DEF KeepsItsTime
  <2>2. CASE hub_product_token[t].expires_at = issued[t].expires_at
    BY <1>2, <2>1, <2>2 DEF RowKept, EndKept
  <2>3. CASE hub_product_token[t].expires_at # issued[t].expires_at
    <3>1. PICK u \in Made :
            /\ issued[u].by = "rotate"
            /\ hub_product_token[u].app = hub_product_token[t].app
            /\ hub_product_token[u].created_at >= hub_product_token[t].created_at
            /\ hub_product_token[t].expires_at = hub_product_token[u].created_at + Overlap
      BY <2>3 DEF KeepsItsTime
    <3>2. RowKept(u)
      BY Kept
    <3> QED
      BY <1>2, <2>1, <3>1, <3>2 DEF RowKept, EndKept
  <2> QED
    BY <2>2, <2>3
<1>3. ASSUME NEW t \in Made, ~EndKept(t)
      PROVE  /\ hub_product_token'[t].expires_at <= issued'[t].expires_at
             /\ \E u \in Made' :
                  /\ issued'[u].by = "rotate"
                  /\ hub_product_token'[u].app = hub_product_token'[t].app
                  /\ hub_product_token'[u].created_at >= hub_product_token'[t].created_at
                  /\ hub_product_token'[t].expires_at
                       = hub_product_token'[u].created_at + Overlap
  <2>1. RowKept(t) /\ EndMoved(t)
    BY <1>3, Kept
  <2>2. PICK u \in Made' :
          /\ issued'[u].by = "rotate"
          /\ hub_product_token'[u].app = hub_product_token[t].app
          /\ hub_product_token'[u].created_at = now
    BY <1>3, Kept
  <2>3. hub_product_token[t].expires_at <= issued[t].expires_at
    BY DEF KeepsItsTime
  <2> QED
    BY <2>1, <2>2, <2>3, FieldTypes DEF RowKept, EndMoved
<1> QED
  BY <1>1, <1>2, <1>3 DEF KeepsItsTime

\* The old tokens of an app that rotates stay usable for the overlap, through
\* any number of rotations, issues and revocations of others.
THEOREM OverlapHonoured == Spec => []KeepsItsTime
<1>1. Init => KeepsItsTime
  BY DEF Init, KeepsItsTime, Made
<1> QED
  BY <1>1, KeepsItsTimeKept, BaseHolds, PTL DEF Spec

\* The heir of a token outlives it: when a rotation cuts the heir, too, it
\* leaves it the overlap from then, which is later.
LEMMA HasHeirKept ==
  ASSUME Base, HasHeir, [Next]_vars
  PROVE  HasHeir'
<1> USE TokensAssumption
<1>1. ASSUME NEW t \in Made, EndKept(t),
             hub_product_token'[t].expires_at # issued'[t].expires_at
      PROVE  \E u \in Made' :
        /\ u # t /\ hub_product_token'[u].app = hub_product_token'[t].app
        /\ hub_product_token'[u].created_at + Overlap >= hub_product_token'[t].expires_at
        /\ \/ hub_product_token'[u].revoked_at # None
           \/ hub_product_token'[u].expires_at >= hub_product_token'[t].expires_at
  <2>1. RowKept(t) /\ hub_product_token[t].expires_at # issued[t].expires_at
    BY <1>1, Kept DEF RowKept, EndKept
  <2>2. PICK u \in Made :
          /\ u # t /\ hub_product_token[u].app = hub_product_token[t].app
          /\ hub_product_token[u].created_at + Overlap >= hub_product_token[t].expires_at
          /\ \/ hub_product_token[u].revoked_at # None
             \/ hub_product_token[u].expires_at >= hub_product_token[t].expires_at
    BY <2>1 DEF HasHeir
  <2>3. /\ RowKept(u) /\ u \in Made'
        /\ RevocationKept(u) \/ RevokedNow(u)
        /\ EndKept(u) \/ EndMoved(u)
    BY Kept DEF RowKept
  <2>4. now \in Nat
    BY DEF Base, TypeOK
  <2>5. hub_product_token[u].revoked_at # None => hub_product_token'[u].revoked_at # None
    BY <2>3, <2>4 DEF RevocationKept, RevokedNow
  <2>6. hub_product_token[u].expires_at >= hub_product_token[t].expires_at
          => hub_product_token'[u].expires_at >= hub_product_token'[t].expires_at
    BY <1>1, <2>2, <2>3, FieldTypes DEF EndKept, EndMoved
  <2> QED
    BY <1>1, <2>1, <2>2, <2>3, <2>5, <2>6 DEF RowKept, EndKept
<1>2. ASSUME NEW t \in Made, ~EndKept(t)
      PROVE  \E u \in Made' :
        /\ u # t /\ hub_product_token'[u].app = hub_product_token'[t].app
        /\ hub_product_token'[u].created_at + Overlap >= hub_product_token'[t].expires_at
        /\ hub_product_token'[u].expires_at >= hub_product_token'[t].expires_at
  <2>1. RowKept(t) /\ EndMoved(t)
    BY <1>2, Kept
  <2>2. PICK u \in Made' :
          /\ u \notin Made
          /\ hub_product_token'[u].app = hub_product_token[t].app
          /\ hub_product_token'[u].created_at = now
          /\ hub_product_token'[u].expires_at = now + DefaultTtl
    BY <1>2, Kept
  <2> QED
    BY <2>1, <2>2, FieldTypes DEF RowKept, EndMoved
<1>3. ASSUME NEW t \in Made', t \notin Made
      PROVE  hub_product_token'[t].expires_at = issued'[t].expires_at
  BY <1>3, Newly DEF AsMade
<1> QED
  BY <1>1, <1>2, <1>3 DEF HasHeir

\* A rotation never leaves an app with tokens that end and none that goes on:
\* the shortening and the new token come together.
THEOREM RotationLeavesAnHeir == Spec => []HasHeir
<1>1. Init => HasHeir
  BY DEF Init, HasHeir, Made
<1> QED
  BY <1>1, HasHeirKept, BaseHolds, PTL DEF Spec

(***************************************************************************)
(* Scopes                                                                  *)
(***************************************************************************)
\* A token that is there after the step and says it was made by a rotation
\* was made by this one.
LEMMA NewlyRotated ==
  ASSUME Base, [Next]_vars, NEW t \in Made', t \notin Made, issued'[t].by = "rotate"
  PROVE  Rotate(t) /\ RotatedRow(t)
<1>1. ASSUME NEW y \in Tokens, NEW a \in Apps, NEW scopes \in SUBSET Scopes,
             NEW ttl \in Ttls \cup {DefaultTtl}, Issue(y, a, scopes, ttl)
      PROVE  FALSE
  <2>1. MadeRow(y, a, scopes, ttl, "issue", scopes, now) /\ Made' = Made \cup {y}
    BY <1>1, IssueEffect
  <2> QED
    BY <2>1, MadeFields
<1>2. ASSUME NEW y \in Tokens, Rotate(y)
      PROVE  t = y /\ RotatedRow(y)
  BY <1>2, RotateEffect
<1>3. ASSUME NEW y \in Tokens, NEW a \in Apps, Revoke(y, a)
      PROVE  FALSE
  BY <1>3, RevokeEffect
<1>4. CASE Quiet
  BY <1>4 DEF Quiet, Made
<1> QED
  BY <1>1, <1>2, <1>3, <1>4, Cases DEF IssueOf

\* A rotation that is under way after a step was so before, or begins with it.
LEMMA RotationKept ==
  ASSUME Base, [Next]_vars, NEW t \in Tokens, rotation'[t] # None
  PROVE  \/ rotation[t] # None /\ rotation'[t] = rotation[t]
         \/ /\ UNCHANGED <<hub_product_token, now>>
            /\ rotation'[t].app \in Apps /\ rotation'[t].since = now
            /\ rotation'[t].asked = {} => rotation'[t].scopes \in Inherited(rotation'[t].app)
            /\ rotation'[t].asked # {} => rotation'[t].scopes = rotation'[t].asked
<1>1. rotation \in [Tokens -> Transaction \cup {None}]
  BY DEF Base, TypeOK
<1>2. CASE rotation' = rotation
  BY <1>2
<1>3. CASE \E x \in Tokens : rotation' = [rotation EXCEPT ![x] = None]
  BY <1>1, <1>3
<1>4. ASSUME NEW a \in Apps, NEW x \in Tokens, NEW asked \in SUBSET Scopes,
             NEW scopes \in IF asked = {} THEN Inherited(a) ELSE {asked},
             BeginRotation(x, a, asked, scopes)
      PROVE  \/ rotation[t] # None /\ rotation'[t] = rotation[t]
             \/ /\ UNCHANGED <<hub_product_token, now>>
                /\ rotation'[t].app = a /\ rotation'[t].since = now
                /\ rotation'[t].asked = asked /\ rotation'[t].scopes = scopes
  BY <1>1, <1>4 DEF BeginRotation
<1>5. CASE \E a \in Apps : RotateToken(a)
  BY <1>4, <1>5 DEF RotateToken
<1> QED
  BY <1>2, <1>3, <1>5
     DEF Next, vars, IssueToken, Issue, RevokeToken, Revoke, Rotate, Abort, Look, Tick

\* Token u of app a, with these scopes, worked at time `at`.
Worked(u, a, scopes, at) ==
  /\ u \in Made
  /\ hub_product_token[u].app = a /\ hub_product_token[u].scopes = scopes
  /\ hub_product_token[u].created_at <= at
  /\ hub_product_token[u].expires_at > at
  /\ \/ hub_product_token[u].revoked_at = None
     \/ hub_product_token[u].revoked_at >= at

\* That it worked at a time gone by remains so: an end that is moved, and a
\* revocation, are not before the present.
LEMMA WorkedKept ==
  ASSUME Base, [Next]_vars, NEW u, NEW a, NEW scopes, NEW at \in Nat, at <= now,
         Worked(u, a, scopes, at)
  PROVE  Worked(u, a, scopes, at)'
<1> USE TokensAssumption
<1>1. /\ RowKept(u)
      /\ RevocationKept(u) \/ RevokedNow(u)
      /\ EndKept(u) \/ EndMoved(u)
  BY Kept DEF Worked
<1>2. now \in Nat
  BY DEF Base, TypeOK
<1>3. hub_product_token'[u].expires_at > at
  BY <1>1, <1>2 DEF EndKept, EndMoved, Worked
<1>4. \/ hub_product_token'[u].revoked_at = None
      \/ hub_product_token'[u].revoked_at >= at
  BY <1>1, <1>2 DEF RevocationKept, RevokedNow, Worked
<1> QED
  BY <1>1, <1>3, <1>4 DEF RowKept, Worked

\* The scopes a rotation under way will hand on are those of a token that worked
\* when it began.
WillInherit ==
  \A t \in Tokens :
    rotation[t] # None /\ rotation[t].asked = {} /\ rotation[t].scopes # {} =>
      \E u \in Made : Worked(u, rotation[t].app, rotation[t].scopes, rotation[t].since)

\* Rotations begin with an active token's scopes, and keep them until they end.
LEMMA WillInheritKept ==
  ASSUME Base, WillInherit, [Next]_vars
  PROVE  WillInherit'
<1> SUFFICES ASSUME NEW t \in Tokens, rotation'[t] # None, rotation'[t].asked = {},
                    rotation'[t].scopes # {}
             PROVE  \E u \in Made' : Worked(u, rotation[t].app, rotation[t].scopes,
                                            rotation[t].since)'
  BY DEF WillInherit
<1>1. CASE rotation[t] # None /\ rotation'[t] = rotation[t]
  <2>1. PICK u \in Made :
          Worked(u, rotation[t].app, rotation[t].scopes, rotation[t].since)
    BY <1>1 DEF WillInherit
  <2>2. rotation[t].since \in Nat /\ rotation[t].since <= now
    BY <1>1, TransactionFields DEF Base, UnderWay
  <2> QED
    BY <1>1, <2>1, <2>2, WorkedKept DEF Worked
<1>2. CASE /\ UNCHANGED <<hub_product_token, now>>
           /\ rotation'[t].since = now
           /\ rotation'[t].asked = {} => rotation'[t].scopes \in Inherited(rotation'[t].app)
  <2>1. PICK u \in ActiveOf(rotation'[t].app) :
          hub_product_token[u].scopes = rotation'[t].scopes
    BY <1>2 DEF Inherited
  <2>2. /\ u \in Made /\ hub_product_token[u].app = rotation'[t].app
        /\ hub_product_token[u].revoked_at = None /\ hub_product_token[u].expires_at > now
    BY <2>1 DEF ActiveOf, Active, Made
  <2>3. hub_product_token[u].created_at <= now
    BY <2>2, FieldTypes
  <2> QED
    BY <1>2, <2>1, <2>2, <2>3 DEF Worked, Made
<1> QED
  BY <1>1, <1>2, RotationKept

\* A token has the scopes its rotation was under way with.
LEMMA InheritsKept ==
  ASSUME Base, WillInherit, InheritsFromTheLiving, [Next]_vars
  PROVE  InheritsFromTheLiving'
<1> USE TokensAssumption
<1>1. ASSUME NEW t \in Made, issued[t].by = "rotate", issued[t].scopes = {},
             hub_product_token[t].scopes # {}
      PROVE  \E u \in Made' :
        /\ u # t /\ hub_product_token'[u].app = hub_product_token[t].app
        /\ hub_product_token'[u].scopes = hub_product_token[t].scopes
        /\ hub_product_token'[u].created_at <= issued[t].since
        /\ hub_product_token'[u].expires_at > issued[t].since
        /\ \/ hub_product_token'[u].revoked_at = None
           \/ hub_product_token'[u].revoked_at >= issued[t].since
  <2>1. PICK u \in Made :
          /\ u # t
          /\ Worked(u, hub_product_token[t].app, hub_product_token[t].scopes,
                    issued[t].since)
    BY <1>1 DEF InheritsFromTheLiving, Worked
  <2>2. issued[t].since \in Nat /\ issued[t].since <= now
    BY FieldTypes
  <2> QED
    BY <2>1, <2>2, WorkedKept DEF Worked
<1>2. ASSUME NEW t \in Made', t \notin Made, issued'[t].by = "rotate", issued'[t].scopes = {},
             hub_product_token'[t].scopes # {}
      PROVE  \E u \in Made' :
        /\ u # t /\ hub_product_token'[u].app = hub_product_token'[t].app
        /\ hub_product_token'[u].scopes = hub_product_token'[t].scopes
        /\ hub_product_token'[u].created_at <= issued'[t].since
        /\ hub_product_token'[u].expires_at > issued'[t].since
        /\ \/ hub_product_token'[u].revoked_at = None
           \/ hub_product_token'[u].revoked_at >= issued'[t].since
  <2>1. Rotate(t) /\ RotatedRow(t)
    BY <1>2, NewlyRotated
  <2>2. /\ hub_product_token'[t].app = rotation[t].app
        /\ hub_product_token'[t].scopes = rotation[t].scopes
        /\ issued'[t].scopes = rotation[t].asked
        /\ issued'[t].since = rotation[t].since
    BY <2>1, MadeFields DEF RotatedRow
  <2>3. t \in Tokens /\ rotation[t] # None
    BY <2>1 DEF Made, Rotate
  <2>4. PICK u \in Made :
          Worked(u, rotation[t].app, rotation[t].scopes, rotation[t].since)
    BY <1>2, <2>2, <2>3 DEF WillInherit
  <2>5. rotation[t].since \in Nat /\ rotation[t].since <= now
    BY <2>3, TransactionFields DEF Base, UnderWay
  <2> QED
    BY <1>2, <2>2, <2>4, <2>5, WorkedKept DEF Worked
<1> QED
  BY <1>1, <1>2, Kept DEF InheritsFromTheLiving, RowKept

\* Scopes are handed on by working tokens only, however rotations, revocations
\* and expiries come together.
THEOREM ScopesFromTheLiving == Spec => []InheritsFromTheLiving
<1>1. Init => WillInherit /\ InheritsFromTheLiving
  BY DEF Init, WillInherit, InheritsFromTheLiving, Made
<1> QED
  BY <1>1, WillInheritKept, InheritsKept, BaseHolds, PTL DEF Spec

\* Token w of app a could do nothing, and was made between two times.
Powerless(w, a, from, to) ==
  /\ w \in Made
  /\ hub_product_token[w].app = a /\ hub_product_token[w].scopes = {}
  /\ from <= hub_product_token[w].created_at /\ hub_product_token[w].created_at <= to

\* Token u of app a, made before time `at`, worked then and is not revoked.
Working(u, a, at) ==
  /\ hub_product_token[u].app = a
  /\ hub_product_token[u].created_at < at
  /\ hub_product_token[u].expires_at > at
  /\ hub_product_token[u].revoked_at = None

\* Nothing that happens later makes a token look as if it had worked before.
LEMMA WorkingBefore ==
  ASSUME Base, [Next]_vars, NEW u \in Made', NEW a, NEW at \in Nat, at <= now,
         Working(u, a, at)'
  PROVE  /\ u \in Made /\ Working(u, a, at)
         /\ hub_product_token'[u].created_at = hub_product_token[u].created_at
<1> USE TokensAssumption
<1>1. now \in Nat
  BY DEF Base, TypeOK
<1>2. u \in Made
  BY <1>1, Newly DEF AsMade, Working
<1>3. /\ RowKept(u)
      /\ RevocationKept(u) \/ RevokedNow(u)
      /\ EndKept(u) \/ EndMoved(u)
  BY <1>2, Kept
<1>4. hub_product_token[u].revoked_at = None
  BY <1>1, <1>3 DEF RevocationKept, RevokedNow, Working
<1>5. hub_product_token[u].expires_at > at
  BY <1>1, <1>2, <1>3, FieldTypes DEF EndKept, EndMoved, Working
<1> QED
  BY <1>2, <1>3, <1>4, <1>5 DEF RowKept, Working

\* A token that could do nothing stays one.
LEMMA PowerlessStays ==
  ASSUME Base, [Next]_vars, NEW w, NEW a, NEW from, NEW to, Powerless(w, a, from, to)
  PROVE  Powerless(w, a, from, to)'
<1>1. w \in Made
  BY DEF Powerless
<1>2. RowKept(w)
  BY <1>1, Kept
<1> QED
  BY <1>2 DEF RowKept, Powerless

\* A rotation under way will make a token without scopes for a reason only.
WillBePowerless ==
  \A t \in Tokens, u \in Made :
    /\ rotation[t] # None /\ rotation[t].scopes = {}
    /\ Working(u, rotation[t].app, rotation[t].since)
    => \E w \in Made : Powerless(w, rotation[t].app, hub_product_token[u].created_at,
                                 rotation[t].since)

\* It inherits nothing when it begins, with none working, or from one such.
LEMMA WillBePowerlessKept ==
  ASSUME Base, WillBePowerless, [Next]_vars
  PROVE  WillBePowerless'
<1> SUFFICES ASSUME NEW t \in Tokens, NEW u \in Made',
                    rotation'[t] # None, rotation'[t].scopes = {},
                    Working(u, rotation[t].app, rotation[t].since)'
             PROVE  \E w \in Made' :
                      Powerless(w, rotation[t].app, hub_product_token[u].created_at,
                                rotation[t].since)'
  BY DEF WillBePowerless
<1>1. CASE rotation[t] # None /\ rotation'[t] = rotation[t]
  <2>1. rotation[t].since \in Nat /\ rotation[t].since <= now
    BY <1>1, TransactionFields DEF Base, UnderWay
  <2>2. /\ u \in Made /\ Working(u, rotation[t].app, rotation[t].since)
        /\ hub_product_token'[u].created_at = hub_product_token[u].created_at
    BY <1>1, <2>1, WorkingBefore DEF Working
  <2>3. PICK w \in Made : Powerless(w, rotation[t].app, hub_product_token[u].created_at,
                                    rotation[t].since)
    BY <1>1, <2>2 DEF WillBePowerless
  <2> QED
    BY <1>1, <2>2, <2>3, PowerlessStays DEF Powerless
<1>2. CASE /\ UNCHANGED <<hub_product_token, now>>
           /\ rotation'[t].since = now
           /\ rotation'[t].scopes \in Inherited(rotation'[t].app)
  <2>1. u \in ActiveOf(rotation'[t].app)
    BY <1>2 DEF Working, ActiveOf, Active, Made
  <2>2. PICK w \in ActiveOf(rotation'[t].app) :
          /\ hub_product_token[w].scopes = {}
          /\ hub_product_token[u].created_at <= hub_product_token[w].created_at
    BY <1>2, <2>1 DEF Inherited
  <2>3. w \in Made /\ hub_product_token[w].app = rotation'[t].app
    BY <2>2 DEF ActiveOf, Active, Made
  <2>4. hub_product_token[w].created_at <= now
    BY <2>3, FieldTypes
  <2> QED
    BY <1>2, <2>2, <2>3, <2>4 DEF Powerless, Made
<1> QED
  BY <1>1, <1>2, RotationKept

\* The reason there is for a rotation under way is one for the token it makes.
LEMMA PowerlessKept ==
  ASSUME Base, WillBePowerless, PowerlessForAReason, [Next]_vars
  PROVE  PowerlessForAReason'
<1> SUFFICES ASSUME NEW t \in Made', NEW u \in Made',
                    issued'[t].by = "rotate", hub_product_token'[t].scopes = {},
                    Working(u, hub_product_token[t].app, issued[t].since)'
             PROVE  \E w \in Made' :
                      w # t /\ Powerless(w, hub_product_token[t].app,
                                         hub_product_token[u].created_at, issued[t].since)'
  BY DEF PowerlessForAReason, Working, Powerless
<1>1. CASE t \in Made
  <2>1. RowKept(t) /\ issued[t].since \in Nat /\ issued[t].since <= now
    BY <1>1, Kept, FieldTypes
  <2>2. /\ u \in Made /\ Working(u, hub_product_token[t].app, issued[t].since)
        /\ hub_product_token'[u].created_at = hub_product_token[u].created_at
    BY <2>1, WorkingBefore DEF Working, RowKept
  <2>3. PICK w \in Made :
          w # t /\ Powerless(w, hub_product_token[t].app,
                             hub_product_token[u].created_at, issued[t].since)
    BY <1>1, <2>1, <2>2 DEF PowerlessForAReason, Working, Powerless, RowKept
  <2> QED
    BY <2>1, <2>2, <2>3, PowerlessStays DEF Powerless, RowKept
<1>2. CASE t \notin Made
  <2>1. Rotate(t) /\ RotatedRow(t)
    BY <1>2, NewlyRotated
  <2>2. /\ hub_product_token'[t].app = rotation[t].app
        /\ hub_product_token'[t].scopes = rotation[t].scopes
        /\ issued'[t].since = rotation[t].since
    BY <2>1, MadeFields DEF RotatedRow
  <2>3. t \in Tokens /\ rotation[t] # None
    BY <2>1 DEF Made, Rotate
  <2>4. rotation[t].since \in Nat /\ rotation[t].since <= now
    BY <2>3, TransactionFields DEF Base, UnderWay
  <2>5. /\ u \in Made /\ Working(u, rotation[t].app, rotation[t].since)
        /\ hub_product_token'[u].created_at = hub_product_token[u].created_at
    BY <2>2, <2>4, WorkingBefore DEF Working
  <2>6. PICK w \in Made : Powerless(w, rotation[t].app, hub_product_token[u].created_at,
                                    rotation[t].since)
    BY <2>2, <2>3, <2>5 DEF WillBePowerless
  <2> QED
    BY <1>2, <2>2, <2>5, <2>6, PowerlessStays DEF Powerless
<1> QED
  BY <1>1, <1>2

\* A rotation that names no scopes does not take an app's away.
THEOREM PowerKept == Spec => []PowerlessForAReason
<1>1. Init => WillBePowerless /\ PowerlessForAReason
  BY DEF Init, WillBePowerless, PowerlessForAReason, Made
<1> QED
  BY <1>1, WillBePowerlessKept, PowerlessKept, BaseHolds, PTL DEF Spec

(***************************************************************************)
(* One life                                                                *)
(***************************************************************************)
\* The app and scopes of a row, as TokenLife has them.
LEMMA GrantOf ==
  ASSUME Base, NEW t \in Tokens
  PROVE  /\ t \in Made => grant[t] = [app |-> hub_product_token[t].app,
                                      scopes |-> hub_product_token[t].scopes]
         /\ t \notin Made => grant[t] = None
BY DEF grant

\* A token that is made with time to live lives, and nothing happens to others:
\* an end that is moved is still to come.
LEMMA MakeLives ==
  ASSUME Base, NEW t \in Tokens, NEW a \in Apps, NEW scopes \in SUBSET Scopes,
         NEW ttl \in Nat, NEW by, NEW asked, NEW since,
         MadeRow(t, a, scopes, ttl, by, asked, since), Made' = Made \cup {t},
         \A x \in Made : RowKept(x) /\ RevocationKept(x) /\ (EndKept(x) \/ EndMoved(x))
  PROVE  Life!LifeNext
<1> USE TokensAssumption
<1> DEFINE g == [app |-> a, scopes |-> scopes]
           l == IF ttl = 0 THEN "dead" ELSE "live"
<1>1. /\ now' = now /\ now \in Nat /\ t \notin Made /\ t \in Made'
      /\ hub_product_token'[t].app = a /\ hub_product_token'[t].scopes = scopes
      /\ hub_product_token'[t].expires_at = now + ttl
      /\ hub_product_token'[t].revoked_at = None
  BY MadeFields DEF MadeRow, Base, TypeOK
<1>2. ASSUME NEW x \in Made PROVE Active(x)' <=> Active(x)
  <2>1. RowKept(x) /\ RevocationKept(x) /\ (EndKept(x) \/ EndMoved(x)) /\ x \in Made'
    BY DEF RowKept
  <2>2. hub_product_token'[x].expires_at > now <=> hub_product_token[x].expires_at > now
    BY <1>1, <2>1, FieldTypes DEF EndKept, EndMoved
  <2> QED
    BY <1>1, <2>1, <2>2 DEF Active, Made, RevocationKept
<1>3. Active(t)' <=> ttl # 0
  BY <1>1 DEF Active, Made
<1>4. life' = [life EXCEPT ![t] = l]
  <2>1. ASSUME NEW x \in Tokens PROVE life'[x] = IF x = t THEN l ELSE life[x]
    <3>1. CASE x = t
      BY <1>1, <1>3, <3>1 DEF life
    <3>2. CASE x # t /\ x \in Made
      BY <1>1, <1>2, <3>2 DEF life
    <3>3. CASE x # t /\ x \notin Made
      BY <1>1, <3>3, Made' = Made \cup {t} DEF life
    <3> QED
      BY <3>1, <3>2, <3>3
  <2>2. life' = [x \in Tokens |-> life'[x]] /\ life = [x \in Tokens |-> life[x]]
    BY DEF life
  <2> QED
    BY <2>1, <2>2
<1>5. grant' = [grant EXCEPT ![t] = g]
  <2>1. ASSUME NEW x \in Tokens PROVE grant'[x] = IF x = t THEN g ELSE grant[x]
    <3>1. CASE x = t
      BY <1>1, <3>1 DEF grant
    <3>2. CASE x # t /\ x \in Made
      BY <1>1, <3>2 DEF grant, RowKept
    <3>3. CASE x # t /\ x \notin Made
      BY <1>1, <3>3, Made' = Made \cup {t} DEF grant
    <3> QED
      BY <3>1, <3>2, <3>3
  <2>2. grant' = [x \in Tokens |-> grant'[x]] /\ grant = [x \in Tokens |-> grant[x]]
    BY DEF grant
  <2> QED
    BY <2>1, <2>2
<1>6. life[t] = "unborn"
  BY <1>1 DEF life
<1>7. g \in Life!Grant /\ l \in {"live", "dead"}
  BY DEF Life!Grant
<1>8. Life!Make(t, g, l)
  BY <1>4, <1>5, <1>6 DEF Life!Make
<1> QED
  BY <1>7, <1>8 DEF Life!LifeNext

\* Where only tokens stop working, that is a step of TokenLife.
LEMMA StopLives ==
  ASSUME Base, Made' = Made,
         \A x \in Made : /\ Active(x)' => Active(x)
                         /\ hub_product_token'[x].app = hub_product_token[x].app
                         /\ hub_product_token'[x].scopes = hub_product_token[x].scopes
  PROVE  Life!LifeNext
<1> DEFINE stopped == {x \in Made : Active(x) /\ ~Active(x)'}
<1>1. \A x \in stopped : life[x] = "live"
  BY DEF life, Made
<1>2. life' = [x \in Tokens |-> IF x \in stopped THEN "dead" ELSE life[x]]
  <2>1. ASSUME NEW x \in Tokens
        PROVE  life'[x] = IF x \in stopped THEN "dead" ELSE life[x]
    BY DEF life
  <2>2. life' = [x \in Tokens |-> life'[x]]
    BY DEF life
  <2> QED
    BY <2>1, <2>2
<1>3. grant' = grant
  <2>1. ASSUME NEW x \in Tokens PROVE grant'[x] = grant[x]
    BY DEF grant
  <2>2. grant' = [x \in Tokens |-> grant'[x]] /\ grant = [x \in Tokens |-> grant[x]]
    BY DEF grant
  <2> QED
    BY <2>1, <2>2
<1>4. stopped \in SUBSET Tokens
  BY DEF Made
<1> HIDE DEF stopped
<1>5. Life!Stop(stopped)
  BY <1>1, <1>2, <1>3 DEF Life!Stop
<1> QED
  BY <1>4, <1>5 DEF Life!LifeNext

\* Every step of the server is one of the abstract token's, or none.
LEMMA StepLives ==
  ASSUME Base, [Next]_vars
  PROVE  [Life!LifeNext]_Life!lifeVars
<1> USE TokensAssumption
<1>1. ASSUME NEW t \in Tokens, NEW a \in Apps, NEW scopes \in SUBSET Scopes,
             NEW ttl \in Ttls \cup {DefaultTtl}, Issue(t, a, scopes, ttl)
      PROVE  Life!LifeNext
  <2>1. ttl \in Nat
    OBVIOUS
  <2>2. /\ MadeRow(t, a, scopes, ttl, "issue", scopes, now)
        /\ Made' = Made \cup {t}
        /\ \A x \in Made : RowKept(x) /\ RevocationKept(x) /\ (EndKept(x) \/ EndMoved(x))
    BY <1>1, IssueEffect
  <2> QED
    BY <2>1, <2>2, MakeLives
<1>2. ASSUME NEW t \in Tokens, Rotate(t)
      PROVE  Life!LifeNext
  <2>1. /\ RotatedRow(t)
        /\ Made' = Made \cup {t}
        /\ \A x \in Made : RowKept(x) /\ RevocationKept(x) /\ (EndKept(x) \/ EndMoved(x))
    BY <1>2, RotateEffect DEF EndMoved
  <2>2. /\ DefaultTtl \in Nat
        /\ rotation[t].app \in Apps /\ rotation[t].scopes \in SUBSET Scopes
    BY <1>2, TransactionFields DEF Base, Rotate
  <2> QED
    BY <2>1, <2>2, MakeLives DEF RotatedRow
<1>3. ASSUME NEW t \in Tokens, NEW a \in Apps, Revoke(t, a)
      PROVE  Life!LifeNext
  <2>1. /\ t \in Made /\ Made' = Made /\ now' = now
        /\ RowKept(t) /\ RevokedNow(t)
        /\ \A x \in Made : x # t => RowKept(x) /\ EndKept(x) /\ RevocationKept(x)
    BY <1>3, RevokeEffect
  <2>2. ASSUME NEW x \in Made
        PROVE  /\ Active(x)' => Active(x)
               /\ hub_product_token'[x].app = hub_product_token[x].app
               /\ hub_product_token'[x].scopes = hub_product_token[x].scopes
    BY <2>1 DEF Active, Made, RowKept, EndKept, RevocationKept, RevokedNow
  <2> QED
    BY <2>1, <2>2, StopLives
<1>4. CASE Quiet
  <2>1. now' \in {now, now + 1} /\ hub_product_token' = hub_product_token /\ Made' = Made
        /\ now \in Nat
    BY <1>4 DEF Quiet, Made, Base, TypeOK
  <2>2. ASSUME NEW x \in Made
        PROVE  /\ Active(x)' => Active(x)
               /\ hub_product_token'[x].app = hub_product_token[x].app
               /\ hub_product_token'[x].scopes = hub_product_token[x].scopes
    BY <2>1, FieldTypes DEF Active
  <2> QED
    BY <2>1, <2>2, StopLives
<1> QED
  BY <1>1, <1>2, <1>3, <1>4, Cases DEF IssueOf

\* A token that has stopped working never works again, and is always for the
\* app and scopes it was made for.
THEOREM TokensLiveOnce == Spec => LivesOnce
<1>1. Init => Life!LifeInit
  BY DEF Init, Life!LifeInit, life, grant, Made
<1> QED
  BY <1>1, StepLives, BaseHolds, PTL DEF Spec, LivesOnce, Life!LifeSpec

\* The types of the rows, the answers and the clock.
THEOREM TypesHold == Spec => []TypeOK
BY BaseHolds, PTL DEF Base
=============================================================================
