---------------------------- MODULE SessionProofs ----------------------------
(* Theorems about the browser sessions of Identity, for every value of the   *)
(* constants.                                                                *)
EXTENDS Identity, FiniteSetTheorems, TLAPS

\* The component's own copy of FiniteSets is the library's.
LEMMA SessionSets ==
  ASSUME NEW S
  PROVE  (Sessions!IsFiniteSet(S) <=> IsFiniteSet(S)) /\ Sessions!Cardinality(S) = Cardinality(S)
BY DEF Sessions!IsFiniteSet, IsFiniteSet, Sessions!Cardinality, Cardinality


\* A token is a family and a generation.
LEMMA TokenParts ==
  ASSUME Sessions!SessionAssumption, NEW t \in Sessions!Tokens
  PROVE  /\ Sessions!Family(t) \in Families /\ Sessions!Generation(t) \in Nat
     /\ Sessions!Generation(t) <= MaxGeneration
         /\ t = <<Sessions!Family(t), Sessions!Generation(t)>> /\ t # Sessions!NoToken
<1>1. PICK f \in Families, g \in Sessions!Generations : t = <<f, g>> BY DEF Sessions!Tokens
<1>2. t[1] = f /\ t[2] = g BY <1>1
<1>3. g \in Nat /\ g <= MaxGeneration BY DEF Sessions!Generations, Sessions!SessionAssumption
<1> QED BY <1>1, <1>2, <1>3 DEF Sessions!Family, Sessions!Generation, Sessions!NoToken

\* A token is a family and a generation.
LEMMA TokenOf ==
  ASSUME Sessions!SessionAssumption, NEW f \in Families, NEW g \in Sessions!Generations
  PROVE  <<f, g>> \in Sessions!Tokens /\ Sessions!Family(<<f, g>>) = f
     /\ Sessions!Generation(<<f, g>>) = g
BY DEF Sessions!Tokens, Sessions!Family, Sessions!Generation

\* The empty row, and the fields of a row.
LEMMA EmptyRow == ASSUME Sessions!SessionAssumption PROVE Sessions!NoRow \in Sessions!Row
   /\ Sessions!NoMember \in Holders
<1>1. Sessions!NoMember \in Holders BY DEF Sessions!NoMember, Sessions!SessionAssumption
<1>2. 0 \in Sessions!Times /\ 0 \in 0..(SessionTime + SessionLifetime)
  BY DEF Sessions!Times, Sessions!SessionAssumption
<1> QED BY <1>1, <1>2 DEF Sessions!NoRow, Sessions!Row, Sessions!Marks

\* The fields of a session row.
LEMMA RowFields ==
  ASSUME Sessions!SessionAssumption, NEW r \in Sessions!Row
  PROVE  /\ r.member \in Holders /\ r.issued \in Nat /\ r.seen \in Nat /\ r.expires \in Nat
         /\ r.issued \in Sessions!Times /\ r.seen \in Sessions!Times
         /\ r.replaced \in Sessions!Marks /\ r.revoked \in Sessions!Marks
         /\ r.expires \in 0..(SessionTime + SessionLifetime)
BY DEF Sessions!Row, Sessions!Times, Sessions!SessionAssumption

\* A time is a number.
LEMMA TimeValues ==
  ASSUME Sessions!SessionAssumption, NEW x \in Sessions!Times
  PROVE  x \in Nat
BY DEF Sessions!Times, Sessions!SessionAssumption

\* The two marks of a row differ.
LEMMA MarkValues ==
  "set" \in Sessions!Marks /\ Sessions!Null \in Sessions!Marks /\ "set" # Sessions!Null
BY DEF Sessions!Marks, Sessions!Null

\* What a step may do to the rows: revoke some families or members' sessions as a
\* whole, add nothing else.
LEMMA RevokeType ==
  ASSUME Sessions!SessionAssumption, row \in [Sessions!Tokens -> Sessions!Row], NEW S
  PROVE  /\ Sessions!Revoke(S) \in [Sessions!Tokens -> Sessions!Row]
         /\ \A t \in Sessions!Tokens :
              /\ Sessions!Revoke(S)[t].member = row[t].member
                 /\ Sessions!Revoke(S)[t].issued = row[t].issued
              /\ Sessions!Revoke(S)[t].seen = row[t].seen
                 /\ Sessions!Revoke(S)[t].expires = row[t].expires
              /\ Sessions!Revoke(S)[t].replaced = row[t].replaced
              /\ t \notin S => Sessions!Revoke(S)[t].revoked = row[t].revoked
              /\ t \in S => Sessions!Revoke(S)[t].revoked # Sessions!Null
              /\ row[t].revoked # Sessions!Null => Sessions!Revoke(S)[t].revoked # Sessions!Null
<1>2. ASSUME NEW t \in Sessions!Tokens
      PROVE  /\ Sessions!Revoke(S)[t] \in Sessions!Row
             /\ Sessions!Revoke(S)[t].member = row[t].member
                /\ Sessions!Revoke(S)[t].issued = row[t].issued
             /\ Sessions!Revoke(S)[t].seen = row[t].seen
                /\ Sessions!Revoke(S)[t].expires = row[t].expires
             /\ Sessions!Revoke(S)[t].replaced = row[t].replaced
             /\ t \notin S => Sessions!Revoke(S)[t].revoked = row[t].revoked
             /\ t \in S => Sessions!Revoke(S)[t].revoked # Sessions!Null
             /\ row[t].revoked # Sessions!Null => Sessions!Revoke(S)[t].revoked # Sessions!Null
  <2>1. row[t] \in Sessions!Row OBVIOUS
  <2>2. Sessions!Revoke(S)[t] = IF t \in S THEN [row[t] EXCEPT !.revoked = "set"] ELSE row[t]
    BY DEF Sessions!Revoke
  <2> QED BY <2>1, <2>2, MarkValues DEF Sessions!Row
<1>3. Sessions!Revoke(S) \in [Sessions!Tokens -> Sessions!Row]
  <2>1. Sessions!Revoke(S) = [t \in Sessions!Tokens |-> Sessions!Revoke(S)[t]]
    BY DEF Sessions!Revoke
  <2> QED BY <1>2, <2>1
<1> QED BY <1>2, <1>3

-----------------------------------------------------------------------------
\* No session and no request yet.
LEMMA SessionInit == ASSUME Sessions!SessionAssumption, Sessions!Init PROVE Sessions!IInv
<1>1. 0 \in Sessions!Times BY DEF Sessions!Times, Sessions!SessionAssumption
<1>2. Sessions!TypeOK BY <1>1, EmptyRow DEF Sessions!Init, Sessions!TypeOK
<1>3. Sessions!FamilyShape BY DEF Sessions!Init, Sessions!FamilyShape
<1>4. Sessions!SharedDeadline BY DEF Sessions!Init, Sessions!SharedDeadline, Sessions!Lineage
<1>5. Sessions!Predecessors BY DEF Sessions!Init, Sessions!Predecessors
<1>6. Sessions!TimesPassed BY DEF Sessions!Init, Sessions!TimesPassed
<1> QED BY <1>2, <1>3, <1>4, <1>5, <1>6 DEF Sessions!IInv

\* The two halves of the invariant: what the table holds, and what requests carry.
RowsOK ==
  /\ stored \subseteq Sessions!Tokens /\ row \in [Sessions!Tokens -> Sessions!Row]
     /\ used \subseteq Families
  /\ enabled \in [Holders -> BOOLEAN] /\ sessionClock \in Sessions!Times
  /\ Sessions!FamilyShape /\ Sessions!SharedDeadline /\ Sessions!Predecessors
  /\ \A t \in stored : row[t].issued <= sessionClock /\ row[t].seen <= sessionClock

RequestsOK ==
  /\ sessionPc \in [Threads -> {"idle", "admitted", "transacting", "touching", "rereading"}]
  /\ op \in [Threads -> {"none", "login", "use", "renew", "recover", "logout"}]
  /\ who \in [Threads -> Holders] /\ tok \in [Threads -> Sessions!Tokens \cup {Sessions!NoToken}]
  /\ at \in [Threads -> Sessions!Times]
  /\ verdict \in {"none", "granted"}
  /\ \A p \in Threads : at[p] <= sessionClock

\* What a step does to the sessions: a session that stays current stays what it was,
\* and is seen again only by a request stamped while it was current; a generation that
\* is new belongs to a family that is new, or replaces one on such a request.
Evolves ==
  /\ sessionClock <= sessionClock'
  /\ \A t \in stored : Sessions!Leaf(t)' =>
       /\ Sessions!Leaf(t) /\ row'[t].issued = row[t].issued /\ row'[t].expires = row[t].expires
       /\ row'[t].member = row[t].member
       /\ row'[t].seen = row[t].seen \/ \E p \in Threads : Sessions!Renews(p, t)
  /\ \A t \in stored' \ stored : Sessions!Family(t) \in used =>
       \E u \in stored, p \in Threads : Sessions!Family(u) = Sessions!Family(t)
         /\ Sessions!Renews(p, u) /\ row'[t].expires = row[u].expires

\* The invariant is a half about the rows and a half about the requests.
LEMMA Halves == Sessions!IInv <=> RowsOK /\ RequestsOK
BY DEF Sessions!IInv, Sessions!TypeOK, Sessions!TimesPassed, RowsOK, RequestsOK

\* The two halves after a step make the invariant after it.
LEMMA HalvesNext == ASSUME RowsOK', RequestsOK' PROVE Sessions!IInv'
BY DEF Sessions!IInv, Sessions!TypeOK, Sessions!TimesPassed, RowsOK, RequestsOK

\* A step that ends a request or stamps one keeps the requests' half.
LEMMA FinishKeeps ==
  ASSUME Sessions!SessionAssumption, Sessions!IInv, NEW p \in Threads,
         NEW o \in {"granted", "refused"},
         Sessions!Finish(p, o), sessionClock' = sessionClock
  PROVE  RequestsOK'
<1>1. RequestsOK /\ sessionClock \in Sessions!Times BY Halves DEF RowsOK
<1>2. 0 \in Sessions!Times /\ Sessions!NoMember \in Holders /\ 0 <= sessionClock
  BY <1>1, EmptyRow, TimeValues DEF Sessions!Times, Sessions!SessionAssumption
<1>3. /\ sessionPc' \in [Threads -> {"idle", "admitted", "transacting", "touching", "rereading"}]
      /\ op' \in [Threads -> {"none", "login", "use", "renew", "recover", "logout"}]
      /\ who' \in [Threads -> Holders]
         /\ tok' \in [Threads -> Sessions!Tokens \cup {Sessions!NoToken}]
      /\ at' \in [Threads -> Sessions!Times] /\ verdict' \in {"none", "granted"}
  BY <1>1, <1>2 DEF RequestsOK, Sessions!Finish
<1>4. \A q \in Threads : q # p => sessionPc'[q] = sessionPc[q] /\ at'[q] = at[q]
  BY <1>1 DEF RequestsOK, Sessions!Finish
<1>5. sessionPc'[p] = "idle" /\ at'[p] = 0 BY <1>1 DEF RequestsOK, Sessions!Finish
<1> QED BY <1>1, <1>2, <1>3, <1>4, <1>5 DEF RequestsOK

\* A request that starts is stamped with the clock and keeps the requests' half.
LEMMA StampKeeps ==
  ASSUME Sessions!SessionAssumption, Sessions!IInv, NEW p \in Threads, NEW m \in Holders,
         NEW t \in Sessions!Tokens \cup {Sessions!NoToken},
         NEW o \in {"none", "login", "use", "renew", "recover", "logout"},
         Sessions!Stamp(p, o, m, t), sessionClock' = sessionClock
  PROVE  RequestsOK'
<1>1. RequestsOK /\ sessionClock \in Sessions!Times /\ sessionClock \in Nat
  BY Halves, TimeValues DEF RowsOK
<1>2. 0 \in Sessions!Times /\ 0 <= sessionClock
  BY <1>1 DEF Sessions!Times, Sessions!SessionAssumption
<1>3. /\ sessionPc' \in [Threads -> {"idle", "admitted", "transacting", "touching", "rereading"}]
      /\ op' \in [Threads -> {"none", "login", "use", "renew", "recover", "logout"}]
      /\ who' \in [Threads -> Holders]
         /\ tok' \in [Threads -> Sessions!Tokens \cup {Sessions!NoToken}]
      /\ at' \in [Threads -> Sessions!Times] /\ verdict' \in {"none", "granted"}
  BY <1>1, <1>2 DEF RequestsOK, Sessions!Stamp
<1>4. \A q \in Threads : q # p => sessionPc'[q] = sessionPc[q] /\ at'[q] = at[q]
  BY <1>1 DEF RequestsOK, Sessions!Stamp
<1>5. at'[p] \in {0, sessionClock} BY <1>1 DEF RequestsOK, Sessions!Stamp
<1> QED BY <1>1, <1>2, <1>3, <1>4, <1>5 DEF RequestsOK

\* A step that leaves the table, the memberships and the clock alone.
LEMMA RowsUntouched ==
  ASSUME Sessions!SessionAssumption, Sessions!IInv, UNCHANGED <<Sessions!rows, enabled,
                                                                sessionClock>>
  PROVE  RowsOK' /\ Evolves
<1>1. RowsOK BY Halves
<1>2. \A t : Sessions!Leaf(t)' <=> Sessions!Leaf(t) BY DEF Sessions!Leaf, Sessions!rows
<1>3. \A f : Sessions!Lineage(f)' = Sessions!Lineage(f) BY DEF Sessions!Lineage, Sessions!rows
<1>4. Sessions!FamilyShape' BY <1>1, <1>2 DEF RowsOK, Sessions!FamilyShape, Sessions!rows
<1>5. Sessions!SharedDeadline' BY <1>1, <1>3 DEF RowsOK, Sessions!SharedDeadline, Sessions!rows
<1>6. Sessions!Predecessors' BY <1>1, <1>2 DEF RowsOK, Sessions!Predecessors, Sessions!rows
<1>7. sessionClock \in Nat BY <1>1, TimeValues DEF RowsOK
<1>8. Evolves BY <1>2, <1>7 DEF Evolves, Sessions!rows
<1> QED BY <1>1, <1>4, <1>5, <1>6, <1>8 DEF RowsOK, Sessions!rows

\* A touch: the time a current session was last seen moves up to the request's.
LEMMA TouchKeeps ==
  ASSUME Sessions!SessionAssumption, Sessions!IInv, NEW t \in stored, NEW now \in Sessions!Times,
         now <= sessionClock, Sessions!Touchable(t, now),
         NEW p \in Threads, tok[p] = t, at[p] = now, sessionPc[p] \in {"transacting", "touching"},
         row' = [row EXCEPT ![t].seen = now], UNCHANGED <<stored, used, enabled, sessionClock>>
  PROVE  RowsOK' /\ Evolves
<1>1. RowsOK /\ t \in Sessions!Tokens BY Halves DEF RowsOK
<1>2. row' \in [Sessions!Tokens -> Sessions!Row] BY <1>1 DEF RowsOK, Sessions!Row
<1>3. \A u \in Sessions!Tokens : /\ row'[u].member = row[u].member
   /\ row'[u].issued = row[u].issued
                        /\ row'[u].expires = row[u].expires /\ row'[u].replaced = row[u].replaced
                        /\ row'[u].revoked = row[u].revoked
                        /\ row'[u].seen \in {row[u].seen, now}
  BY <1>1 DEF RowsOK, Sessions!Row
<1>4. \A u \in stored : Sessions!Leaf(u)' <=> Sessions!Leaf(u)
  BY <1>1, <1>3 DEF Sessions!Leaf, RowsOK
<1>5. \A f : Sessions!Lineage(f)' = Sessions!Lineage(f) BY DEF Sessions!Lineage
<1>6. Sessions!FamilyShape' BY <1>1, <1>3, <1>4 DEF RowsOK, Sessions!FamilyShape
<1>7. Sessions!SharedDeadline'
  BY <1>1, <1>3, <1>5 DEF RowsOK, Sessions!SharedDeadline, Sessions!Lineage
<1>8. Sessions!Predecessors' BY <1>1, <1>3, <1>4 DEF RowsOK, Sessions!Predecessors
<1>9. \A u \in stored' : row'[u].issued <= sessionClock' /\ row'[u].seen <= sessionClock'
  BY <1>1, <1>3 DEF RowsOK
<1>10. sessionClock \in Nat BY <1>1, TimeValues DEF RowsOK
<1>11. Sessions!Renews(p, t)
  <2>1. row[t].seen \in Nat /\ now \in Nat /\ SessionIdle \in Nat
    BY <1>1, RowFields, TimeValues DEF RowsOK, Sessions!SessionAssumption
  <2> QED BY <2>1 DEF Sessions!Touchable, Sessions!Renews
<1>12. \A u \in stored : u # t => row'[u] = row[u] BY <1>1 DEF RowsOK
<1>13. Evolves BY <1>1, <1>3, <1>4, <1>10, <1>11, <1>12 DEF Evolves, RowsOK
<1> QED BY <1>1, <1>2, <1>6, <1>7, <1>8, <1>9, <1>13 DEF RowsOK

\* A revocation that takes families as a whole.
LEMMA RevokeKeeps ==
  ASSUME Sessions!SessionAssumption, Sessions!IInv, NEW S \in SUBSET stored,
         \A t \in S, u \in stored : Sessions!Family(t) = Sessions!Family(u) => u \in S,
         row' = Sessions!Revoke(S), UNCHANGED <<stored, used, sessionClock>>,
         enabled' \in [Holders -> BOOLEAN],
         \A t \in stored \ S : enabled'[row[t].member] = enabled[row[t].member]
  PROVE  RowsOK' /\ Evolves
<1>1. RowsOK BY Halves
<1>2. /\ row' \in [Sessions!Tokens -> Sessions!Row]
      /\ \A t \in Sessions!Tokens :
           /\ row'[t].member = row[t].member /\ row'[t].issued = row[t].issued
           /\ row'[t].seen = row[t].seen /\ row'[t].expires = row[t].expires
           /\ row'[t].replaced = row[t].replaced
           /\ t \notin S => row'[t].revoked = row[t].revoked
           /\ t \in S => row'[t].revoked # Sessions!Null
           /\ row[t].revoked # Sessions!Null => row'[t].revoked # Sessions!Null
  BY <1>1, RevokeType DEF RowsOK
<1>3. \A t \in stored : Sessions!Leaf(t)' <=> t \notin S /\ Sessions!Leaf(t)
  BY <1>1, <1>2 DEF Sessions!Leaf, RowsOK
<1>5. \A f : Sessions!Lineage(f)' = Sessions!Lineage(f) BY DEF Sessions!Lineage
<1>6. Sessions!FamilyShape'
  <2>1. \A t \in stored' : Sessions!Family(t) \in used'
     /\ (Sessions!Leaf(t)' => enabled'[row'[t].member])
    BY <1>1, <1>2, <1>3 DEF RowsOK, Sessions!FamilyShape
  <2>2. ASSUME NEW t \in stored', NEW u \in stored', Sessions!Family(t) = Sessions!Family(u)
        PROVE  /\ Sessions!Leaf(t)' => Sessions!Generation(u) <= Sessions!Generation(t)
               /\ row'[t].revoked # Sessions!Null => row'[u].revoked # Sessions!Null
    <3>1. t \in Sessions!Tokens /\ u \in Sessions!Tokens /\ t \in stored /\ u \in stored
      BY <1>1, <2>2 DEF RowsOK
    <3>2. Sessions!Leaf(t)' => Sessions!Generation(u) <= Sessions!Generation(t)
      BY <1>1, <1>3, <2>2, <3>1 DEF RowsOK, Sessions!FamilyShape
    <3>3. CASE t \in S BY <1>2, <2>2, <3>1, <3>2, <3>3
    <3>4. CASE t \notin S BY <1>1, <1>2, <2>2, <3>1, <3>2, <3>4 DEF RowsOK, Sessions!FamilyShape
    <3> QED BY <3>3, <3>4
  <2> QED BY <2>1, <2>2 DEF Sessions!FamilyShape
<1>7. Sessions!SharedDeadline'
  BY <1>1, <1>2, <1>5 DEF RowsOK, Sessions!SharedDeadline, Sessions!Lineage
<1>8. Sessions!Predecessors' BY <1>1, <1>2, <1>3 DEF RowsOK, Sessions!Predecessors
<1>9. \A u \in stored' : row'[u].issued <= sessionClock' /\ row'[u].seen <= sessionClock'
  BY <1>1, <1>2 DEF RowsOK
<1>10. sessionClock \in Nat BY <1>1, TimeValues DEF RowsOK
<1>11. Evolves BY <1>1, <1>2, <1>3, <1>10 DEF Evolves, RowsOK
<1> QED BY <1>1, <1>2, <1>6, <1>7, <1>8, <1>9, <1>11 DEF RowsOK

\* issue_browser_session: families are revoked as a whole, and one is opened.
LEMMA IssueKeeps ==
  ASSUME Sessions!SessionAssumption, Sessions!IInv, NEW p \in Threads, Sessions!Issue(p)
  PROVE  Sessions!IInv' /\ Evolves
<1>1. RowsOK /\ RequestsOK BY Halves
<1> DEFINE m == who[p]
           now == at[p]
<1>2. m \in Holders /\ now \in Sessions!Times /\ now <= sessionClock
   /\ sessionClock' = sessionClock /\ enabled' = enabled
      /\ now \in Nat /\ sessionClock \in Nat
  BY <1>1, TimeValues DEF RequestsOK, RowsOK, Sessions!Issue
<1>3. CASE ~enabled[m]
  <2>1. Sessions!Finish(p, "refused") /\ UNCHANGED Sessions!rows BY <1>3 DEF Sessions!Issue
  <2> QED BY <1>2, <2>1, FinishKeeps, RowsUntouched, HalvesNext
<1>4. CASE enabled[m]
  <2>1. Sessions!Finish(p, "granted") BY <1>4 DEF Sessions!Issue
  <2>2. PICK f \in Families \ used, evicted \in Sessions!Oldest(Sessions!Countable(m, now), Sessions!Overflow(Sessions!Countable(m, now))) :
          /\ stored' = stored \cup {<<f, 0>>}
          /\ used' = used \cup {f}
          /\ row' = [Sessions!Revoke({t \in stored : \E u \in evicted : Sessions!Family(t) = Sessions!Family(u)})
                       EXCEPT ![<<f, 0>>] =
                       [member |-> m, issued |-> now, seen |-> now,
                        expires |-> now + SessionLifetime, replaced |-> Sessions!Null, revoked |-> Sessions!Null]]
    BY <1>4 DEF Sessions!Issue
  <2> DEFINE S == {t \in stored : \E u \in evicted : Sessions!Family(t) = Sessions!Family(u)}
             new == <<f, 0>>
             R == Sessions!Revoke(S)
  <2>3. new \in Sessions!Tokens /\ Sessions!Family(new) = f /\ Sessions!Generation(new) = 0
    BY TokenOf DEF Sessions!Generations, Sessions!SessionAssumption
  <2>4. /\ R \in [Sessions!Tokens -> Sessions!Row]
        /\ \A t \in Sessions!Tokens :
             /\ R[t].member = row[t].member /\ R[t].issued = row[t].issued
             /\ R[t].seen = row[t].seen /\ R[t].expires = row[t].expires
             /\ R[t].replaced = row[t].replaced
             /\ t \notin S => R[t].revoked = row[t].revoked
             /\ t \in S => R[t].revoked # Sessions!Null
             /\ row[t].revoked # Sessions!Null => R[t].revoked # Sessions!Null
    BY <1>1, <1>2, RevokeType DEF RowsOK
  <2>5. \A t \in stored : t \in Sessions!Tokens /\ Sessions!Family(t) # f /\ t # new
     /\ Sessions!Family(t) \in used /\ Sessions!Family(t) \in Families
    BY <1>1, <2>3 DEF RowsOK, Sessions!FamilyShape
  <2>6. row' = [R EXCEPT ![new] = [member |-> m, issued |-> now, seen |-> now,
                        expires |-> now + SessionLifetime, replaced |-> Sessions!Null, revoked |-> Sessions!Null]]
    BY <2>2
  <2> HIDE DEF R
  <2>7. /\ row'[new].member = m /\ row'[new].issued = now /\ row'[new].seen = now
        /\ row'[new].expires = now + SessionLifetime
        /\ row'[new].replaced = Sessions!Null /\ row'[new].revoked = Sessions!Null
    BY <2>3, <2>4, <2>6
  <2>8. \A t \in stored : row'[t] = R[t] BY <2>3, <2>4, <2>5, <2>6
  <2>9. row' \in [Sessions!Tokens -> Sessions!Row]
    <3>1. now + SessionLifetime \in 0..(SessionTime + SessionLifetime)
       /\ Sessions!Null \in Sessions!Marks
      BY <1>2 DEF Sessions!Times, Sessions!SessionAssumption, Sessions!Marks
    <3>2. [member |-> m, issued |-> now, seen |-> now, expires |-> now + SessionLifetime,
           replaced |-> Sessions!Null, revoked |-> Sessions!Null] \in Sessions!Row
      BY <1>2, <3>1 DEF Sessions!Row
    <3> QED BY <2>4, <2>6, <3>2
  <2>10. stored' = stored \cup {new} /\ used' = used \cup {f} BY <2>2
  <2>11. \A t \in stored : Sessions!Leaf(t)' <=> t \notin S /\ Sessions!Leaf(t)
    BY <2>4, <2>5, <2>8, <2>10 DEF Sessions!Leaf
  <2>12. \A t, u \in stored : Sessions!Family(t) = Sessions!Family(u) => (t \in S <=> u \in S)
    OBVIOUS
  <2> HIDE DEF S, new
  <2>13. Sessions!FamilyShape'
    <3>1. \A t \in stored' : Sessions!Family(t) \in used'
       /\ (Sessions!Leaf(t)' => enabled'[row'[t].member])
      BY <1>1, <1>2, <1>4, <2>3, <2>4, <2>5, <2>7, <2>8, <2>10, <2>11 DEF RowsOK,
         Sessions!FamilyShape
    <3>2. ASSUME NEW t \in stored', NEW u \in stored', Sessions!Family(t) = Sessions!Family(u)
          PROVE  /\ Sessions!Leaf(t)' => Sessions!Generation(u) <= Sessions!Generation(t)
                 /\ row'[t].revoked # Sessions!Null => row'[u].revoked # Sessions!Null
      <4>1. CASE t = new
        <5>1. u = new BY <2>3, <2>5, <2>10, <3>2, <4>1
        <5> QED BY <2>3, <4>1, <5>1
      <4>2. CASE t # new
        <5>1. t \in stored /\ u \in stored BY <2>3, <2>5, <2>10, <3>2, <4>2
        <5>2. t \in Sessions!Tokens /\ u \in Sessions!Tokens /\ (t \in S <=> u \in S)
          BY <2>5, <2>12, <3>2, <5>1
        <5>3. Sessions!Leaf(t)' => Sessions!Generation(u) <= Sessions!Generation(t)
          BY <1>1, <2>11, <3>2, <5>1 DEF RowsOK, Sessions!FamilyShape
        <5>4. row'[t].revoked # Sessions!Null => row'[u].revoked # Sessions!Null
          BY <1>1, <2>4, <2>8, <3>2, <5>1, <5>2 DEF RowsOK, Sessions!FamilyShape
        <5> QED BY <5>3, <5>4
      <4> QED BY <4>1, <4>2
    <3> QED BY <3>1, <3>2 DEF Sessions!FamilyShape
  <2>14. Sessions!SharedDeadline'
    <3> SUFFICES ASSUME NEW t \in stored', NEW u \in stored',
                        Sessions!Family(t) = Sessions!Family(u)
                 PROVE  /\ row'[t].expires = row'[u].expires /\ row'[t].member = row'[u].member
                        /\ Sessions!Generation(t) = 0 => row'[u].expires = row'[t].issued + SessionLifetime
      BY DEF Sessions!SharedDeadline, Sessions!Lineage
    <3>1. CASE t = new
      <4>1. u = new BY <2>3, <2>5, <2>10, <3>1
      <4> QED BY <2>7, <3>1, <4>1
    <3>2. CASE t # new
      <4>1. t \in stored /\ u \in stored BY <2>3, <2>5, <2>10, <3>2
      <4>2. /\ row[t].expires = row[u].expires /\ row[t].member = row[u].member
            /\ Sessions!Generation(t) = 0 => row[u].expires = row[t].issued + SessionLifetime
        BY <1>1, <2>5, <4>1 DEF RowsOK, Sessions!SharedDeadline, Sessions!Lineage
      <4> QED BY <2>4, <2>5, <2>8, <4>1, <4>2
    <3> QED BY <3>1, <3>2
  <2>15. Sessions!Predecessors'
    <3> SUFFICES ASSUME NEW t \in stored', Sessions!Leaf(t)', row'[t].expires > sessionClock',
                        NEW g \in 0..(Sessions!Generation(t) - 1)
                 PROVE  <<Sessions!Family(t), g>> \in stored'
      BY DEF Sessions!Predecessors
    <3>1. t # new BY <2>3
    <3>2. t \in stored /\ Sessions!Leaf(t) /\ row[t].expires > sessionClock
      BY <1>2, <2>4, <2>5, <2>8, <2>10, <2>11, <3>1
    <3> QED BY <1>1, <2>10, <3>2 DEF RowsOK, Sessions!Predecessors
  <2>16. \A t \in stored' : row'[t].issued <= sessionClock' /\ row'[t].seen <= sessionClock'
    BY <1>1, <1>2, <2>4, <2>5, <2>7, <2>8, <2>10 DEF RowsOK
  <2>17. stored' \subseteq Sessions!Tokens /\ used' \subseteq Families /\ f \in Families
    BY <1>1, <2>3, <2>10 DEF RowsOK
  <2>18. RowsOK'
    BY <1>1, <1>2, <2>9, <2>13, <2>14, <2>15, <2>16, <2>17 DEF RowsOK
  <2>19. Evolves BY <1>2, <2>3, <2>4, <2>5, <2>8, <2>10, <2>11 DEF Evolves
  <2> QED BY <1>2, <2>1, <2>18, <2>19, FinishKeeps, HalvesNext
<1> QED BY <1>3, <1>4

\* rotate_browser_session: the current generation is replaced by the next.
LEMMA RotateKeeps ==
  ASSUME Sessions!SessionAssumption, Sessions!IInv, NEW p \in Threads, Sessions!Rotate(p)
  PROVE  Sessions!IInv' /\ Evolves
<1>1. RowsOK /\ RequestsOK BY Halves
<1> DEFINE t == tok[p]
           now == at[p]
           next == <<Sessions!Family(t), Sessions!Generation(t) + 1>>
<1>2. now \in Sessions!Times /\ now <= sessionClock /\ now \in Nat /\ sessionClock \in Nat
      /\ UNCHANGED <<used, enabled, sessionClock>>
  BY <1>1, TimeValues DEF RequestsOK, RowsOK, Sessions!Rotate
<1>3. CASE ~Sessions!Renewable(t, now)
  <2>1. /\ stored' = stored
        /\ row' = IF Sessions!NotDue(t, now)
           /\ Sessions!Touchable(t, now) THEN [row EXCEPT ![t].seen = now] ELSE row
        /\ \E o \in {"granted", "refused"} : Sessions!Finish(p, o)
    BY <1>3 DEF Sessions!Rotate
  <2>2. RequestsOK' BY <1>2, <2>1, FinishKeeps
  <2>3. CASE Sessions!NotDue(t, now) /\ Sessions!Touchable(t, now)
    <3>1. tok[p] \in stored /\ sessionPc[p] = "transacting"
      BY <2>3 DEF Sessions!Touchable, Sessions!Leaf, Sessions!Rotate
    <3> QED BY <1>2, <2>1, <2>2, <2>3, <3>1, TouchKeeps, HalvesNext
  <2>4. CASE ~(Sessions!NotDue(t, now) /\ Sessions!Touchable(t, now))
    BY <1>2, <2>1, <2>2, <2>4, RowsUntouched, HalvesNext DEF Sessions!rows
  <2> QED BY <2>3, <2>4
<1>4. CASE Sessions!Renewable(t, now)
  <2>1. /\ stored' = stored \cup {next} /\ Sessions!Finish(p, "granted")
        /\ row' = [row EXCEPT ![t].replaced = "set", ![next] = Sessions!Successor(t, now)]
    BY <1>4 DEF Sessions!Rotate
  <2>2. Sessions!Leaf(t) /\ t \in stored /\ t \in Sessions!Tokens /\ enabled[row[t].member]
    BY <1>1, <1>4 DEF Sessions!Renewable, Sessions!Resolves, Sessions!Active, Sessions!Leaf,
       RowsOK
  <2>3. Sessions!Generation(t) \in Nat /\ Sessions!Generation(t) < MaxGeneration
     /\ Sessions!Family(t) \in Families
        /\ Sessions!Family(t) \in used
    BY <1>1, <1>4, <2>2, TokenParts DEF Sessions!Renewable, RowsOK, Sessions!FamilyShape
  <2>4. next \in Sessions!Tokens /\ Sessions!Family(next) = Sessions!Family(t)
     /\ Sessions!Generation(next) = Sessions!Generation(t) + 1
    BY <2>3, TokenOf DEF Sessions!Generations, Sessions!SessionAssumption
  <2>5. next \notin stored /\ next # t
    BY <1>1, <2>2, <2>3, <2>4 DEF RowsOK, Sessions!FamilyShape
  <2> HIDE DEF next, t
  <2>6. row[t] \in Sessions!Row /\ row \in [Sessions!Tokens -> Sessions!Row]
    BY <1>1, <2>2 DEF RowsOK
  <2>8. Sessions!Successor(t, now) \in Sessions!Row
    BY <1>2, <2>6, RowFields, MarkValues DEF Sessions!Successor, Sessions!Row
  <2>9. /\ row' \in [Sessions!Tokens -> Sessions!Row]
        /\ row'[next] = Sessions!Successor(t, now)
        /\ row'[t] = [row[t] EXCEPT !.replaced = "set"]
        /\ \A u \in Sessions!Tokens : u # t /\ u # next => row'[u] = row[u]
    <3>1. [row[t] EXCEPT !.replaced = "set"] \in Sessions!Row BY <2>6, MarkValues DEF Sessions!Row
    <3> QED BY <2>1, <2>2, <2>4, <2>5, <2>6, <2>8, <3>1
  <2>10. \A u \in stored : /\ row'[u].member = row[u].member /\ row'[u].issued = row[u].issued
                           /\ row'[u].seen = row[u].seen /\ row'[u].expires = row[u].expires
                           /\ row'[u].revoked = row[u].revoked
                           /\ u # t => row'[u].replaced = row[u].replaced
    <3>1. /\ row'[t].member = row[t].member /\ row'[t].issued = row[t].issued
          /\ row'[t].seen = row[t].seen /\ row'[t].expires = row[t].expires
          /\ row'[t].revoked = row[t].revoked
      BY <2>6, <2>9 DEF Sessions!Row
    <3>2. \A u \in stored : u \in Sessions!Tokens /\ u # next BY <1>1, <2>5 DEF RowsOK
    <3> QED BY <2>9, <3>1, <3>2
  <2>11. row'[t].replaced # Sessions!Null BY <2>6, <2>9, MarkValues DEF Sessions!Row
  <2>12. /\ row'[next].member = row[t].member /\ row'[next].issued = now /\ row'[next].seen = now
         /\ row'[next].expires = row[t].expires
         /\ row'[next].replaced = Sessions!Null /\ row'[next].revoked = Sessions!Null
    BY <2>9 DEF Sessions!Successor
  <2>13. \A u \in stored : Sessions!Leaf(u)' <=> Sessions!Leaf(u) /\ u # t
    BY <2>1, <2>10, <2>11 DEF Sessions!Leaf
  <2>14. \A u \in stored : Sessions!Family(u) = Sessions!Family(t) =>
           Sessions!Generation(u) <= Sessions!Generation(t) /\ Sessions!Generation(u) \in Nat
              /\ row[u].revoked = Sessions!Null
    BY <1>1, <2>2, TokenParts DEF RowsOK, Sessions!FamilyShape, Sessions!Leaf
  <2>15. Sessions!FamilyShape'
    <3>1. \A u \in stored' : Sessions!Family(u) \in used'
       /\ (Sessions!Leaf(u)' => enabled'[row'[u].member])
      BY <1>1, <1>2, <2>1, <2>2, <2>3, <2>4, <2>10, <2>12, <2>13 DEF RowsOK, Sessions!FamilyShape
    <3>2. ASSUME NEW u \in stored', NEW v \in stored', Sessions!Family(u) = Sessions!Family(v)
          PROVE  /\ Sessions!Leaf(u)' => Sessions!Generation(v) <= Sessions!Generation(u)
                 /\ row'[u].revoked # Sessions!Null => row'[v].revoked # Sessions!Null
      <4>1. CASE u = next
        BY <2>1, <2>3, <2>4, <2>12, <2>14, <3>2, <4>1
      <4>2. CASE u # next /\ v # next
        BY <1>1, <2>1, <2>10, <2>13, <3>2, <4>2 DEF RowsOK, Sessions!FamilyShape
      <4>3. CASE u # next /\ v = next
        <5>1. u \in stored /\ Sessions!Family(u) = Sessions!Family(t) BY <2>1, <2>4, <3>2, <4>3
        <5>2. Sessions!Leaf(u) => u = t
          <6> SUFFICES ASSUME Sessions!Leaf(u) PROVE u = t OBVIOUS
          <6>1. Sessions!Generation(t) <= Sessions!Generation(u)
             /\ Sessions!Generation(u) <= Sessions!Generation(t)
            BY <1>1, <2>2, <5>1 DEF RowsOK, Sessions!FamilyShape
          <6> QED BY <1>1, <2>2, <2>3, <2>14, <5>1, <6>1, TokenParts DEF RowsOK
        <5> QED BY <2>10, <2>13, <2>14, <5>1, <5>2
      <4> QED BY <4>1, <4>2, <4>3
    <3> QED BY <3>1, <3>2 DEF Sessions!FamilyShape
  <2>16. Sessions!SharedDeadline'
    <3> SUFFICES ASSUME NEW u \in stored', NEW v \in stored',
                        Sessions!Family(u) = Sessions!Family(v)
                 PROVE  /\ row'[u].expires = row'[v].expires /\ row'[u].member = row'[v].member
                        /\ Sessions!Generation(u) = 0 => row'[v].expires = row'[u].issued + SessionLifetime
      BY DEF Sessions!SharedDeadline, Sessions!Lineage
    <3>1. \A x, y \in stored : Sessions!Family(x) = Sessions!Family(y) =>
            /\ row[x].expires = row[y].expires /\ row[x].member = row[y].member
            /\ Sessions!Generation(x) = 0 => row[y].expires = row[x].issued + SessionLifetime
      <4> SUFFICES ASSUME NEW x \in stored, NEW y \in stored,
                          Sessions!Family(x) = Sessions!Family(y)
                   PROVE  /\ row[x].expires = row[y].expires /\ row[x].member = row[y].member
                          /\ Sessions!Generation(x) = 0 => row[y].expires = row[x].issued + SessionLifetime
        OBVIOUS
      <4>1. Sessions!Family(x) \in Families BY <1>1, TokenParts DEF RowsOK
      <4> QED BY <1>1, <4>1 DEF RowsOK, Sessions!SharedDeadline, Sessions!Lineage
    <3>2. stored' = stored \cup {next} BY <2>1
    <3>3. CASE u = next /\ v = next BY <2>3, <2>4, <2>12, <3>3
    <3>4. CASE u = next /\ v # next
      <4>1. v \in stored /\ Sessions!Family(v) = Sessions!Family(t) /\ Sessions!Generation(u) # 0
        BY <2>3, <2>4, <3>2, <3>4
      <4>2. row[v].expires = row[t].expires /\ row[v].member = row[t].member
        BY <2>2, <3>1, <4>1
      <4> QED BY <2>10, <2>12, <3>4, <4>1, <4>2
    <3>5. CASE u # next /\ v = next
      <4>1. u \in stored /\ Sessions!Family(u) = Sessions!Family(t) BY <2>4, <3>2, <3>5
      <4>2. /\ row[u].expires = row[t].expires /\ row[u].member = row[t].member
            /\ Sessions!Generation(u) = 0 => row[t].expires = row[u].issued + SessionLifetime
        BY <2>2, <3>1, <4>1
      <4> QED BY <2>10, <2>12, <3>5, <4>1, <4>2
    <3>6. CASE u # next /\ v # next
      <4>1. u \in stored /\ v \in stored BY <3>2, <3>6
      <4>2. /\ row[u].expires = row[v].expires /\ row[u].member = row[v].member
            /\ Sessions!Generation(u) = 0 => row[v].expires = row[u].issued + SessionLifetime
        BY <3>1, <4>1
      <4>3. row'[u].expires = row[u].expires /\ row'[v].expires = row[v].expires
            /\ row'[u].member = row[u].member /\ row'[v].member = row[v].member
            /\ row'[u].issued = row[u].issued
        BY <2>10, <4>1
      <4> QED BY <4>2, <4>3
    <3> QED BY <3>3, <3>4, <3>5, <3>6
  <2>17. Sessions!Predecessors'
    <3> SUFFICES ASSUME NEW u \in stored', Sessions!Leaf(u)', row'[u].expires > sessionClock',
                        NEW g \in 0..(Sessions!Generation(u) - 1)
                 PROVE  <<Sessions!Family(u), g>> \in stored'
      BY DEF Sessions!Predecessors
    <3>1. CASE u = next
      <4>1. row[t].expires > sessionClock BY <1>2, <2>12, <3>1
      <4>2. g = Sessions!Generation(t) \/ g \in 0..(Sessions!Generation(t) - 1)
        BY <2>3, <2>4, <3>1
      <4>3. t = <<Sessions!Family(t), Sessions!Generation(t)>> BY <2>2, TokenParts
      <4> QED BY <1>1, <2>1, <2>2, <2>4, <3>1, <4>1, <4>2, <4>3 DEF RowsOK, Sessions!Predecessors
    <3>2. CASE u # next
      BY <1>1, <1>2, <2>1, <2>10, <2>13, <3>2 DEF RowsOK, Sessions!Predecessors
    <3> QED BY <3>1, <3>2
  <2>18. \A u \in stored' : row'[u].issued <= sessionClock' /\ row'[u].seen <= sessionClock'
    BY <1>1, <1>2, <2>1, <2>10, <2>12 DEF RowsOK
  <2>19. RowsOK'
    BY <1>1, <1>2, <2>1, <2>4, <2>9, <2>15, <2>16, <2>17, <2>18 DEF RowsOK
  <2>20. Evolves
    <3>1. stored' = stored \cup {next} BY <2>1
    <3>2. row[t].seen \in Nat /\ SessionIdle \in Nat
      BY <2>6, RowFields DEF Sessions!SessionAssumption
    <3>3. Sessions!Renews(p, t)
      BY <1>2, <1>4, <2>2, <3>2 DEF Sessions!Renews, Sessions!Renewable, Sessions!Resolves,
         Sessions!Active, Sessions!Rotate, t, now
    <3> QED BY <1>2, <2>2, <2>4, <2>10, <2>12, <2>13, <3>1, <3>3 DEF Evolves
  <2> QED BY <1>2, <2>1, <2>19, <2>20, FinishKeeps, HalvesNext
<1> QED BY <1>3, <1>4

\* purge_inactive_browser_sessions: no row goes that a current generation needs.
LEMMA PurgeKeeps ==
  ASSUME Sessions!SessionAssumption, Sessions!IInv, Sessions!Purge
  PROVE  Sessions!IInv' /\ Evolves
<1>1. RowsOK /\ RequestsOK BY Halves
<1>2. PICK S \in SUBSET Sessions!Inactive :
        /\ stored' = stored \ S
        /\ row' = [t \in Sessions!Tokens |-> IF t \in S THEN Sessions!NoRow ELSE row[t]]
  BY DEF Sessions!Purge
<1>3. UNCHANGED <<used, enabled, sessionClock, Sessions!requests>> /\ sessionClock \in Nat
      /\ verdict' = "none"
  BY <1>1, TimeValues DEF Sessions!Purge, RowsOK
<1>4. row' \in [Sessions!Tokens -> Sessions!Row] BY <1>1, <1>2, EmptyRow DEF RowsOK
<1>5. \A t \in stored' : t \in stored /\ t \notin S /\ t \in Sessions!Tokens /\ row'[t] = row[t]
  BY <1>1, <1>2 DEF RowsOK
<1>6. \A t \in stored' : Sessions!Leaf(t)' <=> Sessions!Leaf(t) BY <1>5 DEF Sessions!Leaf
<1>7. Sessions!FamilyShape' BY <1>1, <1>3, <1>5, <1>6 DEF RowsOK, Sessions!FamilyShape
<1>8. Sessions!SharedDeadline'
  BY <1>1, <1>5 DEF RowsOK, Sessions!SharedDeadline, Sessions!Lineage
<1>9. Sessions!Predecessors'
  <2> SUFFICES ASSUME NEW t \in stored', Sessions!Leaf(t)', row'[t].expires > sessionClock',
                      NEW g \in 0..(Sessions!Generation(t) - 1)
               PROVE  <<Sessions!Family(t), g>> \in stored'
    BY DEF Sessions!Predecessors
  <2> DEFINE u == <<Sessions!Family(t), g>>
  <2>1. t \in stored /\ Sessions!Leaf(t) /\ row[t].expires > sessionClock BY <1>3, <1>5, <1>6
  <2>2. u \in stored BY <1>1, <2>1 DEF RowsOK, Sessions!Predecessors
  <2>3. Sessions!Generation(t) \in Nat /\ Sessions!Family(t) \in Families
     /\ t \in Sessions!Tokens /\ Sessions!Generation(t) <= MaxGeneration
    BY <1>1, <2>1, TokenParts DEF RowsOK
  <2>4. Sessions!Family(u) = Sessions!Family(t) /\ Sessions!Generation(u) = g
     /\ g < Sessions!Generation(t) /\ g \in Nat
    <3>1. g \in Sessions!Generations BY <2>3 DEF Sessions!Generations, Sessions!SessionAssumption
    <3> QED BY <2>3, <3>1, TokenOf
  <2> HIDE DEF u
  <2>5. row[u].expires = row[t].expires
    BY <1>1, <2>1, <2>2, <2>3, <2>4 DEF RowsOK, Sessions!SharedDeadline, Sessions!Lineage
  <2>6. row[u].revoked = Sessions!Null
    BY <1>1, <2>1, <2>2, <2>4 DEF RowsOK, Sessions!FamilyShape, Sessions!Leaf
  <2>7. ~Sessions!Leaf(u) BY <1>1, <2>1, <2>2, <2>3, <2>4 DEF RowsOK, Sessions!FamilyShape
  <2>8. row[u].replaced # Sessions!Null BY <2>2, <2>6, <2>7 DEF Sessions!Leaf
  <2>9. row[t].expires \in Nat BY <1>1, <2>3, RowFields DEF RowsOK
  <2>10. u \notin Sessions!Inactive
    BY <1>3, <2>1, <2>5, <2>6, <2>8, <2>9 DEF Sessions!Inactive
  <2> QED BY <1>2, <2>2, <2>10 DEF u
<1>10. \A u \in stored' : row'[u].issued <= sessionClock' /\ row'[u].seen <= sessionClock'
  BY <1>1, <1>3, <1>5 DEF RowsOK
<1>11. RowsOK' BY <1>1, <1>3, <1>4, <1>5, <1>7, <1>8, <1>9, <1>10 DEF RowsOK
<1>12. RequestsOK' BY <1>1, <1>3 DEF RequestsOK, Sessions!requests
<1>13. Evolves
  <2>1. \A t \in stored : Sessions!Leaf(t)' => t \in stored' BY DEF Sessions!Leaf
  <2> QED BY <1>2, <1>3, <1>5, <1>6, <2>1 DEF Evolves
<1> QED BY <1>11, <1>12, <1>13, HalvesNext

\* Change of access, the clock, and the requests' other steps.
LEMMA AccessKeeps ==
  ASSUME Sessions!SessionAssumption, Sessions!IInv, NEW m \in Holders, Sessions!ChangeAccess(m)
  PROVE  Sessions!IInv' /\ Evolves
<1>1. RowsOK /\ RequestsOK BY Halves
<1> DEFINE S == {t \in stored : row[t].member = m}
<1>2. UNCHANGED <<stored, used, sessionClock, Sessions!requests>>
   /\ row' = Sessions!Revoke(S)
      /\ enabled' = [enabled EXCEPT ![m] = ~@] /\ verdict' = "none"
  BY <1>1 DEF Sessions!ChangeAccess, Sessions!RevokeMember, RowsOK
<1>3. \A t \in S, u \in stored : Sessions!Family(t) = Sessions!Family(u) => u \in S
  <2> SUFFICES ASSUME NEW t \in S, NEW u \in stored, Sessions!Family(t) = Sessions!Family(u)
               PROVE  u \in S
    OBVIOUS
  <2>1. Sessions!Family(t) \in Families BY <1>1, TokenParts DEF RowsOK
  <2> QED BY <1>1, <2>1 DEF RowsOK, Sessions!SharedDeadline, Sessions!Lineage
<1>4. enabled' \in [Holders -> BOOLEAN] BY <1>1, <1>2 DEF RowsOK
<1>5. \A t \in stored \ S : enabled'[row[t].member] = enabled[row[t].member]
  BY <1>1, <1>2 DEF RowsOK
<1>6. S \in SUBSET stored OBVIOUS
<1> HIDE DEF S
<1>7. RowsOK' /\ Evolves BY <1>2, <1>3, <1>4, <1>5, <1>6, RevokeKeeps
<1>8. RequestsOK' BY <1>1, <1>2 DEF RequestsOK, Sessions!requests
<1> QED BY <1>7, <1>8, HalvesNext

\* Time passes for no row and no request.
LEMMA TickKeeps ==
  ASSUME Sessions!SessionAssumption, Sessions!IInv, Sessions!Tick
  PROVE  Sessions!IInv' /\ Evolves
<1>1. RowsOK /\ RequestsOK BY Halves
<1>2. sessionClock' = sessionClock + 1
   /\ UNCHANGED <<Sessions!rows, enabled, Sessions!requests>> /\ sessionClock \in Nat
      /\ sessionClock' \in Sessions!Times /\ sessionClock' \in Nat /\ verdict' = "none"
  BY <1>1, TimeValues DEF Sessions!Tick, RowsOK, Sessions!Times, Sessions!SessionAssumption
<1>3. \A t : Sessions!Leaf(t)' <=> Sessions!Leaf(t) BY <1>2 DEF Sessions!Leaf, Sessions!rows
<1>4. Sessions!FamilyShape' BY <1>1, <1>2, <1>3 DEF RowsOK, Sessions!FamilyShape, Sessions!rows
<1>5. Sessions!SharedDeadline'
  BY <1>1, <1>2 DEF RowsOK, Sessions!SharedDeadline, Sessions!rows, Sessions!Lineage
<1>6. \A t \in stored : row[t].issued \in Nat /\ row[t].seen \in Nat /\ row[t].expires \in Nat
  BY <1>1, RowFields DEF RowsOK
<1>7. Sessions!Predecessors'
  BY <1>1, <1>2, <1>3, <1>6 DEF RowsOK, Sessions!Predecessors, Sessions!rows
<1>8. \A u \in stored' : row'[u].issued <= sessionClock' /\ row'[u].seen <= sessionClock'
  BY <1>1, <1>2, <1>6 DEF RowsOK, Sessions!rows
<1>9. RowsOK' BY <1>1, <1>2, <1>4, <1>5, <1>7, <1>8 DEF RowsOK, Sessions!rows
<1>10. RequestsOK'
  <2>1. \A p \in Threads : at[p] \in Nat BY <1>1, TimeValues DEF RequestsOK
  <2>2. \A p \in Threads : at'[p] <= sessionClock'
    BY <1>1, <1>2, <2>1 DEF RequestsOK, Sessions!requests
  <2> QED BY <1>1, <1>2, <2>2 DEF RequestsOK, Sessions!requests
<1>11. Evolves BY <1>2, <1>3 DEF Evolves, Sessions!rows
<1> QED BY <1>9, <1>10, <1>11, HalvesNext

\* A logout closes the whole family of its token.
LEMMA LogoutKeeps ==
  ASSUME Sessions!SessionAssumption, Sessions!IInv, NEW p \in Threads, Sessions!Logout(p)
  PROVE  Sessions!IInv' /\ Evolves
<1>1. RowsOK /\ RequestsOK BY Halves
<1> DEFINE S == Sessions!ClosedBy(tok[p])
<1>2. row' = Sessions!Revoke(S) /\ UNCHANGED <<stored, used, enabled, sessionClock>>
      /\ \E o \in {"granted", "refused"} : Sessions!Finish(p, o)
  BY <1>1 DEF Sessions!Logout, RequestsOK
<1>3. S \in SUBSET stored
   /\ \A t \in S, u \in stored : Sessions!Family(t) = Sessions!Family(u) => u \in S
  BY DEF Sessions!ClosedBy, Sessions!Lineage
<1>4. enabled' \in [Holders -> BOOLEAN] BY <1>1, <1>2 DEF RowsOK
<1> HIDE DEF S
<1>5. RowsOK' /\ Evolves BY <1>2, <1>3, <1>4, RevokeKeeps
<1> QED BY <1>2, <1>5, FinishKeeps, HalvesNext

\* Starting, looking up, touching, rereading and refusing keep the rows' shape.
LEMMA QuietRequestKeeps ==
  ASSUME Sessions!SessionAssumption, Sessions!IInv, NEW p \in Threads,
         \/ \E m \in Holders : Sessions!Login(p, m)
         \/ \E t \in Sessions!Tokens : Sessions!Use(p, t)
         \/ \E t \in Sessions!Tokens, o \in {"renew", "recover", "logout"} : Sessions!Admit(p, o, t)
         \/ Sessions!Look(p) \/ Sessions!Touch(p) \/ Sessions!Reread(p) \/ Sessions!Limit(p)
  PROVE  Sessions!IInv' /\ Evolves
<1>1. RowsOK /\ RequestsOK BY Halves
<1>2. Sessions!NoMember \in Holders /\ tok[p] \in Sessions!Tokens \cup {Sessions!NoToken}
   /\ at[p] \in Sessions!Times /\ at[p] <= sessionClock
  BY <1>1, EmptyRow DEF RequestsOK
<1>3. ASSUME NEW m \in Holders, Sessions!Login(p, m) PROVE Sessions!IInv' /\ Evolves
  BY <1>3, StampKeeps, RowsUntouched, HalvesNext DEF Sessions!Login
<1>4. ASSUME NEW t \in Sessions!Tokens, Sessions!Use(p, t) PROVE Sessions!IInv' /\ Evolves
  BY <1>2, <1>4, StampKeeps, RowsUntouched, HalvesNext DEF Sessions!Use
<1>5. ASSUME NEW t \in Sessions!Tokens, NEW o \in {"renew", "recover", "logout"},
             Sessions!Admit(p, o, t)
      PROVE  Sessions!IInv' /\ Evolves
  <2>1. RowsOK' /\ Evolves /\ sessionClock' = sessionClock
    BY <1>5, RowsUntouched DEF Sessions!Admit
  <2>2. CASE Sessions!Finish(p, "refused") BY <2>1, <2>2, FinishKeeps, HalvesNext
  <2>3. CASE /\ sessionPc' = [sessionPc EXCEPT ![p] = "admitted"] /\ op' = [op EXCEPT ![p] = o]
             /\ tok' = [tok EXCEPT ![p] = t] /\ verdict' = "none" /\ UNCHANGED <<who, at>>
    <3>1. RequestsOK' BY <1>1, <1>5, <2>1, <2>3 DEF RequestsOK
    <3> QED BY <2>1, <3>1, HalvesNext
  <2> QED BY <1>5, <2>2, <2>3 DEF Sessions!Admit
<1>6. ASSUME Sessions!Look(p) PROVE Sessions!IInv' /\ Evolves
  <2>1. RowsOK' /\ Evolves /\ sessionClock' = sessionClock /\ sessionPc[p] = "transacting"
    BY <1>6, RowsUntouched DEF Sessions!Look
  <2>2. CASE \E o \in {"granted", "refused"} : Sessions!Finish(p, o)
    BY <2>1, <2>2, FinishKeeps, HalvesNext
  <2>3. CASE sessionPc' = [sessionPc EXCEPT ![p] = "touching"]
     /\ verdict' = "none" /\ UNCHANGED <<op, who, tok, at>>
    <3>1. RequestsOK' BY <1>1, <2>1, <2>3 DEF RequestsOK
    <3> QED BY <2>1, <3>1, HalvesNext
  <2> QED BY <1>6, <2>2, <2>3 DEF Sessions!Look
<1>7. ASSUME Sessions!Touch(p) PROVE Sessions!IInv' /\ Evolves
  <2>1. sessionPc[p] = "touching" /\ UNCHANGED <<stored, used, enabled, sessionClock>>
    BY <1>7 DEF Sessions!Touch
  <2>2. CASE Sessions!Touchable(tok[p], at[p])
    <3>1. row' = [row EXCEPT ![tok[p]].seen = at[p]] /\ Sessions!Finish(p, "granted")
       /\ tok[p] \in stored
      BY <1>1, <1>7, <2>2 DEF Sessions!Touch, Sessions!Touchable, Sessions!Leaf, RequestsOK
    <3> QED BY <1>2, <2>1, <2>2, <3>1, TouchKeeps, FinishKeeps, HalvesNext
  <2>3. CASE ~Sessions!Touchable(tok[p], at[p])
    <3>1. sessionPc' = [sessionPc EXCEPT ![p] = "rereading"]
       /\ verdict' = "none" /\ UNCHANGED <<row, op, who, tok, at>>
      BY <1>7, <2>3 DEF Sessions!Touch
    <3>2. RequestsOK' BY <1>1, <2>1, <3>1 DEF RequestsOK
    <3> QED BY <2>1, <3>1, <3>2, RowsUntouched, HalvesNext DEF Sessions!rows
  <2> QED BY <2>2, <2>3
<1>8. ASSUME Sessions!Reread(p) PROVE Sessions!IInv' /\ Evolves
  <2>1. \E o \in {"granted", "refused"} : Sessions!Finish(p, o) BY <1>8 DEF Sessions!Reread
  <2> QED BY <1>8, <2>1, FinishKeeps, RowsUntouched, HalvesNext DEF Sessions!Reread
<1>9. ASSUME Sessions!Limit(p) PROVE Sessions!IInv' /\ Evolves
  <2>1. RowsOK' /\ Evolves /\ sessionClock' = sessionClock
    BY <1>9, RowsUntouched DEF Sessions!Limit
  <2>2. CASE Sessions!Finish(p, "refused") BY <2>1, <2>2, FinishKeeps, HalvesNext
  <2>3. CASE Sessions!Stamp(p, op[p], Sessions!NoMember, tok[p])
    <3>1. RequestsOK' BY <1>1, <1>2, <2>1, <2>3, StampKeeps DEF RequestsOK
    <3> QED BY <2>1, <3>1, HalvesNext
  <2> QED BY <1>9, <2>2, <2>3 DEF Sessions!Limit
<1> QED BY <1>3, <1>4, <1>5, <1>6, <1>7, <1>8, <1>9

\* One step of any request, of an access change, of the cleanup or of the clock.
LEMMA SessionNext ==
  ASSUME Sessions!SessionAssumption, Sessions!IInv, [Sessions!Next]_Sessions!vars
  PROVE  Sessions!IInv' /\ Evolves
<1>1. CASE UNCHANGED Sessions!vars
  <2>1. RowsOK' /\ Evolves BY <1>1, RowsUntouched DEF Sessions!vars, Sessions!rows
  <2>2. RequestsOK' BY <1>1, Halves DEF RequestsOK, Sessions!vars
  <2> QED BY <2>1, <2>2, HalvesNext
<1> QED
  BY <1>1, IssueKeeps, RotateKeeps, PurgeKeeps, AccessKeeps, TickKeeps, LogoutKeeps,
     QuietRequestKeeps DEF Sessions!Next

\* The invariant gives the lineage properties.
LEMMA LineageFollows ==
  ASSUME Sessions!SessionAssumption, Sessions!IInv
  PROVE  Sessions!SessionLineage
<1>1. RowsOK BY Halves
<1>2. ASSUME NEW f \in Families
      PROVE  Cardinality({t \in Sessions!Lineage(f) : Sessions!Leaf(t)}) <= 1
  <2> DEFINE L == {t \in Sessions!Lineage(f) : Sessions!Leaf(t)}
  <2>1. CASE L = {} BY <2>1, FS_EmptySet
  <2>2. CASE L # {}
    <3>1. PICK t \in L : TRUE BY <2>2
    <3>2. ASSUME NEW u \in L PROVE u = t
      <4>1. t \in stored /\ u \in stored /\ Sessions!Leaf(t) /\ Sessions!Leaf(u)
         /\ Sessions!Family(t) = Sessions!Family(u)
        BY DEF Sessions!Lineage
      <4>2. Sessions!Generation(t) <= Sessions!Generation(u)
         /\ Sessions!Generation(u) <= Sessions!Generation(t)
        BY <1>1, <4>1 DEF RowsOK, Sessions!FamilyShape
      <4> QED BY <1>1, <4>1, <4>2, TokenParts DEF RowsOK
    <3>3. L = {t} BY <3>1, <3>2
    <3> QED BY <3>3, FS_Singleton
  <2> QED BY <2>1, <2>2
<1>3. Sessions!LineageKept
  BY <1>1 DEF RowsOK, Sessions!Predecessors, Sessions!LineageKept, Sessions!Active
<1> QED BY <1>1, <1>2, <1>3, SessionSets DEF Sessions!SessionLineage, Sessions!OneLeafPerFamily,
   RowsOK

\* The shape of families gives that disabled members have no session left.
LEMMA DisabledFollows == ASSUME Sessions!IInv PROVE Sessions!DisabledIsOut
BY DEF Sessions!IInv, Sessions!FamilyShape, Sessions!DisabledIsOut, Sessions!Leaves

\* A step reopens no family, and makes one usable again only on a request that was
\* stamped while it was current.
LEMMA NothingReopens ==
  ASSUME Sessions!SessionAssumption, Sessions!IInv, Sessions!IInv', Evolves
  PROVE  Sessions!KeepsClosed
<1>1. RowsOK /\ sessionClock \in Nat /\ SessionIdle \in Nat
  BY Halves, TimeValues DEF RowsOK, Sessions!SessionAssumption
<1>2. ASSUME NEW f \in used, \A t \in stored : Sessions!Family(t) = f => ~Sessions!Leaf(t),
             NEW t \in stored', Sessions!Family(t) = f, Sessions!Leaf(t)'
      PROVE  FALSE
  BY <1>2 DEF Evolves, Sessions!Renews
<1>3. ASSUME NEW f \in used, ~Sessions!Open(f), Sessions!Open(f)'
      PROVE  \E p \in Threads, t \in Sessions!Lineage(f) :
               Sessions!Renews(p, t) /\ row[t].expires > sessionClock
  <2>1. PICK t \in stored' : Sessions!Family(t) = f /\ Sessions!Active(t, sessionClock)'
    BY <1>3 DEF Sessions!Open, Sessions!Lineage
  <2>2. sessionClock' \in Nat /\ sessionClock <= sessionClock' /\ t \in Sessions!Tokens
        /\ row' \in [Sessions!Tokens -> Sessions!Row]
    BY TimeValues DEF Sessions!IInv, Sessions!TypeOK, Evolves, Sessions!Times,
       Sessions!SessionAssumption
  <2>3. row'[t].expires \in Nat BY <2>2, RowFields
  <2>4. /\ Sessions!Leaf(t)' /\ row'[t].expires > sessionClock
        /\ row'[t].seen + SessionIdle > sessionClock'
    BY <1>1, <2>1, <2>2, <2>3 DEF Sessions!Active
  <2>5. CASE t \in stored
    <3>1. Sessions!Leaf(t) /\ row'[t].expires = row[t].expires
      BY <2>4, <2>5 DEF Evolves
    <3>2. CASE \E p \in Threads : Sessions!Renews(p, t)
      BY <2>1, <2>4, <2>5, <3>1, <3>2 DEF Sessions!Lineage
    <3>3. CASE row'[t].seen = row[t].seen
      <4>1. row[t].issued \in Nat /\ row[t].seen \in Nat
            /\ row[t].issued <= sessionClock /\ row[t].seen <= sessionClock
        BY <1>1, <2>5, RowFields DEF RowsOK
      <4>2. row[t].seen + SessionIdle > sessionClock BY <1>1, <2>2, <2>4, <3>3, <4>1
      <4>3. Sessions!Active(t, sessionClock) BY <2>4, <3>1, <4>1, <4>2 DEF Sessions!Active
      <4> QED BY <1>3, <2>1, <2>5, <4>3 DEF Sessions!Open, Sessions!Lineage
    <3> QED BY <2>4, <2>5, <3>2, <3>3 DEF Evolves
  <2>6. CASE t \notin stored
    <3>1. PICK u \in stored, p \in Threads : Sessions!Family(u) = Sessions!Family(t)
            /\ Sessions!Renews(p, u) /\ row'[t].expires = row[u].expires
      BY <2>1, <2>6 DEF Evolves
    <3> QED BY <2>1, <2>4, <3>1 DEF Sessions!Lineage
  <2> QED BY <2>5, <2>6
<1> QED BY <1>2, <1>3 DEF Sessions!KeepsClosed

\* A request leaves its transaction for idle by one of these steps.
LEMMA RequestEnds ==
  ASSUME Sessions!SessionAssumption, Sessions!IInv, [Sessions!Next]_Sessions!vars,
         NEW p \in Threads, sessionPc[p] \in {"transacting", "touching", "rereading"},
         sessionPc'[p] = "idle"
  PROVE  \/ Sessions!Issue(p) \/ Sessions!Look(p) \/ Sessions!Touch(p) \/ Sessions!Reread(p)
         \/ Sessions!Rotate(p) \/ Sessions!Logout(p)
<1>1. RequestsOK BY Halves
<1>2. sessionPc \in [Threads -> {"idle", "admitted", "transacting", "touching", "rereading"}]
  BY <1>1 DEF RequestsOK
<1>3. sessionPc' # sessionPc OBVIOUS
<1>4. PICK q \in Threads :
        \/ \E m \in Holders : Sessions!Login(q, m)
        \/ \E t \in Sessions!Tokens : Sessions!Use(q, t)
        \/ \E t \in Sessions!Tokens, o \in {"renew", "recover", "logout"} : Sessions!Admit(q, o, t)
        \/ Sessions!Issue(q) \/ Sessions!Look(q) \/ Sessions!Touch(q) \/ Sessions!Reread(q)
        \/ Sessions!Limit(q) \/ Sessions!Rotate(q) \/ Sessions!Logout(q)
  BY <1>3 DEF Sessions!Next, Sessions!vars, Sessions!ChangeAccess, Sessions!Purge,
     Sessions!Tick, Sessions!requests
<1>5. \A x \in Threads : x # q => sessionPc'[x] = sessionPc[x]
  BY <1>2, <1>4 DEF Sessions!Login, Sessions!Use, Sessions!Admit, Sessions!Issue,
     Sessions!Look, Sessions!Touch, Sessions!Reread, Sessions!Limit, Sessions!Rotate,
     Sessions!Logout, Sessions!Finish, Sessions!Stamp
<1>6. p = q BY <1>5
<1> QED BY <1>4, <1>6 DEF Sessions!Login, Sessions!Use, Sessions!Admit, Sessions!Limit

\* The answers of touches and logouts.
LEMMA AnswersTrue ==
  ASSUME Sessions!SessionAssumption, Sessions!IInv, [Sessions!Next]_Sessions!vars
  PROVE  Sessions!TrueAnswers
<1>1. RowsOK /\ RequestsOK BY Halves
<1>2. ASSUME NEW p \in Threads, sessionPc[p] \in {"transacting", "touching", "rereading"},
             sessionPc'[p] = "idle"
      PROVE  Sessions!Issue(p) \/ Sessions!Look(p) \/ Sessions!Touch(p) \/ Sessions!Reread(p) \/ Sessions!Rotate(p) \/ Sessions!Logout(p)
  BY <1>2, RequestEnds
<1>3. Sessions!TouchGrantsCurrent
  <2> SUFFICES ASSUME NEW p \in Threads, sessionPc[p] \in {"touching", "rereading"},
                      sessionPc'[p] = "idle",
                      verdict' = "granted"
               PROVE  Sessions!Leaf(tok[p])
    BY DEF Sessions!TouchGrantsCurrent
  <2>1. Sessions!Touch(p) \/ Sessions!Reread(p)
    BY <1>2 DEF Sessions!Issue, Sessions!Look, Sessions!Rotate, Sessions!Logout
  <2>2. CASE Sessions!Touch(p)
    <3>1. sessionPc[p] = "touching"
       /\ sessionPc \in [Threads -> {"idle", "admitted", "transacting", "touching", "rereading"}]
      BY <1>1, <2>2 DEF Sessions!Touch, RequestsOK
    <3>2. Sessions!Touchable(tok[p], at[p]) BY <2>2, <3>1 DEF Sessions!Touch
    <3> QED BY <3>2 DEF Sessions!Touchable
  <2>3. CASE Sessions!Reread(p)
    BY <2>3 DEF Sessions!Reread, Sessions!Finish, Sessions!Resolves, Sessions!Active
  <2> QED BY <2>1, <2>2, <2>3
<1>4. Sessions!LogoutCloses
  <2> SUFFICES ASSUME NEW p \in Threads, op[p] = "logout", sessionPc[p] = "transacting",
                      sessionPc'[p] = "idle",
                      verdict' = "granted", NEW t \in stored', Sessions!Family(t) = Sessions!Family(tok[p]), Sessions!Leaf(t)'
               PROVE  FALSE
    BY DEF Sessions!LogoutCloses
  <2>1. Sessions!Logout(p)
    BY <1>2 DEF Sessions!Issue, Sessions!Look, Sessions!Touch, Sessions!Reread, Sessions!Rotate
  <2>2. tok[p] \in stored /\ stored' = stored
     /\ row' = Sessions!Revoke(Sessions!ClosedBy(tok[p]))
    BY <1>1, <2>1 DEF Sessions!Logout, Sessions!Finish, RequestsOK
  <2>3. t \in Sessions!Tokens /\ t \in stored BY <1>1, <2>2 DEF RowsOK
  <2>4. t \notin Sessions!ClosedBy(tok[p])
    BY <1>1, <2>2, <2>3, RevokeType DEF Sessions!Leaf, RowsOK
  <2>5. Sessions!Leaf(t) BY <1>1, <2>2, <2>3, RevokeType DEF Sessions!Leaf, RowsOK
  <2> QED BY <2>2, <2>3, <2>4, <2>5 DEF Sessions!ClosedBy, Sessions!Lineage
<1> QED BY <1>3, <1>4 DEF Sessions!TrueAnswers

-----------------------------------------------------------------------------
(* Counting sessions *)

\* Sets of tokens are finite, and their subsets are no larger.
LEMMA TokensFinite ==
  ASSUME Sessions!SessionAssumption, NEW S, S \subseteq Sessions!Tokens
  PROVE  IsFiniteSet(S) /\ Cardinality(S) \in Nat
         /\ \A T \in SUBSET S : Cardinality(T) <= Cardinality(S)
<1>1. IsFiniteSet(Sessions!Generations)
  <2>1. 0 \in Int /\ MaxGeneration \in Int BY DEF Sessions!SessionAssumption
  <2> QED BY <2>1, FS_Interval DEF Sessions!Generations
<1>2. IsFiniteSet(Sessions!Tokens)
  BY <1>1, FS_Product, SessionSets DEF Sessions!Tokens, Sessions!SessionAssumption
<1>3. IsFiniteSet(S) BY <1>2, FS_Subset
<1> QED BY <1>3, FS_Subset, FS_CardinalityType

\* A login makes room, by the sessions that count at its own time, before it adds one.
LEMMA IssueCaps ==
  ASSUME Sessions!SessionAssumption, Sessions!IInv, NEW p \in Threads, Sessions!Issue(p),
         verdict' = "granted", NEW m \in Holders, who[p] = m
  PROVE  Cardinality(Sessions!Usable(m)') <= MaxActive
<1>1. RowsOK /\ RequestsOK BY Halves
<1>2. Sessions!IInv' BY IssueKeeps
<1> DEFINE now == at[p]
           C == Sessions!Countable(m, now)
           after == Sessions!Usable(m)'
<1>3. enabled[m] BY DEF Sessions!Issue, Sessions!Finish
<1>4. MaxActive \in Nat \ {0} /\ SessionIdle \in Nat BY DEF Sessions!SessionAssumption
<1>5. now <= sessionClock /\ now \in Nat /\ m \in Holders /\ sessionClock \in Nat
      /\ sessionClock' = sessionClock
  BY <1>1, TimeValues DEF RequestsOK, RowsOK, Sessions!Issue
<1>6. PICK f \in Families \ used, evicted \in Sessions!Oldest(C, Sessions!Overflow(C)) :
        /\ stored' = stored \cup {<<f, 0>>}
        /\ row' = [Sessions!Revoke({t \in stored : \E u \in evicted : Sessions!Family(t) = Sessions!Family(u)})
                     EXCEPT ![<<f, 0>>] =
                     [member |-> m, issued |-> now, seen |-> now,
                      expires |-> now + SessionLifetime, replaced |-> Sessions!Null, revoked |-> Sessions!Null]]
  BY <1>3 DEF Sessions!Issue
<1> DEFINE new == <<f, 0>>
           S == {t \in stored : \E u \in evicted : Sessions!Family(t) = Sessions!Family(u)}
           R == Sessions!Revoke(S)
<1>7. new \in Sessions!Tokens /\ Sessions!Family(new) = f
  BY TokenOf DEF Sessions!Generations, Sessions!SessionAssumption
<1>8. new \notin stored BY <1>1, <1>7 DEF RowsOK, Sessions!FamilyShape
<1>9. /\ R \in [Sessions!Tokens -> Sessions!Row]
      /\ \A t \in Sessions!Tokens :
           /\ R[t].member = row[t].member /\ R[t].seen = row[t].seen
           /\ R[t].expires = row[t].expires /\ R[t].replaced = row[t].replaced
           /\ t \in S => R[t].revoked # Sessions!Null
           /\ row[t].revoked # Sessions!Null => R[t].revoked # Sessions!Null
  BY <1>1, RevokeType DEF RowsOK
<1>10. \A t \in stored : t \in Sessions!Tokens /\ row'[t] = R[t]
  <2>1. row' = [R EXCEPT ![new] = [member |-> m, issued |-> now, seen |-> now,
                      expires |-> now + SessionLifetime, replaced |-> Sessions!Null, revoked |-> Sessions!Null]]
    BY <1>6
  <2> HIDE DEF R, new
  <2>2. \A t \in stored : t \in Sessions!Tokens /\ t # new BY <1>1, <1>8 DEF RowsOK
  <2> QED BY <1>7, <1>9, <2>1, <2>2
<1> HIDE DEF R
<1>11. C \subseteq stored /\ C \subseteq Sessions!Tokens
  BY <1>1 DEF C, Sessions!Countable, Sessions!Leaves, RowsOK
<1>12. evicted \in SUBSET C /\ Cardinality(evicted) = Sessions!Overflow(C)
  BY SessionSets DEF Sessions!Oldest
<1>13. after \subseteq (C \ evicted) \cup {new}
  <2> SUFFICES ASSUME NEW t \in after, t # new PROVE t \in C /\ t \notin evicted OBVIOUS
  <2>1. t \in stored /\ Sessions!Leaf(t)' /\ row'[t].member = m
        /\ row'[t].expires > sessionClock /\ row'[t].seen + SessionIdle > sessionClock
    BY <1>5, <1>6 DEF Sessions!Usable, Sessions!Leaves, Sessions!Active
  <2> HIDE DEF after, C, new, S, now
  <2>2. row'[t].revoked = Sessions!Null /\ row'[t].replaced = Sessions!Null
    BY <2>1 DEF Sessions!Leaf
  <2>3. Sessions!Leaf(t) /\ row[t].member = m /\ row[t].expires > sessionClock
        /\ row[t].seen + SessionIdle > sessionClock /\ t \notin S
    BY <1>9, <1>10, <2>1, <2>2 DEF Sessions!Leaf
  <2>4. row[t].seen \in Nat /\ row[t].expires \in Nat BY <1>1, <1>10, <2>1, RowFields DEF RowsOK
  <2>5. row[t].expires > now /\ row[t].seen > now - SessionIdle BY <1>4, <1>5, <2>3, <2>4
  <2>6. t \in C BY <2>1, <2>3, <2>5 DEF C, Sessions!Countable, Sessions!Leaves
  <2> QED BY <2>1, <2>3, <2>6 DEF S
<1>14. after \subseteq Sessions!Tokens
  BY <1>2 DEF Sessions!Usable, Sessions!Leaves, Sessions!IInv, Sessions!TypeOK
<1> HIDE DEF new, S, now, C, after
<1>15. IsFiniteSet(C) /\ Cardinality(C) \in Nat BY <1>11, TokensFinite
<1>16. IsFiniteSet(C \ evicted)
   /\ Cardinality(C \ evicted) = Cardinality(C) - Sessions!Overflow(C)
  <2>1. IsFiniteSet(evicted) /\ C \cap evicted = evicted BY <1>12, <1>15, FS_Subset
  <2>2. Cardinality(C \ evicted) = Cardinality(C) - Cardinality(C \cap evicted)
        /\ IsFiniteSet(C \ evicted)
    BY <1>15, FS_Difference
  <2> QED BY <1>12, <2>1, <2>2
<1>17. Cardinality(C \ evicted) <= MaxActive - 1
  BY <1>4, <1>15, <1>16, SessionSets DEF Sessions!Overflow
<1>18. IsFiniteSet((C \ evicted) \cup {new})
      /\ Cardinality((C \ evicted) \cup {new}) <= Cardinality(C \ evicted) + 1
  <2>1. IsFiniteSet((C \ evicted) \cup {new}) BY <1>16, FS_AddElement
  <2>2. Cardinality((C \ evicted) \cup {new}) \in
          {Cardinality(C \ evicted), Cardinality(C \ evicted) + 1}
    BY <1>16, FS_AddElement
  <2>3. Cardinality(C \ evicted) \in Nat BY <1>16, FS_CardinalityType
  <2> QED BY <2>1, <2>2, <2>3
<1>19. Cardinality(after) <= Cardinality((C \ evicted) \cup {new})
  BY <1>13, <1>18, FS_Subset
<1>20. Cardinality(after) \in Nat /\ Cardinality(C \ evicted) \in Nat
       /\ Cardinality((C \ evicted) \cup {new}) \in Nat
  BY <1>14, <1>16, <1>18, TokensFinite, FS_CardinalityType
<1>21. Cardinality(after) <= MaxActive BY <1>4, <1>17, <1>18, <1>19, <1>20
<1> QED BY <1>21 DEF after

-----------------------------------------------------------------------------
(* The theorems *)

\* A step of Identity while the sessions move is a step of the sessions.
LEMMA SessionsMove ==
  ASSUME [Next]_vars, part' = "sessions" PROVE part = "sessions" /\ [Sessions!Next]_Sessions!vars
BY DEF Next, vars, sessionVars, Sessions!vars

\* The inductive invariant of the sessions.
LEMMA SessionsInvariant == Spec => [](part = "sessions" => Sessions!IInv)
<1> DEFINE Inv == part = "sessions" => Sessions!IInv
<1> USE IdentityAssumptions
<1>1. Init => Inv BY SessionInit DEF Init
<1>2. Inv /\ [Next]_vars => Inv' BY SessionNext, SessionsMove
<1> QED BY <1>1, <1>2, PTL DEF Spec

\* A family of session generations has one current generation, one deadline and one
\* member, and while it can be used every predecessor is on record, however logins,
\* renewals, logouts, changes of access and cleanups interleave and however long a
\* request waits for its transaction.
THEOREM SessionLineageSafe == Spec => []SessionLineage
<1>1. (part = "sessions" => Sessions!IInv) => SessionLineage
  BY LineageFollows, IdentityAssumptions DEF SessionLineage
<1> QED BY <1>1, SessionsInvariant, PTL

\* A member whose access was taken away has no current session, whatever login or
\* renewal was on its way.
THEOREM DisabledIsOutSafe == Spec => []DisabledIsOut
<1>1. (part = "sessions" => Sessions!IInv) => DisabledIsOut
  BY DisabledFollows DEF DisabledIsOut
<1> QED BY <1>1, SessionsInvariant, PTL

\* No request is granted on a session that is no longer current when the request's
\* touch or re-read runs, and a logout that reports success leaves no current
\* generation of its family.
THEOREM AnswersSafe == Spec => AnswersHold
<1>1. (part = "sessions" => Sessions!IInv) /\ [Next]_vars
      => [part = "sessions" => Sessions!TrueAnswers]_vars
  <2> SUFFICES ASSUME part = "sessions" => Sessions!IInv, [Next]_vars, part = "sessions"
               PROVE  Sessions!TrueAnswers
    OBVIOUS
  <2>1. [Sessions!Next]_Sessions!vars BY DEF Next, vars, sessionVars, Sessions!vars
  <2> QED BY <2>1, AnswersTrue, IdentityAssumptions
<1> QED BY <1>1, SessionsInvariant, PTL DEF Spec, AnswersHold

\* A family without a current generation stays closed, and one that cannot
\* authenticate can do so again only before its deadline and by a request that was
\* stamped while it was current, however long requests wait with their timestamps.
THEOREM ClosedForGood == Spec => ClosedStaysClosed
<1>1. (part = "sessions" => Sessions!IInv) /\ [Next]_vars
      => [part = "sessions" => Sessions!KeepsClosed]_vars
  <2> SUFFICES ASSUME part = "sessions" => Sessions!IInv, [Next]_vars, part = "sessions"
               PROVE  Sessions!KeepsClosed
    OBVIOUS
  <2>1. [Sessions!Next]_Sessions!vars BY DEF Next, vars, sessionVars, Sessions!vars
  <2>2. Sessions!IInv' /\ Evolves BY <2>1, SessionNext, IdentityAssumptions
  <2> QED BY <2>2, NothingReopens, IdentityAssumptions
<1> QED BY <1>1, SessionsInvariant, PTL DEF Spec, ClosedStaysClosed

\* A login that succeeds leaves its member no more usable sessions than the limit at
\* the moment it commits, however late its clock value and however many logins race.
THEOREM LoginsCappedSafe == Spec => LoginsCapped
<1>1. (part = "sessions" => Sessions!IInv) /\ [Next]_vars
      => [part = "sessions" => Sessions!LoginKeepsCap]_vars
  <2> SUFFICES ASSUME part = "sessions" => Sessions!IInv, [Next]_vars, part = "sessions"
               PROVE  Sessions!LoginKeepsCap
    OBVIOUS
  <2>1. [Sessions!Next]_Sessions!vars BY DEF Next, vars, sessionVars, Sessions!vars
  <2>2. ASSUME NEW p \in Threads, NEW m \in Holders, op[p] = "login", who[p] = m,
               sessionPc[p] = "transacting", sessionPc'[p] = "idle", verdict' = "granted"
        PROVE  Sessions!Cardinality(Sessions!Usable(m)') <= MaxActive
    <3>1. \/ Sessions!Issue(p) \/ Sessions!Look(p) \/ Sessions!Touch(p) \/ Sessions!Reread(p)
          \/ Sessions!Rotate(p) \/ Sessions!Logout(p)
      BY <2>1, <2>2, RequestEnds, IdentityAssumptions
    <3>2. Sessions!Issue(p)
      BY <2>2, <3>1 DEF Sessions!Look, Sessions!Touch, Sessions!Reread, Sessions!Rotate,
         Sessions!Logout
    <3> QED BY <2>2, <3>2, IssueCaps, SessionSets, IdentityAssumptions
  <2> QED BY <2>2 DEF Sessions!LoginKeepsCap
<1> QED BY <1>1, SessionsInvariant, PTL DEF Spec, LoginsCapped
=============================================================================
