---------------------------- MODULE ClassesProofs ----------------------------
(***************************************************************************)
(* Theorems about the tables of classes, for every number of classes,      *)
(* members, uses and nested declarations.                                  *)
(***************************************************************************)
EXTENDS ClassesProps, FiniteSetTheorems, SequenceTheorems, TLAPS

-----------------------------------------------------------------------------
(* Maps.                                                                   *)

LEMMA WithoutEntries == DOMAIN NoEntries = {} /\ \A x : x \notin DOMAIN NoEntries
  BY DEF NoEntries

-----------------------------------------------------------------------------
(* The stack of visits.                                                    *)

Visits == Seq(ClassVisit \cup MemberVisit)

\* The visits of classes.
Opened(v) == {v[i] : i \in {j \in DOMAIN v : v[j].op = "class"}}

Replaced(S, a, b) == (S \ {a}) \cup {b}

\* What a class's visit has come to in what is written of the class.
ClassLaw(a, tx) ==
  /\ a.name \in DOMAIN tx
  /\ a.member <= Len(tx[a.name].members)
  /\ ~a.again => a.member = Len(tx[a.name].members)
  /\ \A i \in DOMAIN tx[a.name].members :
       /\ a.phase = "properties" /\ i <= a.member => tx[a.name].members[i].kind = "property"
       /\ a.phase = "methods" /\ i > a.member => tx[a.name].members[i].kind = "method"

\* The member that is visited is the next one of the class.
Follows(a, mb, tx) ==
  /\ mb.kind = "property" => a.phase = "properties"
  /\ mb.kind = "method" => a.phase = "methods"
  /\ a.again => /\ a.member < Len(tx[a.name].members)
                /\ tx[a.name].members[a.member + 1] = mb

\* Statements are visited in methods only, so that no class but the one on top is among
\* its properties still.
Stacked(v, tx) ==
  /\ \A i \in DOMAIN v : v[i].op = "class" => ClassLaw(v[i], tx)
  /\ \A i, j \in DOMAIN v :
       v[i].op = "class" /\ v[j].op = "class" /\ v[i].name = v[j].name => i = j
  /\ \A i \in DOMAIN v : v[i].op = "member" =>
       i - 1 \in DOMAIN v /\ v[i - 1].op = "class" /\ Follows(v[i - 1], v[i].member, tx)
  /\ \A i \in DOMAIN v : v[i].op = "class" /\ v[i].phase = "properties" =>
       \/ i = Len(v)
       \/ i = Len(v) - 1 /\ v[Len(v)].op = "member" /\ v[Len(v)].member.kind = "property"

\* Nothing else is written of the classes that are being visited, or only of one.
Unwritten(v, tx, ty, c) ==
  \A a \in Opened(v) : a.name # c => a.name \in DOMAIN ty /\ ty[a.name] = tx[a.name]

LEMMA VisitAt ==
  ASSUME NEW v \in Visits, NEW i \in DOMAIN v
  PROVE  /\ i \in 1 .. Len(v) /\ i \in Nat /\ i \in Int /\ Len(v) \in Nat
         /\ v[i].op = "class" => v[i] \in ClassVisit
         /\ v[i].op = "member" => v[i] \in MemberVisit
         /\ v[i].op \in {"class", "member"}
  <1>1. i \in 1 .. Len(v) /\ Len(v) \in Nat
    BY DEF Visits
  <1>2. v[i] \in ClassVisit \cup MemberVisit
    BY <1>1, ElementOfSeq DEF Visits
  <1>3. QED
    BY <1>1, <1>2 DEF ClassVisit, MemberVisit

LEMMA OpenedIs ==
  ASSUME NEW v \in Visits
  PROVE  /\ \A i \in DOMAIN v : v[i].op = "class" => v[i] \in Opened(v)
         /\ \A a \in Opened(v) : \E i \in DOMAIN v : a = v[i] /\ v[i].op = "class"
         /\ \A a \in Opened(v) : a \in ClassVisit
  BY VisitAt DEF Opened

\* Two visits of a class of the same name are one.
LEMMA OneVisit ==
  ASSUME NEW v \in Visits, NEW tx, Stacked(v, tx)
  PROVE  /\ \A a, b \in Opened(v) : a.name = b.name => a = b
         /\ \A a \in Opened(v) : ClassLaw(a, tx)
  <1>1. \A a, b \in Opened(v) : a.name = b.name => a = b
    <2> TAKE a, b \in Opened(v)
    <2> HAVE a.name = b.name
    <2>1. PICK i \in DOMAIN v : a = v[i] /\ v[i].op = "class"
      BY OpenedIs
    <2>2. PICK j \in DOMAIN v : b = v[j] /\ v[j].op = "class"
      BY OpenedIs
    <2>3. i = j
      BY <2>1, <2>2 DEF Stacked
    <2>4. QED
      BY <2>1, <2>2, <2>3
  <1>2. \A a \in Opened(v) : ClassLaw(a, tx)
    BY OpenedIs DEF Stacked
  <1>3. QED
    BY <1>1, <1>2

LEMMA Appended ==
  ASSUME NEW v \in Visits, NEW x \in ClassVisit \cup MemberVisit
  PROVE  LET w == Append(v, x)
         IN  /\ w \in Visits /\ Len(w) = Len(v) + 1 /\ Len(v) \in Nat
             /\ DOMAIN v = 1 .. Len(v) /\ DOMAIN w = 1 .. Len(v) + 1
             /\ \A i \in DOMAIN v : w[i] = v[i]
             /\ w[Len(v) + 1] = x
  BY AppendProperties DEF Visits

\* A class is declared where every other is among its methods.
LEMMA PushedClass ==
  ASSUME NEW v \in Visits, NEW tx, NEW ty, Stacked(v, tx),
         NEW a \in ClassVisit, ClassLaw(a, ty), Unwritten(v, tx, ty, a.name),
         \A b \in Opened(v) : b.name # a.name /\ b.phase = "methods"
  PROVE  /\ Append(v, a) \in Visits
         /\ Stacked(Append(v, a), ty)
         /\ Opened(Append(v, a)) = Opened(v) \cup {a}
  <1> DEFINE w == Append(v, a)
             n == Len(v)
  <1>1. /\ w \in Visits /\ n \in Nat /\ DOMAIN v = 1 .. n /\ DOMAIN w = 1 .. n + 1
        /\ \A i \in DOMAIN v : w[i] = v[i]
        /\ w[n + 1] = a
    BY Appended
  <1>2. a.op = "class" /\ a.op # "member"
    BY DEF ClassVisit
  <1>3. \A i \in DOMAIN w : i = n + 1 \/ i \in DOMAIN v
    BY <1>1
  <1>4. \A i \in DOMAIN v : v[i].op = "class" =>
          v[i].name # a.name /\ v[i].phase = "methods" /\ v[i].name \in DOMAIN ty /\ ty[v[i].name] = tx[v[i].name]
    BY OpenedIs DEF Unwritten
  <1> HIDE DEF w, n
  <1>5. \A i \in DOMAIN w : w[i].op = "class" => ClassLaw(w[i], ty)
    BY <1>1, <1>3, <1>4 DEF Stacked, ClassLaw
  <1>6. \A i, j \in DOMAIN w :
          w[i].op = "class" /\ w[j].op = "class" /\ w[i].name = w[j].name => i = j
    BY <1>1, <1>3, <1>4 DEF Stacked
  <1>7. \A i \in DOMAIN w : w[i].op = "member" =>
          i - 1 \in DOMAIN w /\ w[i - 1].op = "class" /\ Follows(w[i - 1], w[i].member, ty)
    <2> TAKE i \in DOMAIN w
    <2> HAVE w[i].op = "member"
    <2>1. i \in DOMAIN v /\ w[i] = v[i]
      BY <1>1, <1>2, <1>3
    <2>2. i - 1 \in DOMAIN v /\ v[i - 1].op = "class" /\ Follows(v[i - 1], v[i].member, tx)
      BY <2>1 DEF Stacked
    <2>3. w[i - 1] = v[i - 1] /\ i - 1 \in DOMAIN w
      BY <1>1, <2>2
    <2>4. ty[v[i - 1].name] = tx[v[i - 1].name]
      BY <2>2, <1>4
    <2>5. QED
      BY <2>1, <2>2, <2>3, <2>4 DEF Follows
  <1>8. Opened(w) = Opened(v) \cup {a}
    <2>1. \A x \in Opened(w) : x \in Opened(v) \cup {a}
      BY <1>1, <1>3, OpenedIs
    <2>2. \A x \in Opened(v) : x \in Opened(w)
      <3> TAKE x \in Opened(v)
      <3>1. PICK i \in DOMAIN v : x = v[i] /\ v[i].op = "class"
        BY OpenedIs
      <3>2. i \in DOMAIN w /\ w[i] = v[i]
        BY <1>1
      <3>3. QED
        BY <3>1, <3>2, <1>1, OpenedIs
    <2>3. a \in Opened(w)
      <3>1. n + 1 \in DOMAIN w
        BY <1>1
      <3>2. QED
        BY <3>1, <1>1, <1>2, OpenedIs
    <2>4. QED
      BY <2>1, <2>2, <2>3
  <1>9. \A i \in DOMAIN w : w[i].op = "class" /\ w[i].phase = "properties" => i = n + 1
    BY <1>1, <1>3, <1>4
  <1>10. QED
    BY <1>1, <1>5, <1>6, <1>7, <1>8, <1>9, Appended DEF Stacked, w

\* The visit of a member of the class on top, whose own visit is in a phase then.
LEMMA PushedMember ==
  ASSUME NEW v \in Visits, NEW tx, Stacked(v, tx), v # <<>>, v[Len(v)].op = "class",
         NEW a \in ClassVisit, NEW mb \in Member,
         a.name = v[Len(v)].name, a.again = v[Len(v)].again, a.member = v[Len(v)].member,
         Follows(a, mb, tx), ClassLaw(a, tx)
  PROVE  LET w == Append([v EXCEPT ![Len(v)] = a], [op |-> "member", member |-> mb])
         IN  /\ w \in Visits
             /\ Stacked(w, tx)
             /\ Opened(w) = Replaced(Opened(v), v[Len(v)], a)
  <1> DEFINE n == Len(v)
             x == [op |-> "member", member |-> mb]
             u == [v EXCEPT ![n] = a]
             w == Append(u, x)
  <1>1. n \in 1 .. Len(v) /\ n \in Nat /\ n >= 1 /\ DOMAIN v = 1 .. n /\ n - 1 \in Int
    BY EmptySeq DEF Visits
  <1>2. x \in MemberVisit /\ x.op = "member" /\ x.op # "class" /\ x.member = mb /\ a.op = "class"
    BY DEF MemberVisit, ClassVisit
  <1>3. /\ u \in Visits /\ Len(u) = n
        /\ \A i \in 1 .. n : u[i] = IF i = n THEN a ELSE v[i]
    BY <1>1, ExceptSeq DEF Visits
  <1> HIDE DEF x, u
  <1>4. /\ w \in Visits /\ DOMAIN u = 1 .. n /\ DOMAIN w = 1 .. n + 1
        /\ \A i \in DOMAIN u : w[i] = u[i]
        /\ w[n + 1] = x
    <2>1. x \in ClassVisit \cup MemberVisit
      BY <1>2
    <2>2. /\ w \in Visits /\ DOMAIN u = 1 .. Len(u) /\ DOMAIN w = 1 .. Len(u) + 1
          /\ \A i \in DOMAIN u : w[i] = u[i]
          /\ w[Len(u) + 1] = x
      BY <2>1, <1>3, Appended
    <2>3. QED
      BY <2>2, <1>3
  <1> HIDE DEF w
  <1>5. /\ \A i \in 1 .. n : w[i] = IF i = n THEN a ELSE v[i]
        /\ \A i \in DOMAIN w : i = n + 1 \/ i \in DOMAIN v
        /\ \A i \in DOMAIN v : i \in DOMAIN w
        /\ n \in DOMAIN w /\ w[n] = a /\ n + 1 \in DOMAIN w /\ n + 1 # n /\ n + 1 - 1 = n
        /\ n + 1 \notin DOMAIN v
    <2> HIDE DEF n
    <2>1. /\ \A i \in 1 .. n + 1 : i = n + 1 \/ i \in 1 .. n
          /\ \A i \in 1 .. n : i \in 1 .. n + 1
          /\ n \in 1 .. n /\ n + 1 # n /\ n + 1 - 1 = n /\ n + 1 \in 1 .. n + 1
          /\ n + 1 \notin 1 .. n
      BY <1>1
    <2>2. \A i \in 1 .. n : w[i] = IF i = n THEN a ELSE v[i]
      BY <1>3, <1>4
    <2>3. n \in DOMAIN w /\ w[n] = a
      BY <1>4, <2>1, <2>2
    <2>4. QED
      BY <1>1, <1>4, <2>1, <2>2, <2>3
  <1> HIDE DEF n
  <1>6. \A i \in DOMAIN w : w[i].op = "class" => i \in DOMAIN v /\ v[i].op = "class"
                                                 /\ w[i].name = v[i].name
                                                 /\ (w[i] = v[i] \/ w[i] = a)
    BY <1>1, <1>2, <1>4, <1>5 DEF n
  <1>7. \A i \in DOMAIN w : w[i].op = "class" => ClassLaw(w[i], tx)
    BY <1>6 DEF Stacked
  <1>8. \A i, j \in DOMAIN w :
          w[i].op = "class" /\ w[j].op = "class" /\ w[i].name = w[j].name => i = j
    BY <1>6 DEF Stacked
  <1>9. \A i \in DOMAIN w : w[i].op = "member" =>
          i - 1 \in DOMAIN w /\ w[i - 1].op = "class" /\ Follows(w[i - 1], w[i].member, tx)
    <2> TAKE i \in DOMAIN w
    <2> HAVE w[i].op = "member"
    <2>1. CASE i = n + 1
      BY <2>1, <1>2, <1>4, <1>5
    <2>2. CASE i \in DOMAIN v
      <3>1. i # n /\ w[i] = v[i] /\ i \in 1 .. n
        BY <2>2, <1>1, <1>2, <1>5
      <3>2. i - 1 \in DOMAIN v /\ v[i - 1].op = "class" /\ Follows(v[i - 1], v[i].member, tx)
        BY <2>2, <3>1 DEF Stacked
      <3>3. i - 1 # n /\ i - 1 \in 1 .. n
        BY <3>1, <3>2, <1>1
      <3>4. QED
        BY <3>1, <3>2, <3>3, <1>5
    <2>3. QED
      BY <2>1, <2>2, <1>5
  <1>10. Opened(w) = (Opened(v) \ {v[n]}) \cup {a}
    <2>1. \A y \in Opened(w) : y \in (Opened(v) \ {v[n]}) \cup {a}
      <3> TAKE y \in Opened(w)
      <3>1. PICK i \in DOMAIN w : y = w[i] /\ w[i].op = "class"
        BY <1>4, OpenedIs
      <3>2. i \in DOMAIN v /\ v[i].op = "class" /\ v[i] \in Opened(v)
        BY <3>1, <1>6, OpenedIs
      <3>3. i = n \/ (w[i] = v[i] /\ v[i].name # v[n].name)
        BY <3>2, <1>1, <1>5 DEF Stacked, n
      <3>4. QED
        BY <3>1, <3>2, <3>3, <1>5
    <2>2. \A y \in Opened(v) : y # v[n] => y \in Opened(w)
      <3> TAKE y \in Opened(v)
      <3> HAVE y # v[n]
      <3>1. PICK i \in DOMAIN v : y = v[i] /\ v[i].op = "class"
        BY OpenedIs
      <3>2. i # n /\ i \in DOMAIN w /\ w[i] = v[i]
        BY <3>1, <1>1, <1>5
      <3>3. QED
        BY <3>1, <3>2, <1>4, OpenedIs
    <2>3. a \in Opened(w)
      BY <1>2, <1>4, <1>5, OpenedIs
    <2>4. QED
      BY <2>1, <2>2, <2>3
  <1>11. \A i \in DOMAIN w : w[i].op = "class" /\ w[i].phase = "properties" =>
           i = n /\ mb.kind = "property"
    <2> TAKE i \in DOMAIN w
    <2> HAVE w[i].op = "class" /\ w[i].phase = "properties"
    <2>1. i \in DOMAIN v /\ v[i].op = "class"
      BY <1>6
    <2>2. CASE i = n
      <3>1. mb.kind # "method"
        BY <2>2, <1>5 DEF Follows
      <3>2. mb.kind \in {"property", "method"}
        BY DEF Member
      <3>3. QED
        BY <2>2, <3>1, <3>2
    <2>3. CASE i # n
      <3>1. w[i] = v[i]
        BY <2>1, <2>3, <1>1, <1>5
      <3>2. FALSE
        BY <2>1, <2>3, <3>1 DEF Stacked, n
      <3>3. QED
        BY <3>2
    <2>4. QED
      BY <2>2, <2>3
  <1>12. Len(w) = n + 1
    BY <1>4, <1>1 DEF Visits
  <1>13. \A i \in DOMAIN w : w[i].op = "class" /\ w[i].phase = "properties" =>
           i = Len(w) - 1 /\ w[Len(w)].op = "member" /\ w[Len(w)].member.kind = "property"
    BY <1>1, <1>2, <1>4, <1>11, <1>12
  <1>14. QED
    BY <1>4, <1>7, <1>8, <1>9, <1>10, <1>13 DEF Stacked, Replaced, w, u, x, n

\* Nothing is left of the class on top.
LEMMA Cut ==
  ASSUME NEW v \in Visits, NEW tx, Stacked(v, tx), NEW k \in DOMAIN v, v[k].op = "class",
         k = Len(v) \/ (k = Len(v) - 1 /\ v[Len(v)].op = "member")
  PROVE  LET u == SubSeq(v, 1, k - 1)
         IN  /\ u \in Visits
             /\ Stacked(u, tx)
             /\ Opened(u) = Opened(v) \ {v[k]}
             /\ \A a \in Opened(u) : a.name # v[k].name /\ a.phase = "methods"
  <1> DEFINE u == SubSeq(v, 1, k - 1)
  <1>1. k \in Nat /\ k >= 1 /\ k - 1 \in Nat /\ k \in 1 .. Len(v) /\ DOMAIN v = 1 .. Len(v)
    BY VisitAt DEF Visits
  <1>2. /\ \A i \in 1 .. k - 1 : i \in DOMAIN v /\ i # k /\ i \in 1 .. Len(v)
        /\ \A i \in DOMAIN v : i = k \/ i \in 1 .. k - 1 \/ i = Len(v)
        /\ \A i \in 1 .. k - 1 : i - 1 \in DOMAIN v => i - 1 \in 1 .. k - 1
        /\ \A i \in 1 .. k - 1 : 1 + i - 1 = i
    BY <1>1
  <1>3. \A i \in 1 .. k - 1 : v[i] \in ClassVisit \cup MemberVisit
    BY <1>2, ElementOfSeq DEF Visits
  <1>4. u \in Visits /\ Len(u) = k - 1 /\ DOMAIN u = 1 .. k - 1
    <2>1. u \in Visits /\ Len(u) = IF 1 <= k - 1 THEN k - 1 - 1 + 1 ELSE 0
      BY <1>1, <1>3, SubSeqProperties DEF Visits
    <2>2. QED
      BY <2>1, <1>1 DEF Visits
  <1>5. \A i \in DOMAIN u : u[i] = v[i]
    <2>1. \A i \in 1 .. (k - 1) - 1 + 1 : u[i] = v[1 + i - 1]
      BY <1>1, <1>3, SubSeqProperties
    <2>2. (k - 1) - 1 + 1 = k - 1
      BY <1>1
    <2>3. QED
      BY <2>1, <2>2, <1>2, <1>4
  <1> HIDE DEF u
  <1>6. \A i \in DOMAIN u : i \in DOMAIN v /\ i # k /\ (i - 1 \in DOMAIN v => i - 1 \in DOMAIN u)
    BY <1>2, <1>4
  <1>7. \A i \in DOMAIN u : u[i].op = "class" => u[i].phase = "methods"
    <2> SUFFICES ASSUME NEW i \in DOMAIN u, u[i].op = "class" PROVE u[i].phase = "methods"
      OBVIOUS
    <2>1. i \in DOMAIN v /\ u[i] = v[i] /\ i # Len(v) /\ i # k
      BY <1>1, <1>4, <1>5, <1>6
    <2>2. i = Len(v) - 1 => k = Len(v)
      BY <2>1
    <2>3. v[i].phase # "properties"
      BY <2>1, <2>2 DEF Stacked
    <2>4. v[i] \in ClassVisit
      BY <2>1, VisitAt
    <2>5. QED
      BY <2>1, <2>3, <2>4 DEF ClassVisit
  <1>8. Stacked(u, tx)
    <2>1. \A i \in DOMAIN u : u[i].op = "class" => ClassLaw(u[i], tx)
      BY <1>5, <1>6 DEF Stacked
    <2>2. \A i, j \in DOMAIN u :
            u[i].op = "class" /\ u[j].op = "class" /\ u[i].name = u[j].name => i = j
      BY <1>5, <1>6, ZenonT(60) DEF Stacked
    <2>3. \A i \in DOMAIN u : u[i].op = "member" =>
            i - 1 \in DOMAIN u /\ u[i - 1].op = "class" /\ Follows(u[i - 1], u[i].member, tx)
      BY <1>5, <1>6 DEF Stacked
    <2>4. QED
      BY <1>7, <2>1, <2>2, <2>3 DEF Stacked
  <1>9. \A a \in Opened(u) : a \in Opened(v) /\ a.name # v[k].name /\ a.phase = "methods"
    <2> TAKE a \in Opened(u)
    <2>1. PICK i \in DOMAIN u : a = u[i] /\ u[i].op = "class"
      BY <1>4, OpenedIs
    <2>2. i \in DOMAIN v /\ i # k /\ a = v[i] /\ v[i].op = "class"
      BY <2>1, <1>5, <1>6
    <2>3. QED
      BY <1>7, <2>1, <2>2, OpenedIs DEF Stacked
  <1>10. \A a \in Opened(v) : a # v[k] => a \in Opened(u)
    <2> TAKE a \in Opened(v)
    <2> HAVE a # v[k]
    <2>1. PICK i \in DOMAIN v : a = v[i] /\ v[i].op = "class"
      BY OpenedIs
    <2>2. v[i].op # "member"
      BY <2>1
    <2>3. i \in DOMAIN u /\ u[i].op = "class" /\ a = u[i]
      BY <2>1, <2>2, <1>2, <1>4, <1>5
    <2>4. QED
      BY <2>3, <1>4, OpenedIs
  <1>11. QED
    BY <1>4, <1>8, <1>9, <1>10 DEF u

\* The class is left, with its visit, or another one of it, on top.
LEMMA BackTo ==
  ASSUME NEW v \in Visits, NEW tx, NEW ty, Stacked(v, tx), NEW k \in DOMAIN v,
         v[k].op = "class",
         k = Len(v) \/ (k = Len(v) - 1 /\ v[Len(v)].op = "member"),
         NEW b \in ClassVisit, b.name = v[k].name, ClassLaw(b, ty),
         Unwritten(v, tx, ty, b.name)
  PROVE  LET w == Append(SubSeq(v, 1, k - 1), b)
         IN  /\ w \in Visits
             /\ Stacked(w, ty)
             /\ Opened(w) = Replaced(Opened(v), v[k], b)
  <1> DEFINE u == SubSeq(v, 1, k - 1)
  <1>1. /\ u \in Visits
        /\ Stacked(u, tx)
        /\ Opened(u) = Opened(v) \ {v[k]}
        /\ \A a \in Opened(u) : a.name # b.name /\ a.phase = "methods"
    BY Cut
  <1> HIDE DEF u
  <1>2. Unwritten(u, tx, ty, b.name)
    BY <1>1 DEF Unwritten
  <1>3. QED
    BY <1>1, <1>2, PushedClass DEF Replaced, u
-----------------------------------------------------------------------------
(* The tables.                                                             *)

\* What operator[] finds after an entry was made, and after an inheritance.
LEMMA EntryWith ==
  ASSUME NEW table, NEW c, NEW e, NEW x
  PROVE  Entry(With(table, c, e), x) = IF x = c THEN e ELSE Entry(table, x)
  <1>1. x \in DOMAIN With(table, c, e) <=> x = c \/ x \in DOMAIN table
    BY DEF With
  <1>2. x = c => With(table, c, e)[x] = e
    BY DEF With
  <1>3. x # c /\ x \in DOMAIN table => With(table, c, e)[x] = table[x]
    BY DEF With
  <1>4. QED
    BY <1>1, <1>2, <1>3 DEF Entry

LEMMA InheritedDomain ==
  ASSUME NEW table, NEW c, NEW parent
  PROVE  DOMAIN Inherited(table, c, parent)
           = DOMAIN table \cup (IF parent = NoClass THEN {} ELSE {parent, c})
  <1>1. CASE parent = NoClass
    BY <1>1 DEF Inherited
  <1>2. CASE parent # NoClass
    <2> DEFINE made == With(table, parent, Entry(table, parent))
               last == With(made, c, Entry(table, parent))
    <2>1. DOMAIN made = DOMAIN table \cup {parent}
      BY DEF With
    <2>2. DOMAIN last = DOMAIN made \cup {c}
      BY DEF With
    <2>3. Inherited(table, c, parent) = last
      BY <1>2 DEF Inherited
    <2> HIDE DEF made, last
    <2>4. QED
      BY <1>2, <2>1, <2>2, <2>3
  <1>3. QED
    BY <1>1, <1>2

LEMMA EntryInherited ==
  ASSUME NEW table, NEW c, NEW parent, NEW x
  PROVE  Entry(Inherited(table, c, parent), x)
           = IF x = c /\ parent # NoClass THEN Entry(table, parent) ELSE Entry(table, x)
  <1>1. CASE parent = NoClass
    BY <1>1 DEF Inherited
  <1>2. CASE parent # NoClass
    <2> DEFINE made == With(table, parent, Entry(table, parent))
               last == With(made, c, Entry(table, parent))
    <2>1. Inherited(table, c, parent) = last
      BY <1>2 DEF Inherited
    <2>2. Entry(made, x) = Entry(table, x)
      BY EntryWith
    <2>3. Entry(last, x) = IF x = c THEN Entry(table, parent) ELSE Entry(made, x)
      BY EntryWith
    <2> HIDE DEF made, last
    <2>4. QED
      BY <1>2, <2>1, <2>2, <2>3
  <1>3. QED
    BY <1>1, <1>2

IsAMap(e) == e = [x \in DOMAIN e |-> e[x]]

LEMMA MapsAre ==
  /\ IsAMap(NoEntries)
  /\ \A map, key, value : IsAMap(With(map, key, value))
  BY DEF IsAMap, NoEntries, With

LEMMA WithSame ==
  ASSUME NEW map, IsAMap(map), NEW key \in DOMAIN map
  PROVE  With(map, key, map[key]) = map
  <1>1. With(map, key, map[key]) = [x \in DOMAIN map |-> map[x]]
    BY DEF With
  <1>2. QED
    BY <1>1 DEF IsAMap

PropertyEntry(e) ==
  /\ IsAMap(e) /\ DOMAIN e \subseteq PropNames /\ IsFiniteSet(DOMAIN e)
  /\ \A p \in DOMAIN e : e[p] \in Nat \ {0}

Overrider  == [class : ClassNames, copy : {1}]
MethodEntry(e) ==
  /\ IsAMap(e) /\ DOMAIN e \subseteq MethodNames /\ IsFiniteSet(DOMAIN e)
  /\ \A m \in DOMAIN e : e[m] \in [slot : Nat \ {0}, function : Overrider]

Tables ==
  /\ DOMAIN properties \subseteq DOMAIN types
  /\ DOMAIN methods \subseteq DOMAIN types
  /\ \A c \in ClassNames : PropertyEntry(Entry(properties, c)) /\ MethodEntry(Entry(methods, c))

LEMMA NothingIsAnEntry == PropertyEntry(NoEntries) /\ MethodEntry(NoEntries)
  BY WithoutEntries, MapsAre, FS_EmptySet DEF PropertyEntry, MethodEntry

LEMMA FiniteMap ==
  ASSUME NEW map, NEW key, NEW value, IsFiniteSet(DOMAIN map)
  PROVE  IsFiniteSet(DOMAIN With(map, key, value))
  <1>1. DOMAIN With(map, key, value) = DOMAIN map \cup {key}
    BY DEF With
  <1>2. QED
    BY <1>1, FS_AddElement

LEMMA AnotherProperty ==
  ASSUME NEW e, PropertyEntry(e), NEW p \in PropNames, NEW n \in Nat \ {0}
  PROVE  PropertyEntry(With(e, p, n))
  <1>1. IsFiniteSet(DOMAIN With(e, p, n)) /\ IsAMap(With(e, p, n))
    BY FiniteMap, MapsAre DEF PropertyEntry
  <1>2. QED
    BY <1>1 DEF PropertyEntry, With

LEMMA AnotherMethod ==
  ASSUME NEW e, MethodEntry(e), NEW m \in MethodNames,
         NEW s \in [slot : Nat \ {0}, function : Overrider]
  PROVE  MethodEntry(With(e, m, s))
  <1>1. IsFiniteSet(DOMAIN With(e, m, s)) /\ IsAMap(With(e, m, s))
    BY FiniteMap, MapsAre DEF MethodEntry
  <1>2. QED
    BY <1>1 DEF MethodEntry, With

LEMMA LaidIs ==
  ASSUME NEW elems \in Seq(Types), NEW n \in 1 .. Len(elems) + 1, NEW t \in Types
  PROVE  LET laid == Laid(elems, n, t)
         IN  /\ laid \in Seq(Types)
             /\ laid[n] = t
             /\ \A i \in DOMAIN elems : i # n => laid[i] = elems[i]
             /\ n = Len(elems) + 1 => Len(laid) = n
             /\ n # Len(elems) + 1 => Len(laid) = Len(elems)
             /\ DOMAIN laid = 1 .. Len(laid) /\ DOMAIN elems = 1 .. Len(elems)
             /\ Len(elems) \in Nat
  <1>1. Len(elems) \in Nat /\ DOMAIN elems = 1 .. Len(elems)
    OBVIOUS
  <1>2. CASE n \in DOMAIN elems
    <2>1. n \in 1 .. Len(elems) /\ n # Len(elems) + 1
      BY <1>1, <1>2
    <2>2. /\ [elems EXCEPT ![n] = t] \in Seq(Types)
          /\ Len([elems EXCEPT ![n] = t]) = Len(elems)
          /\ \A j \in 1 .. Len(elems) : [elems EXCEPT ![n] = t][j] = IF j = n THEN t ELSE elems[j]
      BY <2>1, ExceptSeq
    <2>3. Laid(elems, n, t) = [elems EXCEPT ![n] = t]
      BY <1>2 DEF Laid
    <2> HIDE DEF Laid
    <2>4. QED
      BY <1>1, <1>2, <2>1, <2>2, <2>3
  <1>3. CASE n \notin DOMAIN elems
    <2>1. n = Len(elems) + 1
      BY <1>1, <1>3
    <2>2. Laid(elems, n, t) = Append(elems, t)
      BY <1>3 DEF Laid
    <2>3. QED
      BY <1>1, <2>1, <2>2, AppendProperties
  <1>4. QED
    BY <1>2, <1>3

LEMMA PositionIs ==
  ASSUME NEW e, NEW p, NEW elems \in Seq(Types)
  PROVE  /\ Position(e, p, elems) \in 1 .. Len(elems) + 1
         /\ Position(e, p, elems) \in Nat \ {0}
         /\ p \in DOMAIN e /\ e[p] \in DOMAIN elems => Position(e, p, elems) = e[p]
         /\ ~(p \in DOMAIN e /\ e[p] \in DOMAIN elems) =>
              Position(e, p, elems) = Len(elems) + 1
  BY DEF Position
-----------------------------------------------------------------------------
(* The invariant that holds whatever is used early.                        *)

Struct == [sized : BOOLEAN, elems : Seq(Types)]
Text   == [parent : ClassNames \cup {NoClass}, members : Seq(Member), times : Nat]

\* A class has its properties before its methods.
MethodsLast(ms) ==
  \A i, j \in DOMAIN ms : i < j /\ ms[i].kind = "method" => ms[j].kind = "method"

\* The author's text is of the classes that have a struct, and so is every parent.
Texts(tx, ty) ==
  /\ DOMAIN tx = DOMAIN ty
  /\ \A c \in DOMAIN tx : tx[c] \in Text /\ tx[c].parent \in DOMAIN ty \cup {NoClass}
  /\ \A c \in DOMAIN tx : MethodsLast(tx[c].members)

Structs(ty) == DOMAIN ty \subseteq ClassNames /\ \A c \in DOMAIN ty : ty[c] \in Struct

Kinds ==
  /\ status \in {"running", "failed"}
  /\ visits \in Visits
  /\ Structs(types)
  /\ Texts(text, types)
  /\ DOMAIN functions \subseteq ClassNames \X MethodNames
  /\ \A f \in DOMAIN functions : functions[f] \in Nat \ {0}
  /\ IsFiniteSet(compiled)

\* What makes a class's table of properties: its own properties or an inheritance.
NeedsTable(c, tx) ==
  \/ tx[c].parent # NoClass
  \/ \E i \in DOMAIN tx[c].members : tx[c].members[i].kind = "property"
  \/ \E d \in DOMAIN tx : tx[d].parent = c

Created == \A c \in DOMAIN types : c \in DOMAIN properties <=> NeedsTable(c, text)

TInv == Kinds /\ Tables /\ Stacked(visits, text) /\ Created

LEMMA Implied ==
  ASSUME TInv
  PROVE  TypeOK /\ Creatable
  <1>1. /\ \A c \in DOMAIN properties : PropertyEntry(properties[c])
        /\ \A c \in DOMAIN methods : MethodEntry(methods[c])
        /\ DOMAIN properties \subseteq ClassNames /\ DOMAIN methods \subseteq ClassNames
    BY DEF TInv, Kinds, Structs, Tables, Entry
  <1>2. TypeOK
    BY <1>1
    DEF TInv, Kinds, Structs, Struct, Texts, Text, TypeOK, IsMap, Visits, PropertyEntry,
        MethodEntry, Overrider
  <1>3. Creatable
    BY DEF TInv, Created, NeedsTable, Creatable, Finished
  <1>4. QED
    BY <1>2, <1>3

LEMMA InitTInv == Init => TInv
  <1> SUFFICES ASSUME Init PROVE TInv
    OBVIOUS
  <1>1. visits \in Visits /\ DOMAIN visits = {}
    BY DEF Init, Visits
  <1>2. Kinds
    BY <1>1, WithoutEntries, FS_EmptySet DEF Init, Kinds, Structs, Texts
  <1>3. Tables
    BY WithoutEntries, NothingIsAnEntry DEF Init, Tables, Entry
  <1>4. QED
    BY <1>1, <1>2, <1>3, WithoutEntries DEF Init, TInv, Stacked, Created

\* The class that is on top.
LEMMA ClassOnTop ==
  ASSUME TInv, AtClass
  PROVE  /\ status = "running" /\ Top = visits[Len(visits)] /\ Top.op = "class"
         /\ visits # <<>> /\ Inner = Len(visits) /\ Inner \in DOMAIN visits
         /\ Top \in ClassVisit /\ Top \in Opened(visits) /\ ClassLaw(Top, text)
         /\ Top.name \in ClassNames /\ Top.name \in DOMAIN types
  <1>1. visits \in Visits /\ visits # <<>> /\ Top.op = "class" /\ status = "running"
    BY DEF TInv, Kinds, AtClass
  <1>2. Len(visits) \in DOMAIN visits
    BY <1>1, EmptySeq DEF Visits
  <1>3. Inner = Len(visits) /\ Top = visits[Len(visits)]
    BY <1>1 DEF Inner, Top
  <1>4. Top \in ClassVisit /\ Top \in Opened(visits)
    BY <1>1, <1>2, <1>3, VisitAt, OpenedIs
  <1>5. ClassLaw(Top, text)
    BY <1>1, <1>2, <1>3 DEF TInv, Stacked
  <1>6. Top.name \in DOMAIN types /\ Top.name \in ClassNames
    BY <1>4, <1>5 DEF TInv, Kinds, Texts, ClassLaw, ClassVisit
  <1>7. QED
    BY <1>1, <1>2, <1>3, <1>4, <1>5, <1>6

\* The class whose member is on top.
LEMMA ClassOfMember ==
  ASSUME TInv, NEW kind, AtMember(kind)
  PROVE  /\ status = "running" /\ Top = visits[Len(visits)] /\ Top.op = "member"
         /\ Top.member \in Member /\ Top.member.kind = kind
         /\ Inner = Len(visits) - 1 /\ Inner \in DOMAIN visits
         /\ visits[Inner].op = "class"
         /\ visits[Inner] \in ClassVisit /\ visits[Inner] \in Opened(visits)
         /\ ClassLaw(visits[Inner], text)
         /\ Follows(visits[Inner], Top.member, text)
         /\ visits[Inner].name \in ClassNames /\ visits[Inner].name \in DOMAIN types
  <1>1. /\ visits \in Visits /\ visits # <<>> /\ Top.op = "member" /\ status = "running"
        /\ Top.member.kind = kind
    BY DEF TInv, Kinds, AtMember
  <1>2. Len(visits) \in DOMAIN visits
    BY <1>1, EmptySeq DEF Visits
  <1>3. Inner = Len(visits) - 1 /\ Top = visits[Len(visits)]
    BY <1>1 DEF Inner, Top
  <1>4. Top \in MemberVisit
    BY <1>1, <1>2, <1>3, VisitAt
  <1>5. Inner \in DOMAIN visits /\ visits[Inner].op = "class"
        /\ Follows(visits[Inner], Top.member, text)
    BY <1>1, <1>2, <1>3 DEF TInv, Stacked
  <1>6. visits[Inner] \in ClassVisit /\ visits[Inner] \in Opened(visits)
    BY <1>1, <1>5, VisitAt, OpenedIs
  <1>7. ClassLaw(visits[Inner], text)
    BY <1>5 DEF TInv, Stacked
  <1>8. visits[Inner].name \in DOMAIN types /\ visits[Inner].name \in ClassNames
    BY <1>6, <1>7 DEF TInv, Kinds, Texts, ClassLaw, ClassVisit
  <1>9. QED
    BY <1>1, <1>3, <1>4, <1>5, <1>6, <1>7, <1>8 DEF MemberVisit
-----------------------------------------------------------------------------
(* The steps.                                                              *)

\* Only what was compiled, or whether there was an exception, changes.
LEMMA TablesStay ==
  ASSUME TInv, UNCHANGED <<visits, types, properties, methods, functions, text>>,
         status' \in {"running", "failed"}, IsFiniteSet(compiled')
  PROVE  TInv'
  BY DEF TInv, Kinds, Tables, Created

LEMMA UsesStay ==
  ASSUME TInv, UsesOfClasses
  PROVE  TInv'
  <1>1. CASE Unresolved
    BY <1>1, FS_EmptySet, TablesStay DEF Unresolved, Throw
  <1>2. ASSUME NEW c \in ClassNames, NEW uses, IsFiniteSet(uses), Compiles(c, uses)
        PROVE  TInv'
    <2>1. IsFiniteSet(compiled \cup uses)
      BY <1>2, FS_Union DEF TInv, Kinds
    <2>2. QED
      BY <1>2, <2>1, TablesStay DEF Compiles, TInv, Kinds
  <1>3. ASSUME NEW c \in ClassNames, NEW p \in PropNames, UseProperty(c, p)
        PROVE  TInv'
    <2>1. IsFiniteSet({Use(c, p, AtPosition(c, p))})
      BY FS_Singleton
    <2>2. QED
      BY <1>2, <1>3, <2>1 DEF UseProperty
  <1>4. ASSUME NEW c \in ClassNames, NEW m \in MethodNames, UseMethod(c, m)
        PROVE  TInv'
    <2>1. IsFiniteSet({Use(c, m, Calls(c, m))})
      BY FS_Singleton
    <2>2. QED
      BY <1>2, <1>4, <2>1 DEF UseMethod
  <1>5. ASSUME NEW c \in ClassNames, New(c)
        PROVE  TInv'
    <2> DEFINE at(p) == Use(c, p, AtPosition(c, p))
               places == {at(p) : p \in DOMAIN properties[c]}
               uses == places \cup {Use(c, Construct, Calls(c, Construct))}
    <2>1. c \in DOMAIN properties /\ Compiles(c, uses)
      BY <1>5 DEF New
    <2>2. IsFiniteSet(DOMAIN properties[c])
      BY <2>1 DEF TInv, Tables, Entry, PropertyEntry
    <2>3. IsFiniteSet(places)
      <3> DEFINE f == [p \in DOMAIN properties[c] |-> at(p)]
      <3>1. f \in [DOMAIN properties[c] -> places]
        OBVIOUS
      <3>2. \A x \in places : \E p \in DOMAIN properties[c] : f[p] = x
        OBVIOUS
      <3>3. f \in Surjection(DOMAIN properties[c], places)
        BY <3>1, <3>2 DEF Surjection
      <3>4. QED
        BY <2>2, <3>3, FS_Surjection
    <2>4. IsFiniteSet(uses)
      BY <2>3, FS_AddElement
    <2>5. QED
      BY <1>2, <2>1, <2>4
  <1>6. ASSUME NEW c \in ClassNames, Delete(c)
        PROVE  TInv'
    <2>1. IsFiniteSet({Use(c, Destruct, Calls(c, Destruct))})
      BY FS_Singleton
    <2>2. QED
      BY <1>2, <1>6, <2>1 DEF Delete
  <1>7. QED
    BY <1>1, <1>3, <1>4, <1>5, <1>6 DEF UsesOfClasses

\* Where there is a statement, every class that is being declared is among its methods.
LEMMA AmongMethods ==
  ASSUME TInv, AtStatement
  PROVE  \A a \in Opened(visits) : a.phase = "methods"
  <1>1. visits \in Visits /\ Stacked(visits, text)
    BY DEF TInv, Kinds
  <1>2. SUFFICES ASSUME NEW i \in DOMAIN visits, visits[i].op = "class"
                 PROVE  visits[i].phase = "methods"
    BY <1>1, OpenedIs
  <1>3. visits # <<>>
    BY <1>2
  <1>4. visits[Len(visits)].op = "member" /\ visits[Len(visits)].member.kind = "method"
    BY <1>3 DEF AtStatement, AtMember, Top
  <1>5. visits[i].phase # "properties"
    BY <1>1, <1>2, <1>4 DEF Stacked
  <1>6. visits[i] \in ClassVisit
    BY <1>1, <1>2, VisitAt
  <1>7. QED
    BY <1>5, <1>6 DEF ClassVisit

\* visit( DeclClass& ) up to its first member.
LEMMA OpensTInv ==
  ASSUME TInv, NEW c \in ClassNames, NEW parent \in ClassNames \cup {NoClass},
         OpenClass(c, parent)
  PROVE  TInv'
  <1> DEFINE again == c \in DOMAIN types
             a == [op |-> "class", name |-> c, elems |-> InheritedElems(parent),
                   again |-> again, member |-> 0, phase |-> "properties"]
             fresh == [parent |-> parent, members |-> <<>>, times |-> 1]
  <1>1. /\ AtStatement /\ c \notin Declaring
        /\ parent \in DOMAIN types \cup {NoClass, c}
        /\ again => text[c].parent = parent
        /\ types' = IF again THEN types ELSE With(types, c, Opaque)
        /\ properties' = Inherited(properties, c, parent)
        /\ methods' = Inherited(methods, c, parent)
        /\ visits' = Append(visits, a)
        /\ text' = IF again THEN [text EXCEPT ![c].times = @ + 1] ELSE With(text, c, fresh)
        /\ UNCHANGED <<status, functions, compiled>>
    BY DEF OpenClass, Finished
  <1>2. /\ visits \in Visits /\ Structs(types) /\ Texts(text, types) /\ Stacked(visits, text)
        /\ c \notin DOMAIN types => c \notin DOMAIN text
        /\ c \in DOMAIN types => c \in DOMAIN text
    BY DEF TInv, Kinds, Texts
  <1>3. InheritedElems(parent) \in Seq(Types)
    BY <1>2 DEF InheritedElems, Structs, Struct
  <1>4. a \in ClassVisit
    BY <1>3 DEF ClassVisit
  <1>5. \A b \in Opened(visits) : b.name # c /\ b.phase = "methods"
    BY <1>1, AmongMethods DEF Declaring, Opened
  <1>6. DOMAIN types' = DOMAIN types \cup {c} /\ DOMAIN text' = DOMAIN types'
    BY <1>1, <1>2 DEF With, Texts
  <1>7. \A x \in DOMAIN text : x # c => text'[x] = text[x]
    BY <1>1, <1>2 DEF With
  <1>8. /\ text'[c] \in Text /\ text'[c].parent = parent
        /\ again => text'[c].members = text[c].members
        /\ ~again => text'[c].members = <<>>
        /\ MethodsLast(text'[c].members)
    <2>1. CASE again
      <3>1. text[c] \in Text /\ text'[c] = [text[c] EXCEPT !.times = @ + 1]
        BY <1>1, <1>2, <2>1 DEF Texts
      <3>2. QED
        BY <1>1, <1>2, <2>1, <3>1 DEF Text, Texts
    <2>2. CASE ~again
      <3>1. text'[c] = fresh
        BY <1>1, <2>2 DEF With
      <3>2. QED
        BY <2>2, <3>1 DEF Text, MethodsLast
    <2>3. QED
      BY <2>1, <2>2
  <1>9. Structs(types') /\ Texts(text', types')
    <2>1. Structs(types')
      BY <1>1, <1>2, <1>6 DEF Structs, Struct, With, Opaque
    <2>2. \A x \in DOMAIN text' : x = c \/ x \in DOMAIN text
      BY <1>2, <1>6 DEF Texts
    <2>3. \A x \in DOMAIN text' :
            /\ text'[x] \in Text /\ text'[x].parent \in DOMAIN types' \cup {NoClass}
            /\ MethodsLast(text'[x].members)
      BY <1>1, <1>2, <1>6, <1>7, <1>8, <2>2 DEF Texts
    <2>4. QED
      BY <2>1, <2>3, <1>6 DEF Texts
  <1>10. ClassLaw(a, text')
    <2>1. text'[c].members \in Seq(Member)
      BY <1>8 DEF Text
    <2>2. Len(text'[c].members) \in Nat /\ (~again => Len(text'[c].members) = 0)
      BY <2>1, <1>8
    <2>3. a.name = c /\ a.member = 0 /\ a.phase = "properties" /\ (a.again <=> again) /\ c \in DOMAIN text'
      BY <1>6
    <2> HIDE DEF a, again
    <2>4. \A i \in DOMAIN text'[c].members : ~(i <= 0)
      BY <2>1
    <2>5. QED
      BY <2>2, <2>3, <2>4 DEF ClassLaw
  <1>11. Unwritten(visits, text, text', c)
    BY <1>2, <1>6, <1>7, OneVisit DEF Unwritten, ClassLaw, Texts
  <1> HIDE DEF a
  <1>12. visits' \in Visits /\ Stacked(visits', text')
    <2>1. a.name = c
      BY DEF a
    <2>2. QED
      BY <1>1, <1>2, <1>4, <1>5, <1>10, <1>11, <2>1, PushedClass
  <1>13. Kinds'
    BY <1>1, <1>9, <1>12 DEF TInv, Kinds
  <1>14. Tables'
    <2>1. DOMAIN properties' \subseteq DOMAIN types' /\ DOMAIN methods' \subseteq DOMAIN types'
      <3>1. /\ DOMAIN Inherited(properties, c, parent)
                 = DOMAIN properties \cup (IF parent = NoClass THEN {} ELSE {parent, c})
            /\ DOMAIN Inherited(methods, c, parent)
                 = DOMAIN methods \cup (IF parent = NoClass THEN {} ELSE {parent, c})
        BY InheritedDomain
      <3>2. QED
        BY <1>1, <1>6, <3>1 DEF TInv, Tables
    <2>2. \A z \in ClassNames :
            PropertyEntry(Entry(properties', z)) /\ MethodEntry(Entry(methods', z))
      <3> TAKE z \in ClassNames
      <3>1. /\ Entry(properties', z) = IF z = c /\ parent # NoClass
                                       THEN Entry(properties, parent) ELSE Entry(properties, z)
            /\ Entry(methods', z) = IF z = c /\ parent # NoClass
                                    THEN Entry(methods, parent) ELSE Entry(methods, z)
        <4>1. Entry(Inherited(properties, c, parent), z)
                = IF z = c /\ parent # NoClass
                  THEN Entry(properties, parent) ELSE Entry(properties, z)
          BY EntryInherited
        <4>2. Entry(Inherited(methods, c, parent), z)
                = IF z = c /\ parent # NoClass
                  THEN Entry(methods, parent) ELSE Entry(methods, z)
          BY EntryInherited
        <4>3. QED
          BY <1>1, <4>1, <4>2
      <3>2. QED
        BY <3>1 DEF TInv, Tables
    <2>3. QED
      BY <2>1, <2>2 DEF Tables
  <1>15. Created'
    <2>1. DOMAIN properties' = DOMAIN properties
                                 \cup (IF parent = NoClass THEN {} ELSE {parent, c})
      BY <1>1, InheritedDomain
    <2>2. ASSUME NEW x \in DOMAIN types'
          PROVE  x \in DOMAIN properties' <=> NeedsTable(x, text')
      <3>1. /\ c \in DOMAIN text' /\ DOMAIN text \subseteq DOMAIN text'
            /\ \A d \in DOMAIN text' : d = c \/ (d \in DOMAIN text /\ text'[d] = text[d])
        BY <1>2, <1>6, <1>7 DEF Texts
      <3>2. again => \A d \in DOMAIN text : text'[d].parent = text[d].parent
                                            /\ text'[d].members = text[d].members
        BY <1>1, <1>7, <1>8
      <3>3. CASE x = parent /\ parent # NoClass
        BY <1>8, <2>1, <3>1, <3>3 DEF NeedsTable
      <3>4. CASE x = c /\ parent # NoClass
        BY <1>8, <2>1, <3>4 DEF NeedsTable
      <3>5. CASE x = c /\ parent = NoClass
        <4>1. CASE again
          <5>1. x \in DOMAIN types /\ DOMAIN text' = DOMAIN text
            BY <1>2, <1>6, <3>5, <4>1 DEF Texts
          <5>2. NeedsTable(x, text') <=> NeedsTable(x, text)
            BY <1>6, <3>2, <4>1, <5>1, <1>2 DEF NeedsTable, Texts
          <5>3. QED
            BY <2>1, <3>5, <5>1, <5>2 DEF TInv, Created
        <4>2. CASE ~again
          <5>1. x \notin DOMAIN properties'
            BY <2>1, <3>5, <4>2 DEF TInv, Tables
          <5>2. DOMAIN text'[c].members = {}
            BY <1>8, <4>2
          <5>3. \A d \in DOMAIN text' : text'[d].parent # c
            BY <1>2, <1>8, <3>1, <3>5, <4>2, ClassesAssumption DEF Texts
          <5>4. QED
            BY <1>8, <3>5, <5>1, <5>2, <5>3 DEF NeedsTable
        <4>3. QED
          BY <4>1, <4>2
      <3>6. CASE x # c /\ x # parent
        <4>1. x \in DOMAIN types /\ x \in DOMAIN text /\ text'[x] = text[x]
          BY <1>2, <1>6, <1>7, <2>2, <3>6 DEF Texts
        <4>2. \A d \in DOMAIN text' : text'[d].parent = x => d \in DOMAIN text
                                                             /\ text[d].parent = x
          BY <1>7, <1>8, <3>1, <3>6
        <4>3. \A d \in DOMAIN text : text[d].parent = x => text'[d].parent = x
          BY <1>1, <1>2, <1>7, <3>6 DEF Texts
        <4>4. NeedsTable(x, text') <=> NeedsTable(x, text)
          BY <3>1, <4>1, <4>2, <4>3 DEF NeedsTable
        <4>5. QED
          BY <2>1, <3>6, <4>1, <4>4 DEF TInv, Created
      <3>7. x # NoClass
        BY <2>2, <1>6, <1>9, ClassesAssumption DEF Structs
      <3>8. QED
        BY <3>3, <3>4, <3>5, <3>6, <3>7
    <2>3. QED
      BY <2>2 DEF Created
  <1>16. QED
    BY <1>12, <1>13, <1>14, <1>15 DEF TInv
\* A class goes on after its member mb.
Moved(a, elems) == [a EXCEPT !.elems = elems, !.member = @ + 1]

\* Nothing of another class is written, and of this one only its next member.
Grown(tx, ty, a, mb) ==
  /\ DOMAIN ty = DOMAIN tx
  /\ \A c \in DOMAIN tx : ty[c].parent = tx[c].parent /\ (c # a.name => ty[c] = tx[c])
  /\ ty[a.name].members = IF a.again THEN tx[a.name].members
                          ELSE Append(tx[a.name].members, mb)

LEMMA MovedIs ==
  ASSUME NEW a \in ClassVisit, NEW elems \in Seq(Types)
  PROVE  LET b == Moved(a, elems)
         IN  /\ b \in ClassVisit /\ b.name = a.name /\ b.again = a.again
             /\ b.member = a.member + 1 /\ b.phase = a.phase /\ b.elems = elems
  <1> DEFINE e == [a EXCEPT !.elems = elems]
  <1>1. e \in ClassVisit /\ e.name = a.name /\ e.again = a.again
        /\ e.member = a.member /\ e.phase = a.phase /\ e.elems = elems
    BY DEF ClassVisit
  <1> HIDE DEF e
  <1>2. LET b == [e EXCEPT !.member = e.member + 1]
        IN  /\ b \in ClassVisit /\ b.name = e.name /\ b.again = e.again
            /\ b.member = e.member + 1 /\ b.phase = e.phase /\ b.elems = e.elems
    BY <1>1 DEF ClassVisit
  <1>3. Moved(a, elems) = [e EXCEPT !.member = e.member + 1]
    BY <1>1 DEF Moved, e
  <1>4. QED
    BY <1>1, <1>2, <1>3

LEMMA AppendedMember ==
  ASSUME NEW ms \in Seq(Member), NEW mb \in Member
  PROVE  /\ Append(ms, mb) \in Seq(Member) /\ Len(ms) \in Nat
         /\ DOMAIN ms = 1 .. Len(ms) /\ DOMAIN Append(ms, mb) = 1 .. Len(ms) + 1
         /\ \A i \in DOMAIN ms : Append(ms, mb)[i] = ms[i] /\ ms[i].kind \in {"property", "method"}
         /\ Append(ms, mb)[Len(ms) + 1] = mb /\ mb.kind \in {"property", "method"}
         /\ Len(Append(ms, mb)) = Len(ms) + 1
  <1>1. \A x \in Member : x.kind \in {"property", "method"}
    BY DEF Member
  <1>2. \A i \in DOMAIN ms : ms[i] \in Member
    BY ElementOfSeq
  <1>3. QED
    BY <1>1, <1>2, AppendProperties

LEMMA GrownText ==
  ASSUME TInv, NEW a \in ClassVisit, ClassLaw(a, text), NEW mb \in Member,
         Follows(a, mb, text), Wrote(a, mb)
  PROVE  Grown(text, text', a, mb) /\ Texts(text', types)
  <1> DEFINE t == text[a.name]
  <1>1. /\ Texts(text, types) /\ t \in Text /\ t.members \in Seq(Member)
        /\ a.name \in DOMAIN text
    BY DEF TInv, Kinds, Texts, Text, ClassLaw
  <1>2. CASE a.again
    BY <1>1, <1>2 DEF Wrote, Grown
  <1>3. CASE ~a.again
    <2>1. text' = [text EXCEPT ![a.name] = [t EXCEPT !.members = Append(t.members, mb)]]
      BY <1>3 DEF Wrote
    <2>2. Append(t.members, mb) \in Seq(Member)
      BY <1>1, AppendProperties
    <2>3. /\ text'[a.name] \in Text /\ text'[a.name].parent = t.parent
          /\ text'[a.name].members = Append(t.members, mb)
      BY <1>1, <2>1, <2>2 DEF Text
    <2>4. MethodsLast(Append(t.members, mb))
      <3> DEFINE ms == t.members
                 us == Append(ms, mb)
                 n  == Len(ms)
      <3>1. ms \in Seq(Member) /\ MethodsLast(ms)
        BY <1>1 DEF Texts
      <3>2. /\ a.member = n /\ a.phase \in {"properties", "methods"}
            /\ a.phase = "properties" => \A i \in DOMAIN ms : i <= n => ms[i].kind = "property"
            /\ mb.kind = "property" => a.phase = "properties"
        BY <1>3 DEF ClassLaw, Follows, ClassVisit
      <3> HIDE DEF ms, us, n
      <3>3. /\ n \in Nat /\ DOMAIN ms = 1 .. n /\ DOMAIN us = 1 .. n + 1
            /\ \A i \in DOMAIN ms : us[i] = ms[i]
            /\ us[n + 1] = mb /\ mb.kind \in {"property", "method"}
        BY <3>1, AppendedMember DEF us, n
      <3>4. SUFFICES ASSUME NEW i \in DOMAIN us, NEW j \in DOMAIN us, i < j,
                            us[i].kind = "method"
                     PROVE  us[j].kind = "method"
        BY DEF MethodsLast, us, ms
      <3>5. i \in DOMAIN ms /\ i <= n /\ ms[i].kind = "method"
        BY <3>3, <3>4
      <3>6. CASE j \in DOMAIN ms
        BY <3>1, <3>3, <3>4, <3>5, <3>6 DEF MethodsLast
      <3>7. CASE j \notin DOMAIN ms
        <4>1. j = n + 1
          BY <3>3, <3>7
        <4>2. mb.kind # "property"
          BY <3>2, <3>5
        <4>3. QED
          BY <3>3, <4>1, <4>2
      <3>8. QED
        BY <3>6, <3>7
    <2>5. DOMAIN text' = DOMAIN text /\ \A c \in DOMAIN text : c # a.name => text'[c] = text[c]
      BY <2>1
    <2> HIDE DEF t
    <2>6. Grown(text, text', a, mb)
      BY <1>3, <2>3, <2>5 DEF Grown, t
    <2>7. Texts(text', types)
      BY <1>1, <2>3, <2>5, <2>4 DEF Texts, t
    <2>8. QED
      BY <2>6, <2>7
  <1>4. QED
    BY <1>2, <1>3

LEMMA Advance ==
  ASSUME TInv, NEW k \in DOMAIN visits, visits[k].op = "class", k = Inner,
         k = Len(visits) \/ (k = Len(visits) - 1 /\ visits[Len(visits)].op = "member"),
         NEW mb \in Member, Follows(visits[k], mb, text),
         NEW elems \in Seq(Types), Back(visits[k], elems), Wrote(visits[k], mb)
  PROVE  /\ visits' \in Visits /\ Stacked(visits', text')
         /\ Opened(visits') = Replaced(Opened(visits), visits[k], Moved(visits[k], elems))
         /\ Grown(text, text', visits[k], mb) /\ Texts(text', types)
         /\ visits[k].name \in DOMAIN text /\ visits[k].name \in ClassNames
  <1> DEFINE a == visits[k]
             b == Moved(a, elems)
  <1>1. visits \in Visits /\ Stacked(visits, text) /\ Texts(text, types)
    BY DEF TInv, Kinds
  <1>2. a \in ClassVisit /\ a \in Opened(visits) /\ ClassLaw(a, text)
    BY <1>1, VisitAt, OpenedIs, OneVisit
  <1> HIDE DEF a
  <1>3. /\ b \in ClassVisit /\ b.name = a.name /\ b.member = a.member + 1
        /\ b.again = a.again /\ b.phase = a.phase /\ a.phase \in {"properties", "methods"}
        /\ a.member \in Nat /\ a.again \in BOOLEAN /\ a.name \in ClassNames
    <2>1. /\ a.member \in Nat /\ a.again \in BOOLEAN /\ a.name \in ClassNames
          /\ a.phase \in {"properties", "methods"}
      BY <1>2 DEF ClassVisit
    <2>2. QED
      BY <1>2, <2>1, MovedIs
  <1>4. a.name \in DOMAIN text
    BY <1>2 DEF ClassLaw
  <1>5. Grown(text, text', a, mb) /\ Texts(text', types)
    BY <1>2, <1>4, GrownText DEF a
  <1>6. Unwritten(visits, text, text', b.name)
    <2> SUFFICES ASSUME NEW x \in Opened(visits), x.name # a.name
                 PROVE  x.name \in DOMAIN text' /\ text'[x.name] = text[x.name]
      BY <1>3 DEF Unwritten
    <2>1. x.name \in DOMAIN text
      BY <1>1, OneVisit DEF ClassLaw
    <2>2. QED
      BY <2>1, <1>5 DEF Grown
  <1> HIDE DEF b
  <1>7. ClassLaw(b, text')
    <2>1. text[a.name].members \in Seq(Member)
      BY <1>1, <1>4 DEF Texts, Text
    <2>2. Len(text[a.name].members) \in Nat
      BY <2>1
    <2>3. CASE a.again
      <3>1. a.member < Len(text[a.name].members)
        BY <2>3 DEF Follows, a
      <3>2. text'[a.name].members = text[a.name].members
        BY <1>5, <2>3 DEF Grown
      <3> DEFINE ms == text[a.name].members
      <3>3. \A i \in DOMAIN ms :
              /\ a.phase = "properties" /\ i <= a.member + 1 => ms[i].kind = "property"
              /\ a.phase = "methods" /\ i > a.member + 1 => ms[i].kind = "method"
        <4>1. \A i \in DOMAIN ms :
                /\ a.phase = "properties" /\ i <= a.member => ms[i].kind = "property"
                /\ a.phase = "methods" /\ i > a.member => ms[i].kind = "method"
          BY <1>2 DEF ClassLaw
        <4>2. ms[a.member + 1] = mb /\ (mb.kind = "method" => a.phase = "methods")
          BY <2>3 DEF Follows, a
        <4>3. mb.kind \in {"property", "method"}
          BY DEF Member
        <4>4. DOMAIN ms = 1 .. Len(ms)
          BY <2>1
        <4> HIDE DEF ms
        <4>5. \A i \in DOMAIN ms : /\ i <= a.member + 1 => i <= a.member \/ i = a.member + 1
                                   /\ i > a.member + 1 => i > a.member
          BY <1>3, <4>4
        <4>6. QED
          BY <4>1, <4>2, <4>3, <4>5
      <3>4. QED
        BY <1>3, <1>4, <1>5, <2>2, <2>3, <3>1, <3>2, <3>3 DEF ClassLaw, Grown
    <2>4. CASE ~a.again
      <3>1. a.member = Len(text[a.name].members)
        BY <1>2, <2>4 DEF ClassLaw
      <3> DEFINE ms == text[a.name].members
                 us == text'[a.name].members
                 n  == Len(ms)
      <3>2. us = Append(ms, mb)
        BY <1>5, <2>4 DEF Grown
      <3>3. /\ \A i \in DOMAIN ms : a.phase = "properties" /\ i <= n => ms[i].kind = "property"
            /\ mb.kind = "method" => a.phase = "methods"
        BY <1>2, <3>1 DEF ClassLaw, Follows, a
      <3>4. /\ n \in Nat /\ DOMAIN ms = 1 .. n /\ DOMAIN us = 1 .. n + 1 /\ Len(us) = n + 1
            /\ \A i \in DOMAIN ms : us[i] = ms[i]
            /\ us[n + 1] = mb /\ mb.kind \in {"property", "method"}
        <4> HIDE DEF ms, us
        <4>1. ms \in Seq(Member)
          BY <2>1 DEF ms
        <4>2. QED
          BY <3>2, <4>1, AppendedMember
      <3> HIDE DEF ms, us, n
      <3>5. \A i \in DOMAIN us :
              /\ a.phase = "properties" /\ i <= n + 1 => us[i].kind = "property"
              /\ a.phase = "methods" /\ i > n + 1 => us[i].kind = "method"
        <4> TAKE i \in DOMAIN us
        <4>1. i = n + 1 \/ (i \in DOMAIN ms /\ i <= n)
          BY <3>4
        <4>2. i <= n + 1
          BY <3>4
        <4>3. ~(i > n + 1)
          BY <3>4
        <4>4. QED
          BY <3>3, <3>4, <4>1, <4>2, <4>3
      <3>6. a.name \in DOMAIN text'
        BY <1>4, <1>5 DEF Grown
      <3>7. b.name = a.name /\ b.member = n + 1 /\ b.phase = a.phase
        BY <1>3, <3>1 DEF n, ms
      <3>8. n + 1 <= n + 1
        BY <3>4
      <3>9. QED
        BY <3>4, <3>5, <3>6, <3>7, <3>8 DEF ClassLaw, us
    <2>5. QED
      BY <2>3, <2>4
  <1>8. visits' = Append(SubSeq(visits, 1, k - 1), b)
    <2>1. Back(a, elems)
      BY DEF a
    <2>2. b = [a EXCEPT !.elems = elems, !.member = @ + 1]
      BY DEF b, Moved
    <2>3. visits' = Append(SubSeq(visits, 1, Inner - 1), b)
      BY <2>1, <2>2 DEF Back
    <2>4. QED
      BY <2>3
  <1>9. b.name = visits[k].name
    BY <1>3 DEF a
  <1>10. /\ visits' \in Visits /\ Stacked(visits', text')
         /\ Opened(visits') = Replaced(Opened(visits), visits[k], b)
    <2> DEFINE w == Append(SubSeq(visits, 1, k - 1), b)
    <2>1. \A ty : ClassLaw(b, ty) /\ Unwritten(visits, text, ty, b.name) =>
                   /\ w \in Visits /\ Stacked(w, ty)
                   /\ Opened(w) = Replaced(Opened(visits), visits[k], b)
      BY <1>1, <1>3, <1>9, BackTo
    <2> HIDE DEF w
    <2>2. /\ w \in Visits /\ Stacked(w, text')
          /\ Opened(w) = Replaced(Opened(visits), visits[k], b)
      BY <1>6, <1>7, <2>1
    <2>3. QED
      BY <1>8, <2>2 DEF w
  <1>11. QED
    BY <1>3, <1>4, <1>5, <1>10 DEF a, b
\* The table of properties is made by a class's own property, and by nothing else here.
LEMMA StillCreated ==
  ASSUME TInv, NEW a \in ClassVisit, a.name \in DOMAIN text, NEW mb \in Member,
         Follows(a, mb, text), Grown(text, text', a, mb), types' = types,
         DOMAIN properties' = DOMAIN properties
                                \cup (IF mb.kind = "property" THEN {a.name} ELSE {})
  PROVE  Created'
  <1>1. Texts(text, types) /\ text[a.name].members \in Seq(Member) /\ DOMAIN text' = DOMAIN text
    BY DEF TInv, Kinds, Texts, Text, Grown
  <1>2. \A d \in DOMAIN text : text'[d].parent = text[d].parent
    BY DEF Grown
  <1>3. SUFFICES ASSUME NEW c \in DOMAIN types
                 PROVE  c \in DOMAIN properties' <=> NeedsTable(c, text')
    BY DEF Created
  <1>4. c \in DOMAIN properties <=> NeedsTable(c, text)
    BY DEF TInv, Created
  <1>5. c \in DOMAIN text
    BY <1>1 DEF Texts
  <1>6. CASE c # a.name
    <2>1. text'[c] = text[c]
      BY <1>5, <1>6 DEF Grown
    <2>2. NeedsTable(c, text') <=> NeedsTable(c, text)
      BY <1>1, <1>2, <2>1 DEF NeedsTable
    <2>3. QED
      BY <1>4, <1>6, <2>2
  <1>7. CASE c = a.name /\ a.again
    <2>1. text'[c].members = text[c].members
      BY <1>7 DEF Grown
    <2>2. NeedsTable(c, text') <=> NeedsTable(c, text)
      BY <1>1, <1>2, <1>5, <2>1 DEF NeedsTable
    <2>3. mb.kind = "property" => NeedsTable(c, text)
      <3>1. a.member \in Nat /\ a.member < Len(text[c].members)
            /\ text[c].members[a.member + 1] = mb
        BY <1>7 DEF Follows, ClassVisit
      <3>2. a.member + 1 \in DOMAIN text[c].members
        BY <1>1, <1>7, <3>1
      <3>3. QED
        BY <3>1, <3>2 DEF NeedsTable
    <2>4. QED
      BY <1>4, <1>7, <2>2, <2>3
  <1>8. CASE c = a.name /\ ~a.again
    <2> DEFINE ms == text[c].members
    <2>1. text'[c].members = Append(ms, mb)
      BY <1>8 DEF Grown
    <2>2. /\ Len(ms) \in Nat /\ DOMAIN ms = 1 .. Len(ms)
          /\ DOMAIN Append(ms, mb) = 1 .. Len(ms) + 1
          /\ \A i \in DOMAIN ms : Append(ms, mb)[i] = ms[i]
          /\ Append(ms, mb)[Len(ms) + 1] = mb
      BY <1>1, <1>8, AppendProperties
    <2> HIDE DEF ms
    <2>3. (\E i \in DOMAIN Append(ms, mb) : Append(ms, mb)[i].kind = "property")
             <=> (mb.kind = "property" \/ \E i \in DOMAIN ms : ms[i].kind = "property")
      <3>1. \A i \in DOMAIN Append(ms, mb) : i = Len(ms) + 1 \/ i \in DOMAIN ms
        BY <2>2
      <3>2. /\ \A i \in DOMAIN ms : i \in DOMAIN Append(ms, mb)
            /\ Len(ms) + 1 \in DOMAIN Append(ms, mb)
        BY <2>2
      <3>3. QED
        BY <2>2, <3>1, <3>2
    <2>4. NeedsTable(c, text') <=> (mb.kind = "property" \/ NeedsTable(c, text))
      BY <1>1, <1>2, <1>5, <2>1, <2>3 DEF NeedsTable, ms
    <2>5. QED
      BY <1>4, <1>8, <2>4
  <1>9. QED
    BY <1>6, <1>7, <1>8

LEMMA AddsTInv ==
  ASSUME TInv, NEW k \in DOMAIN visits, visits[k].op = "class", k = Inner,
         k = Len(visits) \/ (k = Len(visits) - 1 /\ visits[Len(visits)].op = "member"),
         NEW mb \in Member, mb.kind = "property", Follows(visits[k], mb, text),
         AddProperty(visits[k], mb)
  PROVE  TInv'
  <1> DEFINE a == visits[k]
             entry == Entry(properties, a.name)
             position == Position(entry, mb.name, a.elems)
             laid == Laid(a.elems, position, mb.type)
  <1>1. /\ Back(a, laid) /\ Wrote(a, mb)
        /\ properties' = With(properties, a.name, With(entry, mb.name, position))
        /\ UNCHANGED <<status, types, methods, functions, compiled>>
    BY DEF AddProperty, Laid
  <1>2. /\ visits \in Visits /\ a \in ClassVisit /\ mb.name \in PropNames /\ mb.type \in Types
        /\ ClassLaw(a, text)
    BY VisitAt, OneVisit, OpenedIs DEF TInv, Kinds, Member
  <1>3. a.elems \in Seq(Types)
    BY <1>2 DEF ClassVisit
  <1>4. position \in 1 .. Len(a.elems) + 1 /\ position \in Nat \ {0}
    BY <1>3, PositionIs
  <1> HIDE DEF position
  <1>5. laid \in Seq(Types)
    BY <1>2, <1>3, <1>4, LaidIs
  <1> HIDE DEF laid, a
  <1>6. /\ visits' \in Visits /\ Stacked(visits', text')
        /\ Grown(text, text', a, mb) /\ Texts(text', types)
        /\ a.name \in DOMAIN text /\ a.name \in ClassNames
    BY <1>1, <1>5, Advance DEF a
  <1>7. a.name \in DOMAIN types
    BY <1>6 DEF TInv, Kinds, Texts
  <1>8. Kinds'
    BY <1>1, <1>6 DEF TInv, Kinds
  <1>9. DOMAIN properties' = DOMAIN properties \cup {a.name}
    BY <1>1 DEF With
  <1>10. Tables'
    <2>1. DOMAIN properties' \subseteq DOMAIN types' /\ DOMAIN methods' \subseteq DOMAIN types'
      BY <1>1, <1>7, <1>9 DEF TInv, Tables
    <2>2. PropertyEntry(With(entry, mb.name, position))
      BY <1>2, <1>4, <1>6, AnotherProperty DEF TInv, Tables
    <2> HIDE DEF entry
    <2>3. ASSUME NEW c \in ClassNames
          PROVE  PropertyEntry(Entry(properties', c)) /\ MethodEntry(Entry(methods', c))
      <3>1. Entry(properties', c) = IF c = a.name THEN With(entry, mb.name, position)
                                    ELSE Entry(properties, c)
        BY <1>1, EntryWith
      <3>2. QED
        BY <1>1, <2>2, <3>1 DEF TInv, Tables
    <2>4. QED
      BY <2>1, <2>3 DEF Tables
  <1>11. Created'
    BY <1>1, <1>2, <1>6, <1>9, StillCreated DEF a
  <1>12. QED
    BY <1>6, <1>8, <1>10, <1>11 DEF TInv
\* The author's next member of the class on top follows, its visit in that phase.
LEMMA WritesFollows ==
  ASSUME TInv, AtClass, NEW mb \in Member, Writes(Top, mb), NEW a \in ClassVisit,
         a.name = Top.name, a.again = Top.again, a.member = Top.member,
         mb.kind = "property" => a.phase = Top.phase,
         mb.kind = "method" => a.phase = "methods"
  PROVE  Follows(a, mb, text)
  BY DEF Writes, Follows

LEMMA PropertyIsAMember ==
  ASSUME NEW p \in PropNames, NEW t \in Types, NEW init \in BOOLEAN
  PROVE  /\ Property(p, t, init) \in Member /\ Property(p, t, init).kind = "property"
         /\ Property(p, t, init).name = p /\ Property(p, t, init).type = t
  BY DEF Property, Member

LEMMA MethodIsAMember ==
  ASSUME NEW m \in MethodNames
  PROVE  Method(m) \in Member /\ Method(m).kind = "method" /\ Method(m).name = m
  BY DEF Method, Member

LEMMA PropertiesTInv ==
  ASSUME TInv,
         \/ \E p \in PropNames, t \in Types : DeclProperty(p, t) \/ OpenInitializer(p, t)
         \/ CloseInitializer
  PROVE  TInv'
  <1>1. ASSUME NEW p \in PropNames, NEW t \in Types, DeclProperty(p, t)
        PROVE  TInv'
    <2> DEFINE mb == Property(p, t, FALSE)
    <2>1. AtClass /\ Writes(Top, mb) /\ AddProperty(Top, mb)
      BY <1>1 DEF DeclProperty
    <2>2. mb \in Member /\ mb.kind = "property"
      BY PropertyIsAMember
    <2> HIDE DEF mb
    <2>3. /\ Top = visits[Len(visits)] /\ Top.op = "class" /\ Inner = Len(visits)
          /\ Inner \in DOMAIN visits /\ Top \in ClassVisit
      BY <2>1, ClassOnTop
    <2>4. Follows(Top, mb, text)
      BY <2>1, <2>2, <2>3, WritesFollows
    <2>5. QED
      BY <2>1, <2>2, <2>3, <2>4, AddsTInv
  <1>2. ASSUME CloseInitializer
        PROVE  TInv'
    <2>1. AtMember("property") /\ AddProperty(visits[Inner], Top.member)
      BY <1>2 DEF CloseInitializer
    <2>2. /\ Top = visits[Len(visits)] /\ Top.op = "member"
          /\ Top.member \in Member /\ Top.member.kind = "property"
          /\ Inner = Len(visits) - 1 /\ Inner \in DOMAIN visits
          /\ visits[Inner].op = "class"
          /\ Follows(visits[Inner], Top.member, text)
      BY <2>1, ClassOfMember
    <2>3. QED
      BY <2>1, <2>2, AddsTInv
  <1>3. ASSUME NEW p \in PropNames, NEW t \in Types, OpenInitializer(p, t)
        PROVE  TInv'
    <2> DEFINE mb == Property(p, t, TRUE)
    <2>1. /\ AtClass /\ Writes(Top, mb)
          /\ visits' = Append(visits, [op |-> "member", member |-> mb])
          /\ UNCHANGED <<status, types, properties, methods, functions, text, compiled>>
      BY <1>3 DEF OpenInitializer
    <2>2. mb \in Member /\ mb.kind = "property" /\ mb.kind # "method"
      BY PropertyIsAMember
    <2> HIDE DEF mb
    <2>3. /\ Top = visits[Len(visits)] /\ Top.op = "class" /\ visits # <<>>
          /\ Len(visits) \in DOMAIN visits /\ Top \in ClassVisit /\ ClassLaw(Top, text)
      BY <2>1, ClassOnTop
    <2>4. Follows(Top, mb, text)
      BY <2>1, <2>2, <2>3, WritesFollows
    <2>5. [visits EXCEPT ![Len(visits)] = Top] = visits
      BY <2>3 DEF TInv, Kinds, Visits
    <2>6. visits' \in Visits /\ Stacked(visits', text)
      <3>1. LET w == Append([visits EXCEPT ![Len(visits)] = Top],
                            [op |-> "member", member |-> mb])
            IN  w \in Visits /\ Stacked(w, text)
        BY <2>2, <2>3, <2>4, PushedMember DEF TInv, Kinds
      <3>2. QED
        BY <2>1, <2>5, <3>1
    <2>7. QED
      BY <2>1, <2>6 DEF TInv, Kinds, Tables, Created
  <1>4. QED
    BY <1>1, <1>2, <1>3

\* The struct of the class gets its elements.
LEMMA SetsBody ==
  ASSUME TInv, NEW a \in ClassVisit, a.name \in DOMAIN types, SetBody(a)
  PROVE  DOMAIN types' = DOMAIN types /\ Structs(types') /\ Texts(text, types')
  <1>1. CASE a.again
    BY <1>1 DEF SetBody, TInv, Kinds
  <1>2. CASE ~a.again
    <2>1. types' = [types EXCEPT ![a.name] = [sized |-> TRUE, elems |-> a.elems]]
      BY <1>2 DEF SetBody
    <2>2. [sized |-> TRUE, elems |-> a.elems] \in Struct
      BY DEF Struct, ClassVisit
    <2>3. QED
      BY <2>1, <2>2 DEF TInv, Kinds, Structs, Texts
  <1>3. QED
    BY <1>1, <1>2
\* The class's visit when it comes to its methods.
AtMethods(a) == [a EXCEPT !.phase = "methods"]

LEMMA AtMethodsIs ==
  ASSUME NEW a \in ClassVisit
  PROVE  /\ AtMethods(a) \in ClassVisit /\ AtMethods(a).name = a.name
         /\ AtMethods(a).again = a.again /\ AtMethods(a).member = a.member
         /\ AtMethods(a).phase = "methods" /\ AtMethods(a).elems = a.elems
  BY DEF AtMethods, ClassVisit

\* What visit( DeclMethod& ) finds.
LEMMA MethodOpened ==
  ASSUME TInv, NEW m \in MethodNames, OpenMethod(m)
  PROVE  /\ AtClass /\ SetBody(Top)
         /\ visits' \in Visits /\ Stacked(visits', text)
         /\ Opened(visits') = Replaced(Opened(visits), Top, AtMethods(Top))
         /\ UNCHANGED <<status, properties, methods, text, compiled>>
  <1> DEFINE mb == Method(m)
  <1>1. /\ AtClass /\ Writes(Top, mb) /\ SetBody(Top)
        /\ visits' = Append([visits EXCEPT ![Len(visits)].phase = "methods"],
                            [op |-> "member", member |-> mb])
        /\ UNCHANGED <<status, properties, methods, text, compiled>>
    BY DEF OpenMethod
  <1>2. mb \in Member /\ mb.kind = "method" /\ mb.kind # "property"
    BY MethodIsAMember
  <1> HIDE DEF mb
  <1>3. /\ Top = visits[Len(visits)] /\ Top.op = "class" /\ visits # <<>>
        /\ Len(visits) \in DOMAIN visits /\ Top \in ClassVisit /\ ClassLaw(Top, text)
    BY <1>1, ClassOnTop
  <1>4. /\ AtMethods(Top) \in ClassVisit /\ AtMethods(Top).name = Top.name
        /\ AtMethods(Top).again = Top.again /\ AtMethods(Top).member = Top.member
        /\ AtMethods(Top).phase = "methods"
    BY <1>3, AtMethodsIs
  <1>5. Follows(AtMethods(Top), mb, text)
    BY <1>1, <1>2, <1>4, WritesFollows
  <1>6. visits' = Append([visits EXCEPT ![Len(visits)] = AtMethods(Top)],
                         [op |-> "member", member |-> mb])
    BY <1>1, <1>3 DEF AtMethods
  <1>7. visits \in Visits /\ Stacked(visits, text)
    BY DEF TInv, Kinds
  <1>8. ClassLaw(AtMethods(Top), text)
    <2> DEFINE a  == Top
               ms == text[a.name].members
               n  == a.member
    <2>1. /\ Texts(text, types) /\ ClassLaw(a, text) /\ n \in Nat
          /\ a.name \in DOMAIN text
      BY <1>3 DEF TInv, Kinds, ClassLaw, ClassVisit
    <2>2. /\ ms \in Seq(Member) /\ MethodsLast(ms)
          /\ n <= Len(ms) /\ (~a.again => n = Len(ms))
      BY <2>1 DEF Texts, Text, ClassLaw
    <2>3. a.again => n < Len(ms) /\ ms[n + 1] = mb
      BY <1>1 DEF Writes
    <2>4. /\ AtMethods(a).name = a.name /\ AtMethods(a).again = a.again
          /\ AtMethods(a).member = n /\ AtMethods(a).phase = "methods"
      BY <1>4
    <2> HIDE DEF a, ms, n
    <2>5. Len(ms) \in Nat /\ DOMAIN ms = 1 .. Len(ms)
      BY <2>2
    <2>6. ASSUME NEW i \in DOMAIN ms, i > n
          PROVE  ms[i].kind = "method"
      <3>1. i \in Nat /\ i <= Len(ms)
        BY <2>5
      <3>2. n # Len(ms)
        BY <2>5, <2>6, <3>1
      <3>3. n < Len(ms) /\ ms[n + 1] = mb
        BY <2>2, <2>3, <3>2
      <3>4. n + 1 \in DOMAIN ms /\ ms[n + 1].kind = "method"
        BY <1>2, <2>1, <2>5, <3>3
      <3>5. i = n + 1 \/ n + 1 < i
        BY <2>1, <2>6, <3>1
      <3>6. QED
        BY <2>2, <3>4, <3>5 DEF MethodsLast
    <2>7. QED
      BY <2>1, <2>2, <2>4, <2>6 DEF ClassLaw, ms, a
  <1>9. LET w == Append([visits EXCEPT ![Len(visits)] = AtMethods(Top)],
                        [op |-> "member", member |-> mb])
        IN  /\ w \in Visits /\ Stacked(w, text)
            /\ Opened(w) = Replaced(Opened(visits), visits[Len(visits)], AtMethods(Top))
    BY <1>2, <1>3, <1>4, <1>5, <1>7, <1>8, PushedMember
  <1>10. QED
    BY <1>1, <1>3, <1>6, <1>9

LEMMA OpenMethodTInv ==
  ASSUME TInv, NEW m \in MethodNames, OpenMethod(m)
  PROVE  TInv'
  <1>1. /\ AtClass /\ SetBody(Top)
        /\ visits' \in Visits /\ Stacked(visits', text)
        /\ UNCHANGED <<status, properties, methods, text, compiled>>
    BY MethodOpened
  <1>2. Top \in ClassVisit /\ Top.name \in ClassNames /\ Top.name \in DOMAIN types
    BY <1>1, ClassOnTop
  <1>3. DOMAIN types' = DOMAIN types /\ Structs(types') /\ Texts(text, types')
    BY <1>1, <1>2, SetsBody
  <1>4. /\ DOMAIN functions' \subseteq ClassNames \X MethodNames
        /\ \A f \in DOMAIN functions' : functions'[f] \in Nat \ {0}
    <2> DEFINE name == <<Top.name, m>>
               n == IF name \in DOMAIN functions THEN functions[name] + 1 ELSE 1
    <2>1. functions' = With(functions, name, n)
      BY DEF OpenMethod
    <2>2. /\ DOMAIN functions \subseteq ClassNames \X MethodNames
          /\ \A f \in DOMAIN functions : functions[f] \in Nat \ {0}
          /\ name \in ClassNames \X MethodNames
      BY <1>2 DEF TInv, Kinds
    <2>3. n \in Nat \ {0}
      BY <2>2
    <2> HIDE DEF n, name
    <2>4. QED
      BY <2>1, <2>2, <2>3 DEF With
  <1>5. Kinds'
    BY <1>1, <1>3, <1>4 DEF TInv, Kinds
  <1>6. Tables'
    BY <1>1, <1>3 DEF TInv, Tables
  <1>7. Created'
    BY <1>1, <1>3 DEF TInv, Created
  <1>8. QED
    BY <1>1, <1>5, <1>6, <1>7 DEF TInv

\* The method's slot and function.
Entered(entry, c, m) == [slot |-> Slot(entry, m), function |-> GetFunction(c, m)]

LEMMA EnteredIs ==
  ASSUME NEW entry, MethodEntry(entry), NEW c \in ClassNames, NEW m \in MethodNames
  PROVE  /\ Entered(entry, c, m) \in [slot : Nat \ {0}, function : Overrider]
         /\ Entered(entry, c, m).function = [class |-> c, copy |-> 1]
         /\ m \in DOMAIN entry => Entered(entry, c, m).slot = entry[m].slot
         /\ m \notin DOMAIN entry => Entered(entry, c, m).slot = Cardinality(DOMAIN entry) + 1
         /\ Cardinality(DOMAIN entry) \in Nat
  <1>1. Cardinality(DOMAIN entry) \in Nat
    BY FS_CardinalityType DEF MethodEntry
  <1>2. Slot(entry, m) \in Nat \ {0}
    BY <1>1 DEF Slot, MethodEntry
  <1>3. QED
    BY <1>1, <1>2 DEF Entered, GetFunction, Overrider, Slot

LEMMA CloseMethodTInv ==
  ASSUME TInv, CloseMethod
  PROVE  TInv'
  <1> DEFINE a     == visits[Inner]
             m     == Top.member.name
             entry == Entry(methods, a.name)
             new   == With(entry, m, Entered(entry, a.name, m))
  <1>1. /\ AtMember("method") /\ methods' = With(methods, a.name, new)
        /\ Back(a, a.elems) /\ Wrote(a, Top.member)
        /\ UNCHANGED <<status, types, properties, functions, compiled>>
    BY DEF CloseMethod, Entered
  <1>2. /\ Top = visits[Len(visits)] /\ Top.op = "member"
        /\ Top.member \in Member /\ Top.member.kind = "method"
        /\ Inner = Len(visits) - 1 /\ Inner \in DOMAIN visits
        /\ a.op = "class" /\ a \in ClassVisit
        /\ Follows(a, Top.member, text)
        /\ a.name \in ClassNames /\ a.name \in DOMAIN types
    BY <1>1, ClassOfMember
  <1>3. a.elems \in Seq(Types) /\ m \in MethodNames
    BY <1>2 DEF ClassVisit, Member
  <1> HIDE DEF a, m
  <1>4. /\ visits' \in Visits /\ Stacked(visits', text')
        /\ Grown(text, text', a, Top.member) /\ Texts(text', types)
        /\ a.name \in DOMAIN text
    BY <1>1, <1>2, <1>3, Advance DEF a
  <1>5. Kinds'
    BY <1>1, <1>4 DEF TInv, Kinds
  <1>6. Tables'
    <2>1. DOMAIN methods' = DOMAIN methods \cup {a.name}
      BY <1>1 DEF With
    <2>2. DOMAIN properties' \subseteq DOMAIN types' /\ DOMAIN methods' \subseteq DOMAIN types'
      BY <1>1, <1>2, <2>1 DEF TInv, Tables
    <2>3. MethodEntry(entry)
      BY <1>2 DEF TInv, Tables
    <2> HIDE DEF entry
    <2>4. MethodEntry(new)
      BY <1>2, <1>3, <2>3, EnteredIs, AnotherMethod
    <2> HIDE DEF new
    <2>5. ASSUME NEW c \in ClassNames
          PROVE  PropertyEntry(Entry(properties', c)) /\ MethodEntry(Entry(methods', c))
      <3>1. Entry(methods', c) = IF c = a.name THEN new ELSE Entry(methods, c)
        BY <1>1, EntryWith
      <3>2. QED
        BY <1>1, <2>4, <3>1 DEF TInv, Tables
    <2>6. QED
      BY <2>2, <2>5 DEF Tables
  <1>7. Created'
    BY <1>1, <1>2, <1>4, StillCreated
  <1>8. QED
    BY <1>4, <1>5, <1>6, <1>7 DEF TInv

LEMMA CloseClassTInv ==
  ASSUME TInv, CloseClass
  PROVE  TInv'
  <1>1. /\ AtClass /\ SetBody(Top)
        /\ visits' = SubSeq(visits, 1, Len(visits) - 1)
        /\ UNCHANGED <<status, properties, methods, functions, text, compiled>>
    BY DEF CloseClass
  <1>2. /\ Top \in ClassVisit /\ Top.name \in DOMAIN types /\ Top.op = "class"
        /\ Len(visits) \in DOMAIN visits /\ Top = visits[Len(visits)]
    BY <1>1, ClassOnTop
  <1>3. DOMAIN types' = DOMAIN types /\ Structs(types') /\ Texts(text, types')
    BY <1>1, <1>2, SetsBody
  <1>4. visits' \in Visits /\ Stacked(visits', text)
    BY <1>1, <1>2, Cut DEF TInv, Kinds
  <1>5. QED
    BY <1>1, <1>3, <1>4 DEF TInv, Kinds, Tables, Created

LEMMA NextTInv == TInv /\ [Next]_vars => TInv'
  <1> SUFFICES ASSUME TInv, [Next]_vars PROVE TInv'
    OBVIOUS
  <1>1. CASE \E c \in ClassNames, parent \in ClassNames \cup {NoClass} : OpenClass(c, parent)
    BY <1>1, OpensTInv
  <1>2. CASE \E c, parent \in ClassNames : UnknownParent(c, parent)
    BY <1>2, FS_EmptySet, TablesStay DEF UnknownParent, Throw
  <1>3. CASE \/ \E p \in PropNames, t \in Types : DeclProperty(p, t) \/ OpenInitializer(p, t)
             \/ CloseInitializer
    BY <1>3, PropertiesTInv
  <1>4. CASE \E m \in MethodNames : OpenMethod(m)
    BY <1>4, OpenMethodTInv
  <1>5. CASE CloseMethod
    BY <1>5, CloseMethodTInv
  <1>6. CASE CloseClass
    BY <1>6, CloseClassTInv
  <1>7. CASE UsesOfClasses
    BY <1>7, UsesStay
  <1>8. CASE UNCHANGED vars
    BY <1>8, TablesStay DEF vars, TInv, Kinds
  <1>9. QED
    BY <1>1, <1>2, <1>3, <1>4, <1>5, <1>6, <1>7, <1>8 DEF Next, Declarations, Failed

\* The types of the tables, for every number of classes and members: slots and positions
\* count from 1, and a class that is declared again goes no further than what was
\* written of it the first time.
THEOREM TypeCorrect == Spec => []TypeOK
  <1>1. TInv => TypeOK
    BY Implied
  <1>2. QED
    BY <1>1, InitTInv, NextTInv, PTL DEF Spec

\* new finds a table of properties for exactly the classes that have, or inherit from, a
\* class, or a property of their own (properties.at(), codegen.cpp:852), however early
\* classes are used.
THEOREM CreatableClasses == Spec => []Creatable
  <1>1. TInv => Creatable
    BY Implied
  <1>2. QED
    BY <1>1, InitTInv, NextTInv, PTL DEF Spec
-----------------------------------------------------------------------------
(* What was laid out of a class after so many of its members: the          *)
(* positions p, the elements e and the methods g.  Where something may be  *)
(* used early, a class may be extended before it has all its methods: they *)
(* are not followed then.                                                  *)

Nothing == [p |-> NoEntries, e |-> <<>>, g |-> NoEntries]

Grow(s, c, mb) ==
  IF mb.kind = "property"
  THEN LET n == Position(s.p, mb.name, s.e)
       IN  [p |-> With(s.p, mb.name, n), e |-> Laid(s.e, n, mb.type), g |-> s.g]
  ELSE IF EarlyUses THEN s
  ELSE [p |-> s.p, e |-> s.e, g |-> With(s.g, mb.name, Entered(s.g, c, mb.name))]

\* The positions number the elements, one by one, and the slots the methods.
Numbers(p, e) ==
  /\ \A x, y \in DOMAIN p : p[x] = p[y] => x = y
  /\ \A x \in DOMAIN p : p[x] \in DOMAIN e
  /\ \A n \in DOMAIN e : \E x \in DOMAIN p : p[x] = n

NumbersSlots(g) == {g[m].slot : m \in DOMAIN g} = 1 .. Cardinality(DOMAIN g)

Whole(s) ==
  /\ PropertyEntry(s.p) /\ s.e \in Seq(Types) /\ MethodEntry(s.g)
  /\ Numbers(s.p, s.e) /\ NumbersSlots(s.g)

\* Nothing of s is elsewhere in z, and a method that the class c itself gave stays its.
Extends(s, z, c) ==
  /\ \A x \in DOMAIN s.p : x \in DOMAIN z.p /\ z.p[x] = s.p[x]
  /\ Len(s.e) <= Len(z.e)
  /\ \A m \in DOMAIN s.g : /\ m \in DOMAIN z.g /\ z.g[m].slot = s.g[m].slot
                           /\ s.g[m].function.class = c => z.g[m].function.class = c

LEMMA NothingIsWhole == Whole(Nothing)
  <1>1. Nothing.p = NoEntries /\ Nothing.e = <<>> /\ Nothing.g = NoEntries
    BY DEF Nothing
  <1>2. Numbers(NoEntries, <<>>)
    BY WithoutEntries DEF Numbers
  <1>3. NumbersSlots(NoEntries)
    <2>1. Cardinality(DOMAIN NoEntries) = 0
      BY WithoutEntries, FS_EmptySet
    <2>2. {NoEntries[m].slot : m \in DOMAIN NoEntries} = {}
      BY WithoutEntries
    <2>3. 1 .. 0 = {}
      OBVIOUS
    <2>4. QED
      BY <2>1, <2>2, <2>3 DEF NumbersSlots
  <1>4. QED
    BY <1>1, <1>2, <1>3, NothingIsAnEntry, EmptySeq DEF Whole

LEMMA ExtendsItself ==
  ASSUME NEW s, NEW c, Whole(s)
  PROVE  Extends(s, s, c)
  <1>1. Len(s.e) \in Nat
    BY DEF Whole
  <1>2. QED
    BY <1>1 DEF Extends

LEMMA ExtendsFurther ==
  ASSUME NEW s, NEW z, NEW y, NEW c, Whole(s), Whole(z), Whole(y),
         Extends(s, z, c), Extends(z, y, c)
  PROVE  Extends(s, y, c)
  <1>1. Len(s.e) \in Nat /\ Len(z.e) \in Nat /\ Len(y.e) \in Nat
    BY DEF Whole
  <1>2. Len(s.e) <= Len(y.e)
    BY <1>1 DEF Extends
  <1>3. \A x \in DOMAIN s.p : x \in DOMAIN y.p /\ y.p[x] = s.p[x]
    BY DEF Extends
  <1>4. \A m \in DOMAIN s.g : /\ m \in DOMAIN y.g /\ y.g[m].slot = s.g[m].slot
                              /\ s.g[m].function.class = c => y.g[m].function.class = c
    BY DEF Extends
  <1>5. QED
    BY <1>2, <1>3, <1>4 DEF Extends

\* A property laid out in what is whole.
LEMMA GrowsByProperty ==
  ASSUME NEW s, Whole(s), NEW c, NEW mb \in Member, mb.kind = "property"
  PROVE  LET n == Position(s.p, mb.name, s.e)
             z == Grow(s, c, mb)
         IN  /\ z.p = With(s.p, mb.name, n) /\ z.e = Laid(s.e, n, mb.type) /\ z.g = s.g
             /\ mb.name \in PropNames /\ mb.type \in Types
             /\ n \in 1 .. Len(s.e) + 1 /\ n \in Nat \ {0}
             /\ mb.name \in DOMAIN s.p => n = s.p[mb.name] /\ n \in DOMAIN s.e
             /\ mb.name \notin DOMAIN s.p => n = Len(s.e) + 1
  <1>1. mb.name \in PropNames /\ mb.type \in Types
    BY DEF Member
  <1>2. s.e \in Seq(Types) /\ \A x \in DOMAIN s.p : s.p[x] \in DOMAIN s.e
    BY DEF Whole, Numbers
  <1> DEFINE n == Position(s.p, mb.name, s.e)
  <1>3. /\ n \in 1 .. Len(s.e) + 1 /\ n \in Nat \ {0}
        /\ mb.name \in DOMAIN s.p => n = s.p[mb.name] /\ n \in DOMAIN s.e
        /\ mb.name \notin DOMAIN s.p => n = Len(s.e) + 1
    BY <1>2, PositionIs
  <1> HIDE DEF n
  <1>4. LET z == Grow(s, c, mb)
        IN  z.p = With(s.p, mb.name, n) /\ z.e = Laid(s.e, n, mb.type) /\ z.g = s.g
    BY DEF Grow, n
  <1>5. QED
    BY <1>1, <1>3, <1>4 DEF n

LEMMA PropertyKeepsWhole ==
  ASSUME NEW s, Whole(s), NEW c, NEW mb \in Member, mb.kind = "property"
  PROVE  Whole(Grow(s, c, mb)) /\ Extends(s, Grow(s, c, mb), c)
  <1> DEFINE x == mb.name
             n == Position(s.p, x, s.e)
             z == Grow(s, c, mb)
  <1>1. /\ z.p = With(s.p, x, n) /\ z.e = Laid(s.e, n, mb.type) /\ z.g = s.g
        /\ x \in PropNames /\ mb.type \in Types
        /\ n \in 1 .. Len(s.e) + 1 /\ n \in Nat \ {0}
        /\ x \in DOMAIN s.p => n = s.p[x] /\ n \in DOMAIN s.e
        /\ x \notin DOMAIN s.p => n = Len(s.e) + 1
    BY GrowsByProperty
  <1>2. /\ s.e \in Seq(Types) /\ PropertyEntry(s.p) /\ MethodEntry(s.g)
        /\ Numbers(s.p, s.e) /\ NumbersSlots(s.g)
    BY DEF Whole
  <1> HIDE DEF x, n, z
  <1>3. /\ z.e \in Seq(Types)
        /\ n = Len(s.e) + 1 => Len(z.e) = n
        /\ n # Len(s.e) + 1 => Len(z.e) = Len(s.e)
        /\ DOMAIN z.e = 1 .. Len(z.e) /\ DOMAIN s.e = 1 .. Len(s.e) /\ Len(s.e) \in Nat
    <2>1. LET laid == Laid(s.e, n, mb.type)
          IN  /\ laid \in Seq(Types)
              /\ n = Len(s.e) + 1 => Len(laid) = n
              /\ n # Len(s.e) + 1 => Len(laid) = Len(s.e)
      BY <1>1, <1>2, LaidIs
    <2>2. QED
      BY <1>1, <1>2, <2>1
  <1>4. /\ DOMAIN z.p = DOMAIN s.p \cup {x} /\ z.p[x] = n
        /\ \A y \in DOMAIN s.p : z.p[y] = s.p[y]
    BY <1>1 DEF With
  <1>5. /\ Len(s.e) <= Len(z.e) /\ n \in DOMAIN z.e
        /\ \A i \in DOMAIN s.e : i \in DOMAIN z.e
        /\ \A i \in DOMAIN z.e : i = n \/ i \in DOMAIN s.e
        /\ x \notin DOMAIN s.p => n \notin DOMAIN s.e
    BY <1>1, <1>3
  <1>6. PropertyEntry(z.p)
    BY <1>1, <1>2, AnotherProperty
  <1>7. Numbers(z.p, z.e)
    <2>1. ASSUME NEW y \in DOMAIN z.p
          PROVE  z.p[y] \in DOMAIN z.e /\ (y # x => z.p[y] # n)
      BY <1>1, <1>2, <1>4, <1>5 DEF Numbers
    <2>2. ASSUME NEW y \in DOMAIN z.p, NEW w \in DOMAIN z.p, z.p[y] = z.p[w]
          PROVE  y = w
      BY <1>2, <1>4, <2>1, <2>2 DEF Numbers
    <2>3. ASSUME NEW i \in DOMAIN z.e
          PROVE  \E y \in DOMAIN z.p : z.p[y] = i
      BY <1>2, <1>4, <1>5 DEF Numbers
    <2>4. QED
      BY <2>1, <2>2, <2>3 DEF Numbers
  <1>8. Extends(s, z, c)
    BY <1>1, <1>4, <1>5 DEF Extends
  <1>9. Whole(z)
    BY <1>1, <1>2, <1>3, <1>6, <1>7 DEF Whole
  <1>10. QED
    BY <1>8, <1>9 DEF z

LEMMA SlotsGoOn ==
  ASSUME NEW g, MethodEntry(g), NumbersSlots(g), NEW c \in ClassNames, NEW m \in MethodNames
  PROVE  NumbersSlots(With(g, m, Entered(g, c, m)))
  <1> DEFINE f == Entered(g, c, m)
             h == With(g, m, f)
             n == Cardinality(DOMAIN g)
  <1>1. /\ m \in DOMAIN g => f.slot = g[m].slot
        /\ m \notin DOMAIN g => f.slot = n + 1
        /\ n \in Nat /\ IsFiniteSet(DOMAIN g)
    BY EnteredIs DEF MethodEntry
  <1> HIDE DEF f
  <1>2. /\ DOMAIN h = DOMAIN g \cup {m} /\ h[m] = f
        /\ \A y \in DOMAIN g : y # m => h[y] = g[y]
    BY DEF With
  <1> HIDE DEF h
  <1>3. \A y \in DOMAIN g : h[y].slot = g[y].slot
    BY <1>1, <1>2
  <1>4. CASE m \in DOMAIN g
    <2>1. DOMAIN h = DOMAIN g
      BY <1>2, <1>4
    <2>2. {h[y].slot : y \in DOMAIN h} = {g[y].slot : y \in DOMAIN g}
      BY <1>3, <2>1
    <2>3. QED
      BY <2>1, <2>2 DEF NumbersSlots, h, f
  <1>5. CASE m \notin DOMAIN g
    <2>1. Cardinality(DOMAIN h) = n + 1
      BY <1>1, <1>2, <1>5, FS_AddElement
    <2>2. {h[y].slot : y \in DOMAIN h} = {g[y].slot : y \in DOMAIN g} \cup {n + 1}
      BY <1>1, <1>2, <1>3, <1>5
    <2> HIDE DEF n
    <2>3. 1 .. n + 1 = (1 .. n) \cup {n + 1}
      BY <1>1
    <2>4. {g[y].slot : y \in DOMAIN g} = 1 .. n
      BY DEF NumbersSlots, n
    <2>5. QED
      BY <2>1, <2>2, <2>3, <2>4 DEF NumbersSlots, h, f
  <1>6. QED
    BY <1>4, <1>5

LEMMA GrowsByMethod ==
  ASSUME NEW s, Whole(s), NEW c \in ClassNames, NEW mb \in Member, mb.kind = "method"
  PROVE  LET z == Grow(s, c, mb)
         IN  /\ z.p = s.p /\ z.e = s.e
             /\ EarlyUses => z = s
             /\ ~EarlyUses => z.g = With(s.g, mb.name, Entered(s.g, c, mb.name))
             /\ mb.name \in MethodNames
  BY DEF Grow, Member

LEMMA MethodKeepsWhole ==
  ASSUME NEW s, Whole(s), NEW c \in ClassNames, NEW mb \in Member, mb.kind = "method",
         ~EarlyUses
  PROVE  Whole(Grow(s, c, mb)) /\ Extends(s, Grow(s, c, mb), c)
  <1> DEFINE m == mb.name
             f == Entered(s.g, c, m)
             z == Grow(s, c, mb)
  <1>1. z.p = s.p /\ z.e = s.e /\ z.g = With(s.g, m, f) /\ m \in MethodNames
    BY GrowsByMethod
  <1>2. /\ s.e \in Seq(Types) /\ PropertyEntry(s.p) /\ MethodEntry(s.g)
        /\ Numbers(s.p, s.e) /\ NumbersSlots(s.g)
    BY DEF Whole
  <1>3. /\ f \in [slot : Nat \ {0}, function : Overrider]
        /\ f.function = [class |-> c, copy |-> 1]
        /\ m \in DOMAIN s.g => f.slot = s.g[m].slot
    BY <1>1, <1>2, EnteredIs
  <1> HIDE DEF f, m, z
  <1>4. /\ DOMAIN z.g = DOMAIN s.g \cup {m} /\ z.g[m] = f
        /\ \A y \in DOMAIN s.g : y # m => z.g[y] = s.g[y]
    BY <1>1 DEF With
  <1>5. MethodEntry(z.g)
    BY <1>1, <1>2, <1>3, AnotherMethod
  <1>6. NumbersSlots(z.g)
    BY <1>1, <1>2, SlotsGoOn DEF f
  <1>7. Extends(s, z, c)
    <2>1. Len(s.e) \in Nat
      BY <1>2
    <2>2. f.function.class = c
      BY <1>3
    <2>3. QED
      BY <1>1, <1>3, <1>4, <2>1, <2>2 DEF Extends
  <1>8. Whole(z)
    BY <1>1, <1>2, <1>5, <1>6 DEF Whole
  <1>9. QED
    BY <1>7, <1>8 DEF z

LEMMA GrowKeepsWhole ==
  ASSUME NEW s, Whole(s), NEW c \in ClassNames, NEW mb \in Member
  PROVE  Whole(Grow(s, c, mb)) /\ Extends(s, Grow(s, c, mb), c)
  <1>1. mb.kind \in {"property", "method"}
    BY DEF Member
  <1>2. CASE mb.kind = "method" /\ EarlyUses
    BY <1>2, GrowsByMethod, ExtendsItself
  <1>3. QED
    BY <1>1, <1>2, PropertyKeepsWhole, MethodKeepsWhole

\* No other property has the position of the next one.
LEMMA AloneThere ==
  ASSUME NEW z, Whole(z), NEW x
  PROVE  \A p \in DOMAIN z.p : p # x => z.p[p] # Position(z.p, x, z.e)
  <1>1. z.e \in Seq(Types) /\ Numbers(z.p, z.e)
    BY DEF Whole
  <1> DEFINE e == z.e
             q == z.p
             n == Position(q, x, e)
  <1>2. e \in Seq(Types)
    BY <1>1
  <1>3. \/ x \in DOMAIN q /\ n = q[x]
        \/ n = Len(e) + 1
    <2> HIDE DEF e
    <2>1. QED
      BY <1>2, PositionIs
  <1>4. n = Len(e) + 1 => n \notin DOMAIN e
    <2>1. Len(e) \in Nat /\ DOMAIN e = 1 .. Len(e)
      BY <1>2
    <2> HIDE DEF e, n
    <2>2. QED
      BY <2>1
  <1> HIDE DEF n
  <1>5. QED
    BY <1>1, <1>3, <1>4 DEF Numbers, n

\* No property among the members 1 .. k hides the property x with another type than t.
Untyped(ms, k, x, t) ==
  \A i \in 1 .. k : ms[i].kind = "property" /\ ms[i].name = x => ms[i].type = t

\* The elements that first has are in s where none of the members 1 .. k hides them with
\* another type.
Keeps(first, s, ms, k) ==
  \A x \in DOMAIN first.p :
    Untyped(ms, k, x, first.e[first.p[x]]) => s.e[first.p[x]] = first.e[first.p[x]]

\* One member later.
LEMMA GrowKeeps ==
  ASSUME NEW first, Whole(first), NEW s, Whole(s), NEW c \in ClassNames, Extends(first, s, c),
         NEW ms, NEW k \in Nat, Keeps(first, s, ms, k),
         NEW mb \in Member, ms[k + 1] = mb
  PROVE  Keeps(first, Grow(s, c, mb), ms, k + 1)
  <1> SUFFICES ASSUME NEW x \in DOMAIN first.p, Untyped(ms, k + 1, x, first.e[first.p[x]])
               PROVE  Grow(s, c, mb).e[first.p[x]] = first.e[first.p[x]]
    BY DEF Keeps
  <1> DEFINE t == first.e[first.p[x]]
  <1>1. Untyped(ms, k, x, t) /\ (mb.kind = "property" /\ mb.name = x => mb.type = t)
    <2>1. /\ \A i \in 1 .. k : i \in 1 .. k + 1
          /\ k + 1 \in 1 .. k + 1
      OBVIOUS
    <2> HIDE DEF t
    <2>2. Untyped(ms, k + 1, x, t)
      BY DEF t
    <2>3. QED
      BY <2>1, <2>2 DEF Untyped
  <1>2. x \in DOMAIN s.p /\ s.p[x] = first.p[x] /\ s.e[s.p[x]] = t
    BY <1>1 DEF Extends, Keeps
  <1> HIDE DEF t
  <1>3. CASE mb.kind = "property"
    <2> DEFINE n == Position(s.p, mb.name, s.e)
    <2>1. /\ Grow(s, c, mb).e = Laid(s.e, n, mb.type) /\ mb.type \in Types
          /\ n \in 1 .. Len(s.e) + 1
          /\ mb.name \in DOMAIN s.p => n = s.p[mb.name]
      BY <1>3, GrowsByProperty
    <2>2. s.e \in Seq(Types) /\ s.p[x] \in DOMAIN s.e
      BY <1>2 DEF Whole, Numbers
    <2>3. mb.name # x => s.p[x] # n
      BY <1>2, AloneThere
    <2> DEFINE es == s.e
    <2> HIDE DEF n, es
    <2>4. /\ Laid(es, n, mb.type)[n] = mb.type
          /\ \A i \in DOMAIN es : i # n => Laid(es, n, mb.type)[i] = es[i]
      BY <2>1, <2>2, LaidIs DEF es
    <2>5. Laid(es, n, mb.type)[s.p[x]] = t
      BY <1>1, <1>2, <1>3, <2>1, <2>2, <2>3, <2>4 DEF es
    <2>6. QED
      BY <1>2, <2>1, <2>5 DEF es, t
  <1>4. CASE mb.kind = "method"
    <2>1. Grow(s, c, mb).e = s.e
      BY <1>4, GrowsByMethod
    <2>2. QED
      BY <1>2, <2>1 DEF t
  <1>5. mb.kind \in {"property", "method"}
    BY DEF Member
  <1>6. QED
    BY <1>3, <1>4, <1>5

\* What h says of the members ms of c one after the other, from what was inherited on.
History(h, ms, c, first) ==
  /\ h[0] = first
  /\ \A k \in 0 .. Len(ms) : Whole(h[k]) /\ Extends(h[k], h[Len(ms)], c)
  /\ \A k \in 0 .. Len(ms) : k < Len(ms) => h[k + 1] = Grow(h[k], c, ms[k + 1])
  /\ \A k \in 0 .. Len(ms) : Extends(first, h[k], c) /\ Keeps(first, h[k], ms, k)
  /\ EarlyUses => \A k \in 0 .. Len(ms) :
       (\A j \in DOMAIN ms : j > k => ms[j].kind = "method") => h[k] = h[Len(ms)]

LEMMA HistoryStarts ==
  ASSUME NEW first, Whole(first), NEW c
  PROVE  History([k \in {0} |-> first], <<>>, c, first)
  <1> DEFINE h == [k \in {0} |-> first]
  <1>1. h[0] = first /\ Len(<<>>) = 0
    OBVIOUS
  <1> HIDE DEF h
  <1>2. \A k \in 0 .. 0 : k = 0
    OBVIOUS
  <1>3. Extends(first, first, c)
    BY ExtendsItself
  <1>4. Keeps(first, first, <<>>, 0)
    BY DEF Keeps
  <1>5. QED
    BY <1>1, <1>2, <1>3, <1>4 DEF History, h

\* One more member.
Longer(h, ms, c, mb) ==
  [k \in 0 .. Len(ms) + 1 |-> IF k = Len(ms) + 1 THEN Grow(h[Len(ms)], c, mb) ELSE h[k]]

LEMMA HistoryGoesOn ==
  ASSUME NEW c \in ClassNames, NEW ms \in Seq(Member), NEW mb \in Member,
         NEW h, NEW first, History(h, ms, c, first)
  PROVE  LET z == Longer(h, ms, c, mb)
         IN  /\ History(z, Append(ms, mb), c, first)
             /\ z[Len(Append(ms, mb))] = Grow(h[Len(ms)], c, mb)
  <1> DEFINE n  == Len(ms)
             z  == Longer(h, ms, c, mb)
             new == Grow(h[n], c, mb)
             us == Append(ms, mb)
  <1>1. /\ n \in Nat /\ Len(us) = n + 1 /\ us[n + 1] = mb
        /\ \A i \in 1 .. n : us[i] = ms[i]
        /\ DOMAIN ms = 1 .. n /\ DOMAIN us = 1 .. n + 1
    BY AppendProperties
  <1>2. Whole(h[n]) /\ Whole(new) /\ Extends(h[n], new, c)
    <2>1. n \in 0 .. n
      BY <1>1
    <2>2. Whole(h[n])
      BY <2>1 DEF History
    <2>3. QED
      BY <2>2, GrowKeepsWhole
  <1> HIDE DEF new, n
  <1>3. z[n + 1] = new /\ \A k \in 0 .. n : z[k] = h[k]
    <2>1. z = [k \in 0 .. n + 1 |-> IF k = n + 1 THEN new ELSE h[k]]
      BY DEF Longer, new, n
    <2>2. /\ n + 1 \in 0 .. n + 1
          /\ \A k \in 0 .. n : k \in 0 .. n + 1 /\ k # n + 1
      BY <1>1
    <2>3. QED
      BY <2>1, <2>2
  <1> HIDE DEF z, us
  <1>4. /\ \A k \in 0 .. n + 1 : k = n + 1 \/ k \in 0 .. n
        /\ \A k \in 0 .. n : k < n => k + 1 \in 1 .. n /\ k + 1 \in 0 .. n
        /\ \A k \in 0 .. n : k < n \/ k = n
        /\ ~(n + 1 < n + 1)
    BY <1>1
  <1>5. h[0] = first /\ 0 \in 0 .. n
    BY <1>1 DEF History, n
  <1>6. ASSUME NEW k \in 0 .. n
        PROVE  Whole(h[k]) /\ Extends(h[k], new, c)
    <2>1. Whole(h[k]) /\ Extends(h[k], h[n], c)
      BY DEF History, n
    <2>2. QED
      BY <1>2, <2>1, ExtendsFurther
  <1>7. \A k \in 0 .. n + 1 : Whole(z[k]) /\ Extends(z[k], z[n + 1], c)
    BY <1>2, <1>3, <1>4, <1>6, ExtendsItself
  <1>8. ASSUME NEW k \in 0 .. n + 1, k < n + 1
        PROVE  z[k + 1] = Grow(z[k], c, us[k + 1])
    <2>1. k \in 0 .. n
      BY <1>4, <1>8
    <2>2. CASE k = n
      BY <1>1, <1>3, <2>1, <2>2 DEF new
    <2>3. CASE k < n
      <3>1. h[k + 1] = Grow(h[k], c, ms[k + 1])
        BY <2>1, <2>3 DEF History, n
      <3>2. k + 1 \in 1 .. n /\ k + 1 \in 0 .. n
        BY <1>4, <2>1, <2>3
      <3>3. QED
        BY <1>1, <1>3, <2>1, <3>1, <3>2
    <2>4. QED
      BY <1>4, <2>1, <2>2, <2>3
  <1>9. ASSUME EarlyUses, NEW k \in 0 .. n + 1,
               \A j \in DOMAIN us : j > k => us[j].kind = "method"
        PROVE  z[k] = z[n + 1]
    <2>1. CASE k = n + 1
      BY <2>1
    <2>2. CASE k \in 0 .. n
      <3>1. /\ n + 1 \in DOMAIN us /\ n + 1 > k
            /\ \A j \in DOMAIN ms : j \in DOMAIN us /\ us[j] = ms[j]
        BY <1>1, <2>2
      <3>2. mb.kind = "method"
        BY <1>1, <1>9, <3>1
      <3>3. new = h[n]
        BY <1>2, <1>9, <3>2, GrowsByMethod DEF new
      <3>4. h[k] = h[n]
        BY <1>9, <2>2, <3>1 DEF History, n
      <3>5. QED
        BY <1>3, <2>2, <3>3, <3>4
    <2>3. QED
      BY <1>4, <2>1, <2>2
  <1>10. ASSUME NEW k \in 0 .. n
         PROVE  Extends(first, h[k], c) /\ Keeps(first, h[k], us, k)
    <2>1. Extends(first, h[k], c) /\ Keeps(first, h[k], ms, k)
      BY DEF History, n
    <2>2. \A i \in 1 .. k : us[i] = ms[i]
      BY <1>1
    <2>3. QED
      BY <2>1, <2>2 DEF Keeps, Untyped
  <1>11. Whole(first) /\ n \in 0 .. n
    BY <1>1, <1>5 DEF History, n
  <1>12. Extends(first, new, c) /\ Keeps(first, new, us, n + 1)
    <2>1. Extends(first, h[n], c) /\ Keeps(first, h[n], us, n)
      BY <1>10, <1>11
    <2>2. Extends(first, new, c)
      BY <1>2, <1>11, <2>1, ExtendsFurther
    <2>3. Keeps(first, new, us, n + 1)
      BY <1>1, <1>2, <1>11, <2>1, GrowKeeps DEF new
    <2>4. QED
      BY <2>2, <2>3
  <1>13. \A k \in 0 .. n + 1 : Extends(first, z[k], c) /\ Keeps(first, z[k], us, k)
    BY <1>3, <1>4, <1>10, <1>12
  <1>14. History(z, us, c, first)
    BY <1>1, <1>3, <1>5, <1>7, <1>8, <1>9, <1>13 DEF History
  <1>15. QED
    BY <1>1, <1>3, <1>14 DEF z, us, new, n

\* What a class has in the end, and what it begins with: what its parent has in the end.
Last(S, tx, c)  == S[c][Len(tx[c].members)]
First(S, tx, c) == IF tx[c].parent \in {NoClass, c} THEN Nothing ELSE Last(S, tx, tx[c].parent)

Histories(S, tx) == \A c \in DOMAIN tx : History(S[c], tx[c].members, c, First(S, tx, c))

LEMMA LastIs ==
  ASSUME NEW ty, NEW tx, Texts(tx, ty), NEW S, Histories(S, tx), NEW c \in DOMAIN tx
  PROVE  /\ Whole(Last(S, tx, c)) /\ tx[c].members \in Seq(Member)
         /\ Len(tx[c].members) \in Nat
         /\ Extends(First(S, tx, c), Last(S, tx, c), c) /\ Whole(First(S, tx, c))
         /\ Keeps(First(S, tx, c), Last(S, tx, c), tx[c].members, Len(tx[c].members))
         /\ S[c][0] = First(S, tx, c)
         /\ \A k \in 0 .. Len(tx[c].members) :
              /\ Whole(S[c][k]) /\ Extends(S[c][k], Last(S, tx, c), c)
              /\ EarlyUses /\ (\A j \in DOMAIN tx[c].members :
                                 j > k => tx[c].members[j].kind = "method") =>
                   S[c][k] = Last(S, tx, c)
  <1>1. tx[c].members \in Seq(Member)
    BY DEF Texts, Text
  <1>2. Len(tx[c].members) \in Nat
    BY <1>1
  <1>3. 0 \in 0 .. Len(tx[c].members) /\ Len(tx[c].members) \in 0 .. Len(tx[c].members)
    BY <1>2
  <1>4. History(S[c], tx[c].members, c, First(S, tx, c))
    BY DEF Histories
  <1>5. QED
    BY <1>1, <1>2, <1>3, <1>4 DEF History, Last
-----------------------------------------------------------------------------
(* A class that is declared again comes to what it was, member by member:  *)
(* s is what it had come to then, z what it has in the end.                *)

\* It starts with its own elements if it extends itself.
Over(elems, s, z) ==
  /\ Len(elems) = Len(z.e)
  /\ \A x \in DOMAIN z.p :
       /\ x \in DOMAIN s.p => elems[z.p[x]] = s.e[s.p[x]]
       /\ x \notin DOMAIN s.p => elems[z.p[x]] = z.e[z.p[x]]

\* Its tables are still there, unless they are replaced by its parent's.
Replays(elems, parent, c, s, z, prc, mec) ==
  /\ parent \in {NoClass, c} => prc = z.p /\ mec = z.g
  /\ parent \notin {NoClass, c} => prc = s.p /\ mec = s.g
  /\ parent # c => elems = s.e
  /\ parent = c => Over(elems, s, z)

\* The same positions again.
LEMMA ReplayedPosition ==
  ASSUME NEW s, NEW z, Whole(s), Whole(z), NEW c \in ClassNames,
         NEW mb \in Member, mb.kind = "property", Extends(Grow(s, c, mb), z, c),
         NEW elems \in Seq(Types), NEW parent, NEW prc, NEW mec,
         Replays(elems, parent, c, s, z, prc, mec)
  PROVE  LET n == Position(s.p, mb.name, s.e)
         IN  /\ Position(prc, mb.name, elems) = n
             /\ mb.name \in DOMAIN z.p /\ z.p[mb.name] = n
             /\ mb.name \in DOMAIN prc => prc[mb.name] = n
  <1> DEFINE x == mb.name
             n == Position(s.p, x, s.e)
             y == Grow(s, c, mb)
  <1>1. /\ y.p = With(s.p, x, n) /\ n \in 1 .. Len(s.e) + 1 /\ n \in Nat \ {0}
        /\ x \in DOMAIN s.p => n = s.p[x] /\ n \in DOMAIN s.e
        /\ x \notin DOMAIN s.p => n = Len(s.e) + 1
    BY GrowsByProperty
  <1> HIDE DEF n, x, y
  <1>2. x \in DOMAIN y.p /\ y.p[x] = n
    BY <1>1 DEF With
  <1>3. x \in DOMAIN z.p /\ z.p[x] = n
    BY <1>2 DEF Extends, y
  <1>4. s.e \in Seq(Types) /\ z.e \in Seq(Types) /\ n \in DOMAIN z.e
    BY <1>3 DEF Whole, Numbers
  <1>5. x \in DOMAIN prc => prc[x] = n
    BY <1>1, <1>3 DEF Replays
  <1>6. CASE parent = c
    <2>1. DOMAIN elems = DOMAIN z.e /\ prc = z.p
      BY <1>4, <1>6 DEF Replays, Over
    <2>2. QED
      BY <1>3, <1>4, <1>5, <2>1, PositionIs DEF n, x
  <1>7. CASE parent # c
    <2>1. elems = s.e
      BY <1>7 DEF Replays
    <2>2. CASE x \in DOMAIN prc /\ n \in DOMAIN s.e
      BY <1>3, <1>5, <2>1, <2>2, PositionIs DEF n, x
    <2>3. CASE x \notin DOMAIN prc
      <3>1. x \notin DOMAIN s.p
        BY <1>3, <2>3 DEF Replays
      <3>2. Position(prc, x, elems) = Len(s.e) + 1
        BY <2>1, <2>3, PositionIs
      <3>3. QED
        BY <1>1, <1>3, <1>5, <3>1, <3>2 DEF n, x
    <2>4. CASE x \in DOMAIN prc /\ n \notin DOMAIN s.e
      <3>1. x \notin DOMAIN s.p
        BY <1>1, <2>4
      <3>2. Position(prc, x, elems) = Len(s.e) + 1
        BY <1>5, <2>1, <2>4, PositionIs
      <3>3. QED
        BY <1>1, <1>3, <1>5, <3>1, <3>2 DEF n, x
    <2>5. QED
      BY <2>2, <2>3, <2>4
  <1>8. QED
    BY <1>6, <1>7

LEMMA ReplaysProperty ==
  ASSUME NEW s, NEW z, Whole(s), Whole(z), NEW c \in ClassNames,
         NEW mb \in Member, mb.kind = "property", Extends(Grow(s, c, mb), z, c),
         NEW elems \in Seq(Types), NEW parent, NEW prc, NEW mec,
         Replays(elems, parent, c, s, z, prc, mec)
  PROVE  LET n == Position(prc, mb.name, elems)
         IN  Replays(Laid(elems, n, mb.type), parent, c, Grow(s, c, mb), z,
                     With(prc, mb.name, n), mec)
  <1> DEFINE x == mb.name
             n == Position(s.p, x, s.e)
             y == Grow(s, c, mb)
             laid == Laid(elems, n, mb.type)
  <1>1. Position(prc, x, elems) = n /\ x \in DOMAIN z.p /\ z.p[x] = n
    BY ReplayedPosition
  <1>2. /\ y.p = With(s.p, x, n) /\ y.e = Laid(s.e, n, mb.type) /\ y.g = s.g
        /\ mb.type \in Types /\ n \in 1 .. Len(s.e) + 1 /\ n \in Nat \ {0}
        /\ x \in DOMAIN s.p => n = s.p[x] /\ n \in DOMAIN s.e
        /\ x \notin DOMAIN s.p => n = Len(s.e) + 1
    BY GrowsByProperty
  <1>3. /\ s.e \in Seq(Types) /\ z.e \in Seq(Types)
        /\ IsAMap(z.p) /\ Numbers(s.p, s.e) /\ Numbers(z.p, z.e)
    BY DEF Whole, PropertyEntry
  <1> HIDE DEF n, x, y, laid
  <1>4. With(z.p, x, n) = z.p
    BY <1>1, <1>3, WithSame
  <1>5. parent = c => Over(laid, y, z)
    <2> SUFFICES ASSUME parent = c PROVE Over(laid, y, z)
      OBVIOUS
    <2>1. Over(elems, s, z) /\ DOMAIN elems = DOMAIN z.e /\ Len(elems) = Len(z.e)
      BY <1>3 DEF Replays, Over
    <2>2. n \in DOMAIN elems
      BY <1>1, <1>3, <2>1 DEF Numbers
    <2>3. n \in 1 .. Len(elems) + 1 /\ n # Len(elems) + 1
      BY <2>2
    <2>4. /\ laid[n] = mb.type /\ Len(laid) = Len(elems)
          /\ \A i \in DOMAIN elems : i # n => laid[i] = elems[i]
      BY <1>2, <2>3, LaidIs DEF laid
    <2>5. /\ y.e[n] = mb.type
          /\ \A i \in DOMAIN s.e : i # n => y.e[i] = s.e[i]
      <3> DEFINE e == s.e
                 l == Laid(e, n, mb.type)
      <3>1. e \in Seq(Types) /\ n \in 1 .. Len(e) + 1 /\ mb.type \in Types
        BY <1>2, <1>3
      <3> HIDE DEF e
      <3>2. l[n] = mb.type /\ \A i \in DOMAIN e : i # n => l[i] = e[i]
        BY <3>1, LaidIs, ZenonT(60)
      <3>3. QED
        BY <1>2, <3>2 DEF e
    <2>6. DOMAIN y.p = DOMAIN s.p \cup {x} /\ y.p[x] = n
          /\ \A w \in DOMAIN s.p : w # x => y.p[w] = s.p[w]
      BY <1>2 DEF With
    <2>7. ASSUME NEW w \in DOMAIN z.p
          PROVE  /\ w \in DOMAIN y.p => laid[z.p[w]] = y.e[y.p[w]]
                 /\ w \notin DOMAIN y.p => laid[z.p[w]] = z.e[z.p[w]]
      <3>1. CASE w = x
        BY <1>1, <2>4, <2>5, <2>6, <3>1
      <3>2. CASE w # x
        <4>1. z.p[w] # n /\ z.p[w] \in DOMAIN elems
          BY <1>1, <1>3, <2>1, <3>2 DEF Numbers
        <4>2. laid[z.p[w]] = elems[z.p[w]]
          BY <2>4, <4>1
        <4>3. CASE w \in DOMAIN s.p
          <5>1. w \in DOMAIN y.p /\ y.p[w] = s.p[w] /\ s.p[w] \in DOMAIN s.e
            BY <1>3, <2>6, <3>2, <4>3 DEF Numbers
          <5>2. z.p[w] = y.p[w]
            BY <5>1 DEF Extends, y
          <5>3. y.e[y.p[w]] = s.e[s.p[w]]
            BY <2>5, <4>1, <5>1, <5>2
          <5>4. elems[z.p[w]] = s.e[s.p[w]]
            BY <2>1, <4>3 DEF Over
          <5>5. QED
            BY <4>2, <5>1, <5>3, <5>4
        <4>4. CASE w \notin DOMAIN s.p
          <5>1. w \notin DOMAIN y.p
            BY <2>6, <3>2, <4>4
          <5>2. elems[z.p[w]] = z.e[z.p[w]]
            BY <2>1, <4>4 DEF Over
          <5>3. QED
            BY <4>2, <5>1, <5>2
        <4>5. QED
          BY <4>3, <4>4
      <3>3. QED
        BY <3>1, <3>2
    <2>8. QED
      BY <2>1, <2>4, <2>7 DEF Over
  <1>6. parent # c => laid = y.e
    BY <1>2 DEF Replays, laid
  <1>7. /\ parent \in {NoClass, c} => With(prc, x, n) = z.p /\ mec = z.g
        /\ parent \notin {NoClass, c} => With(prc, x, n) = y.p /\ mec = y.g
    BY <1>2, <1>4 DEF Replays
  <1>8. Replays(laid, parent, c, y, z, With(prc, x, n), mec)
    BY <1>5, <1>6, <1>7 DEF Replays
  <1>9. QED
    BY <1>1, <1>8 DEF x, y, laid

LEMMA ReplaysMethod ==
  ASSUME NEW s, NEW z, Whole(s), Whole(z), NEW c \in ClassNames,
         NEW mb \in Member, mb.kind = "method", ~EarlyUses,
         Extends(Grow(s, c, mb), z, c),
         NEW elems, NEW parent, NEW prc, NEW mec,
         Replays(elems, parent, c, s, z, prc, mec)
  PROVE  Replays(elems, parent, c, Grow(s, c, mb), z, prc,
                 With(mec, mb.name, Entered(mec, c, mb.name)))
  <1> DEFINE m == mb.name
             y == Grow(s, c, mb)
             f == Entered(s.g, c, m)
             f2 == Entered(z.g, c, m)
  <1>1. y.p = s.p /\ y.e = s.e /\ y.g = With(s.g, m, f) /\ m \in MethodNames
    BY GrowsByMethod
  <1>2. MethodEntry(s.g) /\ MethodEntry(z.g) /\ IsAMap(z.g)
    BY DEF Whole, MethodEntry
  <1>3. f.function = [class |-> c, copy |-> 1]
    BY <1>1, <1>2, EnteredIs
  <1>4. /\ f2 \in [slot : Nat \ {0}, function : Overrider]
        /\ f2.function = [class |-> c, copy |-> 1]
        /\ m \in DOMAIN z.g => f2.slot = z.g[m].slot
    BY <1>1, <1>2, EnteredIs
  <1> HIDE DEF m, y, f, f2
  <1>5. m \in DOMAIN y.g /\ y.g[m] = f
    BY <1>1 DEF With
  <1>6. m \in DOMAIN z.g /\ z.g[m].function.class = c
    BY <1>3, <1>5 DEF Extends, y
  <1>7. z.g[m] \in [slot : Nat \ {0}, function : Overrider]
    BY <1>2, <1>6 DEF MethodEntry
  <1>8. z.g[m].function = [class |-> c, copy |-> 1]
    BY <1>6, <1>7 DEF Overrider
  <1>9. f2 = z.g[m]
    BY <1>4, <1>6, <1>7, <1>8
  <1>10. With(z.g, m, f2) = z.g
    BY <1>2, <1>6, <1>9, WithSame
  <1>11. parent = c => Over(elems, y, z)
    BY <1>1 DEF Replays, Over
  <1>12. parent # c => elems = y.e
    BY <1>1 DEF Replays
  <1>13. parent \in {NoClass, c} =>
           prc = z.p /\ With(mec, m, Entered(mec, c, m)) = z.g
    BY <1>10 DEF Replays, f2
  <1>14. parent \notin {NoClass, c} =>
           prc = y.p /\ With(mec, m, Entered(mec, c, m)) = y.g
    BY <1>1 DEF Replays, f
  <1>15. QED
    BY <1>11, <1>12, <1>13, <1>14 DEF Replays, m, y

\* It ends as it was.
LEMMA ReplayEnds ==
  ASSUME NEW z, Whole(z), NEW c, NEW elems \in Seq(Types), NEW parent, NEW prc, NEW mec,
         Replays(elems, parent, c, z, z, prc, mec)
  PROVE  prc = z.p /\ mec = z.g /\ elems = z.e
  <1>1. prc = z.p /\ mec = z.g
    BY DEF Replays
  <1>2. z.e \in Seq(Types)
    BY DEF Whole
  <1>3. CASE parent = c
    <2>1. Len(elems) = Len(z.e) /\ \A x \in DOMAIN z.p : elems[z.p[x]] = z.e[z.p[x]]
      BY <1>3 DEF Replays, Over
    <2>2. \A n \in 1 .. Len(elems) : elems[n] = z.e[n]
      BY <1>2, <2>1 DEF Whole, Numbers
    <2>3. QED
      BY <1>1, <1>2, <2>1, <2>2, SeqEqual
  <1>4. CASE parent # c
    BY <1>1, <1>4 DEF Replays
  <1>5. QED
    BY <1>3, <1>4
-----------------------------------------------------------------------------
(* The tables in between: S says of each class what was laid out after     *)
(* each of its members.                                                    *)

\* What is followed of the methods and of the uses.
Slots    == IF EarlyUses THEN NoEntries ELSE methods
LateUses == IF EarlyUses THEN {} ELSE compiled

World == [ty |-> types, pr |-> properties, me |-> Slots, tx |-> text,
          open |-> Opened(visits)]

\* What TInv says of them.
Sound(w) ==
  /\ Structs(w.ty) /\ Texts(w.tx, w.ty)
  /\ \A a \in w.open : a \in ClassVisit /\ ClassLaw(a, w.tx)
  /\ \A a, b \in w.open : a.name = b.name => a = b

Has(w, c, z) == Entry(w.pr, c) = z.p /\ Entry(w.me, c) = z.g

\* A class that is declared the first time has what was laid out until then, one that is
\* declared again is on its way there, and every other has all.
VisitAgrees(S, w, a) ==
  LET c == a.name
      z == Last(S, w.tx, c)
  IN  /\ ~a.again => /\ Has(w, c, z) /\ a.elems = z.e
                     /\ a.phase = "methods" => w.ty[c].elems = z.e
      /\ a.again => /\ w.ty[c].elems = z.e
                    /\ Replays(a.elems, w.tx[c].parent, c, S[c][a.member], z,
                               Entry(w.pr, c), Entry(w.me, c))

Closed(w, c) == c \in DOMAIN w.ty /\ \A a \in w.open : a.name # c

Agrees(S, w) ==
  /\ \A c \in DOMAIN w.ty : Closed(w, c) =>
       Has(w, c, Last(S, w.tx, c)) /\ w.ty[c].elems = Last(S, w.tx, c).e
  /\ \A a \in w.open : VisitAgrees(S, w, a)

\* A class is declared the first time, and what is followed of it is not yet all there.
Fresh(w, c) ==
  \E a \in w.open : a.name = c /\ ~a.again /\ (EarlyUses => a.phase = "properties")

\* What is followed of a class is there.
Settled(w, c) ==
  c \in DOMAIN w.ty /\ \A a \in w.open : a.name = c => EarlyUses /\ a.phase = "methods"

\* What another class extends is all there.
BasesDone(w) ==
  \A c \in DOMAIN w.tx :
    w.tx[c].parent \notin {NoClass, c} => ~Fresh(w, w.tx[c].parent)

\* What a use is bound to will not change.
BoundTo(S, w, u) ==
  LET z == Last(S, w.tx, u.class)
  IN  \/ u.member \in DOMAIN z.p /\ u.target = <<"at", z.p[u.member]>>
      \/ /\ u.member \in DOMAIN z.g /\ u.target = <<"calls", z.g[u.member].function>>
         /\ Fresh(w, u.class) => z.g[u.member].function.class = u.class
      \/ /\ u.member \notin DOMAIN z.g /\ u.target = <<"skips">>
         /\ ~Fresh(w, u.class)

Bound(S, w, uses) == \A u \in uses : u.class \in DOMAIN w.tx /\ BoundTo(S, w, u)

Ghost(S, w, uses) ==
  Histories(S, w.tx) /\ BasesDone(w) /\ Agrees(S, w) /\ Bound(S, w, uses)

GInv == \E S : Ghost(S, World, LateUses)

LEMMA WorldIs ==
  /\ World.ty = types /\ World.pr = properties /\ World.me = Slots /\ World.tx = text
  /\ World.open = Opened(visits)
  /\ TInv => Sound(World)
  <1>1. /\ World.ty = types /\ World.pr = properties /\ World.me = Slots /\ World.tx = text
        /\ World.open = Opened(visits)
    BY DEF World
  <1> HIDE DEF World
  <1>2. ASSUME TInv PROVE Sound(World)
    <2>1. visits \in Visits /\ Stacked(visits, text) /\ Structs(types) /\ Texts(text, types)
      BY <1>2 DEF TInv, Kinds
    <2>2. \A a \in Opened(visits) : a \in ClassVisit /\ ClassLaw(a, text)
      BY <2>1, OpenedIs, OneVisit
    <2>3. \A a, b \in Opened(visits) : a.name = b.name => a = b
      BY <2>1, OneVisit
    <2>4. QED
      BY <1>1, <2>1, <2>2, <2>3 DEF Sound
  <1>3. QED
    BY <1>1, <1>2

LEMMA SlotsAre ==
  /\ EarlyUses => (\A d : Entry(Slots, d) = NoEntries) /\ (\A d : Entry(Slots', d) = NoEntries)
  /\ ~EarlyUses => Slots = methods /\ Slots' = methods'
  /\ UNCHANGED methods => UNCHANGED Slots
  /\ UNCHANGED compiled => UNCHANGED LateUses
  BY WithoutEntries DEF Slots, LateUses, Entry

\* Only the class c changes.
Elsewhere(S, T, w, x, c) ==
  /\ DOMAIN w.ty \subseteq DOMAIN x.ty
  /\ \A d \in DOMAIN x.ty : d # c =>
       /\ d \in DOMAIN w.ty
       /\ T[d] = S[d]
       /\ x.tx[d].parent = w.tx[d].parent /\ x.tx[d].members = w.tx[d].members
       /\ x.ty[d] = w.ty[d]
       /\ Entry(x.pr, d) = Entry(w.pr, d) /\ Entry(x.me, d) = Entry(w.me, d)

LEMMA SameElsewhere ==
  ASSUME NEW w, NEW x, NEW S, NEW T, NEW c, Elsewhere(S, T, w, x, c), Agrees(S, w),
         Sound(w), Sound(x)
  PROVE  /\ \A d \in DOMAIN x.ty : d # c => Last(T, x.tx, d) = Last(S, w.tx, d)
         /\ \A a \in w.open : a.name # c => VisitAgrees(T, x, a)
         /\ \A d \in DOMAIN x.ty : d # c /\ Closed(w, d) =>
              Has(x, d, Last(T, x.tx, d)) /\ x.ty[d].elems = Last(T, x.tx, d).e
  <1>1. \A d \in DOMAIN x.ty : d # c => Last(T, x.tx, d) = Last(S, w.tx, d)
    BY DEF Elsewhere, Last
  <1>2. ASSUME NEW a \in w.open, a.name # c
        PROVE  VisitAgrees(T, x, a)
    <2>1. a.name \in DOMAIN w.tx
      BY DEF Sound, ClassLaw
    <2>2. a.name \in DOMAIN x.ty
      BY <2>1 DEF Sound, Texts, Elsewhere
    <2>3. VisitAgrees(S, w, a)
      BY DEF Agrees
    <2>4. Last(T, x.tx, a.name) = Last(S, w.tx, a.name)
      BY <1>1, <1>2, <2>2
    <2>5. QED
      BY <1>2, <2>2, <2>3, <2>4 DEF VisitAgrees, Has, Elsewhere
  <1>3. ASSUME NEW d \in DOMAIN x.ty, d # c, Closed(w, d)
        PROVE  Has(x, d, Last(T, x.tx, d)) /\ x.ty[d].elems = Last(T, x.tx, d).e
    <2>1. Has(w, d, Last(S, w.tx, d)) /\ w.ty[d].elems = Last(S, w.tx, d).e
      BY <1>3 DEF Agrees, Closed
    <2>2. QED
      BY <1>1, <1>3, <2>1 DEF Elsewhere, Has
  <1>4. QED
    BY <1>1, <1>2, <1>3

\* The visit of c goes on, or another one of it.
LEMMA AgreesAgain ==
  ASSUME NEW w, NEW x, NEW S, NEW T, NEW a \in w.open, NEW b,
         Elsewhere(S, T, w, x, a.name), Agrees(S, w), Sound(w), Sound(x),
         x.open = Replaced(w.open, a, b), b.name = a.name, VisitAgrees(T, x, b)
  PROVE  Agrees(T, x)
  <1>1. \A d \in x.open : d = b \/ (d \in w.open /\ d # a)
    BY DEF Replaced
  <1>2. b \in x.open /\ \A d \in w.open : d # a => d \in x.open
    BY DEF Replaced
  <1>3. \A d \in w.open : d # a => d.name # a.name
    BY DEF Sound
  <1>4. \A d \in x.open : VisitAgrees(T, x, d)
    BY <1>1, <1>3, SameElsewhere
  <1>5. ASSUME NEW c \in DOMAIN x.ty, Closed(x, c)
        PROVE  Has(x, c, Last(T, x.tx, c)) /\ x.ty[c].elems = Last(T, x.tx, c).e
    <2>1. c # a.name
      BY <1>2, <1>5 DEF Closed
    <2>2. c \in DOMAIN w.ty
      BY <2>1 DEF Elsewhere
    <2>3. Closed(w, c)
      BY <1>2, <1>5, <2>1, <2>2 DEF Closed
    <2>4. QED
      BY <2>1, <2>3, SameElsewhere
  <1>6. QED
    BY <1>4, <1>5 DEF Agrees

\* What uses are bound to stays.
LEMMA BoundStays ==
  ASSUME NEW w, NEW x, NEW S, NEW T, NEW uses, Bound(S, w, uses),
         \A d \in DOMAIN w.tx :
           /\ d \in DOMAIN x.tx
           /\ Fresh(x, d) => Fresh(w, d)
           /\ \/ Last(T, x.tx, d) = Last(S, w.tx, d)
              \/ /\ Fresh(w, d)
                 /\ Whole(Last(S, w.tx, d)) /\ Whole(Last(T, x.tx, d))
                 /\ Extends(Last(S, w.tx, d), Last(T, x.tx, d), d)
  PROVE  Bound(T, x, uses)
  <1> SUFFICES ASSUME NEW u \in uses
               PROVE  u.class \in DOMAIN x.tx /\ BoundTo(T, x, u)
    BY DEF Bound
  <1>1. u.class \in DOMAIN w.tx /\ BoundTo(S, w, u)
    BY DEF Bound
  <1> DEFINE d == u.class
             y == Last(S, w.tx, d)
             z == Last(T, x.tx, d)
  <1>2. d \in DOMAIN x.tx /\ (Fresh(x, d) => Fresh(w, d))
    BY <1>1
  <1>3. CASE z = y
    BY <1>1, <1>2, <1>3 DEF BoundTo
  <1>4. CASE Fresh(w, d) /\ Whole(y) /\ Whole(z) /\ Extends(y, z, d)
    <2> HIDE DEF d, y, z
    <2>1. CASE u.member \in DOMAIN y.p /\ u.target = <<"at", y.p[u.member]>>
      BY <1>2, <1>4, <2>1 DEF BoundTo, Extends, d, z
    <2>2. CASE /\ u.member \in DOMAIN y.g /\ u.target = <<"calls", y.g[u.member].function>>
               /\ Fresh(w, d) => y.g[u.member].function.class = d
      <3> DEFINE m == u.member
      <3>1. y.g[m].function.class = d /\ m \in DOMAIN y.g
        BY <1>4, <2>2
      <3>2. m \in DOMAIN z.g /\ z.g[m].function.class = d
        BY <1>4, <3>1 DEF Extends
      <3>3. y.g[m].function \in Overrider /\ z.g[m].function \in Overrider
        BY <1>4, <3>1, <3>2 DEF Whole, MethodEntry
      <3>4. y.g[m].function = z.g[m].function
        BY <3>1, <3>2, <3>3 DEF Overrider
      <3>5. QED
        BY <1>2, <2>2, <3>2, <3>4 DEF BoundTo, d, z
    <2>3. ~(u.member \notin DOMAIN y.g /\ u.target = <<"skips">> /\ ~Fresh(w, d))
      BY <1>4
    <2>4. QED
      BY <1>1, <2>1, <2>2, <2>3 DEF BoundTo, d, y
  <1>5. QED
    BY <1>1, <1>2, <1>3, <1>4
\* Nothing of any class is written, or of c only, which nothing extends yet, or of which
\* it is not followed.
LEMMA HistoriesElsewhere ==
  ASSUME NEW w, NEW x, NEW S, NEW T, NEW c, Elsewhere(S, T, w, x, c),
         Sound(w), Sound(x), Histories(S, w.tx),
         \/ \A d \in DOMAIN w.tx : d # c => w.tx[d].parent # c
         \/ Last(T, x.tx, c) = Last(S, w.tx, c),
         c \in DOMAIN x.tx => History(T[c], x.tx[c].members, c, First(T, x.tx, c))
  PROVE  Histories(T, x.tx)
  <1>1. ASSUME NEW d \in DOMAIN x.tx, d # c
        PROVE  History(T[d], x.tx[d].members, d, First(T, x.tx, d))
    <2> DEFINE b == w.tx[d].parent
    <2>1. d \in DOMAIN x.ty /\ d \in DOMAIN w.ty /\ d \in DOMAIN w.tx
      BY <1>1 DEF Sound, Texts, Elsewhere
    <2>2. /\ T[d] = S[d] /\ x.tx[d].parent = b /\ x.tx[d].members = w.tx[d].members
          /\ b \in DOMAIN w.tx \cup {NoClass}
          /\ b # c \/ Last(T, x.tx, c) = Last(S, w.tx, c)
      BY <1>1, <2>1 DEF Sound, Texts, Elsewhere
    <2>3. b \notin {NoClass, d} => Last(T, x.tx, b) = Last(S, w.tx, b)
      <3>1. SUFFICES ASSUME b \notin {NoClass, d} PROVE Last(T, x.tx, b) = Last(S, w.tx, b)
        OBVIOUS
      <3>2. b \in DOMAIN w.ty /\ b \in DOMAIN x.ty
        BY <2>2, <3>1 DEF Sound, Texts, Elsewhere
      <3> HIDE DEF b
      <3>3. CASE b = c
        BY <2>2, <3>3
      <3>4. CASE b # c
        <4>1. T[b] = S[b] /\ x.tx[b].members = w.tx[b].members
          BY <3>2, <3>4 DEF Elsewhere
        <4>2. QED
          BY <4>1 DEF Last
      <3>5. QED
        BY <3>3, <3>4
    <2>4. First(T, x.tx, d) = First(S, w.tx, d)
      BY <2>2, <2>3 DEF First
    <2>5. QED
      BY <2>1, <2>2, <2>4 DEF Histories
  <1>2. QED
    BY <1>1 DEF Histories

\* A class that is declared the first time gets another member.
LEMMA FreshGrows ==
  ASSUME NEW w, NEW x, Sound(w), Sound(x), NEW S, NEW uses, Ghost(S, w, uses),
         NEW a \in w.open, ~a.again, NEW b, b.name = a.name, ~b.again, b.phase = a.phase,
         x.open = Replaced(w.open, a, b),
         NEW mb \in Member, mb.kind = "property" => a.phase = "properties",
         Grown(w.tx, x.tx, a, mb), x.ty = w.ty,
         \A d \in DOMAIN x.ty : d # a.name =>
           Entry(x.pr, d) = Entry(w.pr, d) /\ Entry(x.me, d) = Entry(w.me, d),
         LET z == Grow(Last(S, w.tx, a.name), a.name, mb)
         IN  Has(x, a.name, z) /\ b.elems = z.e
  PROVE  \E T : Ghost(T, x, uses)
  <1> DEFINE c == a.name
             ms == w.tx[c].members
             y == Last(S, w.tx, c)
             z == Grow(y, c, mb)
             h == Longer(S[c], ms, c, mb)
  <1>1. /\ c \in DOMAIN w.tx /\ c \in ClassNames /\ c \in DOMAIN w.ty
        /\ DOMAIN x.tx = DOMAIN w.tx /\ DOMAIN w.ty = DOMAIN w.tx /\ Texts(w.tx, w.ty)
        /\ c # NoClass
    BY ClassesAssumption DEF Sound, ClassLaw, Texts, Structs, Grown
  <1>2. /\ x.tx[c].parent = w.tx[c].parent /\ x.tx[c].members = Append(ms, mb)
        /\ \A d \in DOMAIN w.tx : d # c => x.tx[d] = w.tx[d]
    BY <1>1 DEF Grown
  <1>3. Histories(S, w.tx) /\ BasesDone(w) /\ Agrees(S, w) /\ Bound(S, w, uses)
    BY DEF Ghost
  <1>4. ms \in Seq(Member) /\ Whole(y)
    BY <1>1, <1>3, LastIs
  <1>5. PICK T : T = [d \in DOMAIN w.tx |-> IF d = c THEN h ELSE S[d]]
    OBVIOUS
  <1>6. T[c] = h /\ \A d \in DOMAIN w.tx : d # c => T[d] = S[d]
    BY <1>1, <1>5
  <1>7. Elsewhere(S, T, w, x, c)
    BY <1>1, <1>2, <1>6 DEF Elsewhere
  <1>8. Fresh(w, c) \/ z = y
    <2>1. mb.kind \in {"property", "method"}
      BY DEF Member
    <2>2. CASE mb.kind = "method" /\ EarlyUses
      BY <2>2 DEF Grow
    <2>3. CASE mb.kind = "property" \/ ~EarlyUses
      BY <2>3 DEF Fresh
    <2>4. QED
      BY <2>1, <2>2, <2>3
  <1>9. (\A d \in DOMAIN w.tx : d # c => w.tx[d].parent # c) \/ z = y
    BY <1>1, <1>3, <1>8 DEF BasesDone
  <1>10. First(T, x.tx, c) = First(S, w.tx, c)
    <2> DEFINE p == w.tx[c].parent
    <2>1. CASE p \in {NoClass, c}
      BY <1>2, <2>1 DEF First
    <2>2. CASE p \notin {NoClass, c}
      <3>1. p \in DOMAIN w.tx
        BY <1>1, <2>2 DEF Texts
      <3>2. T[p] = S[p] /\ x.tx[p] = w.tx[p]
        BY <1>2, <1>6, <2>2, <3>1
      <3>3. Last(T, x.tx, p) = Last(S, w.tx, p)
        BY <3>2 DEF Last
      <3>4. QED
        BY <1>2, <2>2, <3>3 DEF First
    <2>3. QED
      BY <2>1, <2>2
  <1>11. History(h, Append(ms, mb), c, First(S, w.tx, c)) /\ h[Len(Append(ms, mb))] = z
    <2>1. History(S[c], ms, c, First(S, w.tx, c))
      BY <1>1, <1>3 DEF Histories
    <2>2. /\ History(h, Append(ms, mb), c, First(S, w.tx, c))
          /\ h[Len(Append(ms, mb))] = Grow(S[c][Len(ms)], c, mb)
      BY <1>1, <1>4, <2>1, HistoryGoesOn
    <2>3. QED
      BY <2>2 DEF Last
  <1>12. Last(T, x.tx, c) = z
    BY <1>2, <1>6, <1>11 DEF Last
  <1> HIDE DEF c, ms, y, z, h
  <1>13. Histories(T, x.tx)
    BY <1>2, <1>3, <1>6, <1>7, <1>9, <1>10, <1>11, <1>12, HistoriesElsewhere DEF c, h, y
  <1>14. BasesDone(x)
    <2>1. \A d \in ClassNames \cup DOMAIN w.tx : Fresh(x, d) => Fresh(w, d)
      BY DEF Fresh, Replaced
    <2>2. \A d \in DOMAIN x.tx : d \in DOMAIN w.tx /\ x.tx[d].parent = w.tx[d].parent
      BY <1>1, <1>2
    <2>3. \A d \in DOMAIN w.tx : w.tx[d].parent # NoClass => w.tx[d].parent \in DOMAIN w.tx
      BY <1>1 DEF Texts
    <2>4. QED
      BY <1>3, <2>1, <2>2, <2>3 DEF BasesDone
  <1>15. VisitAgrees(T, x, b)
    <2>1. b.phase = "methods" => w.ty[c].elems = z.e
      <3>1. SUFFICES ASSUME b.phase = "methods" PROVE w.ty[c].elems = z.e
        OBVIOUS
      <3>2. w.ty[c].elems = y.e
        BY <1>3, <3>1 DEF Agrees, VisitAgrees, c, y
      <3>3. mb.kind # "property"
        BY <3>1
      <3>4. z.e = y.e
        BY <3>3 DEF Grow, z
      <3>5. QED
        BY <3>2, <3>4
    <2>2. QED
      BY <1>12, <2>1 DEF VisitAgrees, c, y, z
  <1>16. Agrees(T, x)
    BY <1>3, <1>7, <1>15, AgreesAgain DEF c
  <1>17. Bound(T, x, uses)
    <2>1. Whole(z) /\ Extends(y, z, c)
      BY <1>1, <1>4, GrowKeepsWhole DEF z
    <2>2. ASSUME NEW d \in DOMAIN w.tx
          PROVE  /\ d \in DOMAIN x.tx
                 /\ Fresh(x, d) => Fresh(w, d)
                 /\ \/ Last(T, x.tx, d) = Last(S, w.tx, d)
                    \/ /\ Fresh(w, d)
                       /\ Whole(Last(S, w.tx, d)) /\ Whole(Last(T, x.tx, d))
                       /\ Extends(Last(S, w.tx, d), Last(T, x.tx, d), d)
      <3>1. Fresh(x, d) => Fresh(w, d)
        BY DEF Fresh, Replaced
      <3>2. CASE d = c
        BY <1>1, <1>4, <1>8, <1>12, <2>1, <3>1, <3>2 DEF y
      <3>3. CASE d # c
        <4>1. Last(T, x.tx, d) = Last(S, w.tx, d)
          BY <1>2, <1>6, <3>3 DEF Last
        <4>2. QED
          BY <1>1, <3>1, <4>1
      <3>4. QED
        BY <3>2, <3>3
    <2>3. QED
      BY <1>3, <2>2, BoundStays
  <1>18. QED
    BY <1>13, <1>14, <1>16, <1>17 DEF Ghost

\* A step that writes nothing, and after which no other class is new.
LEMMA GhostStays ==
  ASSUME NEW w, NEW x, Sound(w), Sound(x), NEW S, NEW uses, Ghost(S, w, uses),
         DOMAIN x.tx = DOMAIN w.tx,
         \A d \in DOMAIN w.tx : /\ x.tx[d].parent = w.tx[d].parent
                                /\ x.tx[d].members = w.tx[d].members,
         \A d \in DOMAIN w.tx : Fresh(x, d) => Fresh(w, d),
         Agrees(S, x)
  PROVE  Ghost(S, x, uses)
  <1>1. \A d \in DOMAIN w.tx : Last(S, x.tx, d) = Last(S, w.tx, d)
    BY DEF Last
  <1>2. Histories(S, w.tx) /\ BasesDone(w) /\ Bound(S, w, uses) /\ Texts(w.tx, w.ty)
    BY DEF Ghost, Sound
  <1>3. \A d \in DOMAIN w.tx : w.tx[d].parent # NoClass => w.tx[d].parent \in DOMAIN w.tx
    BY <1>2 DEF Texts
  <1>4. \A d \in DOMAIN w.tx : First(S, x.tx, d) = First(S, w.tx, d)
    BY <1>1, <1>3 DEF First
  <1>5. Histories(S, x.tx)
    BY <1>2, <1>4 DEF Histories
  <1>6. BasesDone(x)
    BY <1>2, <1>3 DEF BasesDone
  <1>7. Bound(S, x, uses)
    BY <1>1, <1>2, BoundStays
  <1>8. QED
    BY <1>5, <1>6, <1>7 DEF Ghost
-----------------------------------------------------------------------------
(* What is bound, where nothing is used early.                             *)

LEMMA SettledHas ==
  ASSUME NEW w, Sound(w), NEW S, Histories(S, w.tx), Agrees(S, w), NEW c, Settled(w, c)
  PROVE  LET z == Last(S, w.tx, c)
         IN  /\ Has(w, c, z) /\ w.ty[c].elems = z.e /\ Whole(z)
             /\ \A a \in w.open : a.name = c => a.elems = z.e
             /\ c \in DOMAIN w.ty /\ c \in DOMAIN w.tx /\ ~Fresh(w, c)
  <1> DEFINE z == Last(S, w.tx, c)
  <1>1. /\ c \in DOMAIN w.ty /\ c \in DOMAIN w.tx /\ Texts(w.tx, w.ty)
        /\ \A a \in w.open : a.name = c => EarlyUses /\ a.phase = "methods"
    BY DEF Settled, Sound, Texts
  <1>2. Whole(z)
    BY <1>1, LastIs
  <1>3. ~Fresh(w, c)
    BY <1>1 DEF Fresh
  <1>4. ASSUME NEW a \in w.open, a.name = c
        PROVE  Has(w, c, z) /\ w.ty[c].elems = z.e /\ a.elems = z.e
    <2>1. /\ EarlyUses /\ a.phase = "methods" /\ VisitAgrees(S, w, a)
          /\ a \in ClassVisit /\ ClassLaw(a, w.tx)
      BY <1>1, <1>4 DEF Agrees, Sound
    <2>2. CASE ~a.again
      BY <1>4, <2>1, <2>2 DEF VisitAgrees
    <2>3. CASE a.again
      <3> DEFINE ms == w.tx[c].members
                 k  == a.member
      <3>1. /\ ms \in Seq(Member) /\ Len(ms) \in Nat
            /\ k \in Nat /\ k <= Len(ms)
            /\ \A j \in DOMAIN ms : j > k => ms[j].kind = "method"
        BY <1>1, <1>4, <2>1, LastIs DEF ClassLaw, ClassVisit
      <3>2. k \in 0 .. Len(ms)
        BY <3>1
      <3>3. S[c][k] = z
        BY <1>1, <2>1, <3>1, <3>2, LastIs
      <3>4. /\ w.ty[c].elems = z.e
            /\ Replays(a.elems, w.tx[c].parent, c, z, z, Entry(w.pr, c), Entry(w.me, c))
        BY <1>4, <2>1, <2>3, <3>3 DEF VisitAgrees
      <3>5. a.elems \in Seq(Types)
        BY <2>1 DEF ClassVisit
      <3> HIDE DEF z
      <3>6. Entry(w.pr, c) = z.p /\ Entry(w.me, c) = z.g /\ a.elems = z.e
        BY <1>2, <3>4, <3>5, ReplayEnds
      <3>7. QED
        BY <3>4, <3>6 DEF Has
    <2>4. QED
      BY <2>2, <2>3
  <1>5. CASE \A a \in w.open : a.name # c
    <2>1. Closed(w, c)
      BY <1>1, <1>5 DEF Closed
    <2>2. QED
      BY <1>1, <1>2, <1>3, <1>5, <2>1 DEF Agrees
  <1>6. QED
    BY <1>1, <1>2, <1>3, <1>4, <1>5

LEMMA FinishedIs ==
  ASSUME TInv, NEW c
  PROVE  Finished(c) <=> Closed(World, c)
  <1>1. visits \in Visits /\ World.ty = types /\ World.open = Opened(visits)
    BY WorldIs DEF TInv, Kinds
  <1>2. c \in Declaring <=> \E a \in Opened(visits) : a.name = c
    BY DEF Declaring, Opened
  <1>3. QED
    BY <1>1, <1>2 DEF Finished, Closed

\* What a lookup finds is on its way to what the class has in the end, or there.
LEMMA OnTheWay ==
  ASSUME NEW w, Sound(w), NEW S, Histories(S, w.tx), Agrees(S, w), NEW c \in DOMAIN w.ty
  PROVE  \E s : /\ Has(w, c, s) /\ Whole(s) /\ Extends(s, Last(S, w.tx, c), c)
                /\ (Closed(w, c) \/ Fresh(w, c)) => s = Last(S, w.tx, c)
  <1> DEFINE z == Last(S, w.tx, c)
  <1>1. c \in DOMAIN w.tx /\ Texts(w.tx, w.ty)
    BY DEF Sound, Texts
  <1>2. Whole(z) /\ Extends(z, z, c)
    BY <1>1, LastIs, ExtendsItself
  <1>3. CASE Closed(w, c)
    <2>1. Has(w, c, z)
      BY <1>3 DEF Agrees
    <2>2. QED
      BY <1>2, <2>1
  <1>4. CASE ~Closed(w, c)
    <2>1. PICK a \in w.open : a.name = c
      BY <1>4 DEF Closed
    <2>2. VisitAgrees(S, w, a) /\ a \in ClassVisit /\ ClassLaw(a, w.tx)
      BY DEF Agrees, Sound
    <2>3. CASE ~a.again
      <3>1. Has(w, c, z)
        BY <2>1, <2>2, <2>3 DEF VisitAgrees
      <3>2. QED
        BY <1>2, <3>1
    <2>4. CASE a.again
      <3> DEFINE s == S[c][a.member]
      <3>1. \A d \in w.open : d.name = c => d = a
        BY <2>1 DEF Sound
      <3>2. ~Fresh(w, c)
        BY <2>4, <3>1 DEF Fresh
      <3>3. Replays(a.elems, w.tx[c].parent, c, s, z, Entry(w.pr, c), Entry(w.me, c))
        BY <2>1, <2>2, <2>4 DEF VisitAgrees
      <3>4. a.member \in 0 .. Len(w.tx[c].members)
        <4>1. a.member \in Nat /\ a.member <= Len(w.tx[c].members)
          BY <2>1, <2>2 DEF ClassVisit, ClassLaw
        <4>2. Len(w.tx[c].members) \in Nat
          BY <1>1, LastIs
        <4>3. QED
          BY <4>1, <4>2
      <3>5. Whole(s) /\ Extends(s, z, c)
        BY <1>1, <3>4, LastIs
      <3>6. Has(w, c, s) \/ Has(w, c, z)
        BY <3>3 DEF Replays, Has
      <3>7. QED
        BY <1>2, <1>4, <3>2, <3>5, <3>6
    <2>5. QED
      BY <2>3, <2>4
  <1>5. QED
    BY <1>3, <1>4

\* A position is what it will be.
LEMMA PositionBound ==
  ASSUME TInv, ~EarlyUses, NEW S, Ghost(S, World, compiled), NEW c \in DOMAIN types,
         NEW p \in DOMAIN Entry(properties, c)
  PROVE  BoundTo(S, World, Use(c, p, AtPosition(c, p)))
  <1> DEFINE u == Use(c, p, AtPosition(c, p))
             z == Last(S, World.tx, c)
  <1>1. /\ World.ty = types /\ World.pr = properties /\ World.tx = text
        /\ Sound(World) /\ Histories(S, World.tx) /\ Agrees(S, World)
    BY WorldIs DEF Ghost
  <1>2. PICK s : Has(World, c, s) /\ Whole(s) /\ Extends(s, z, c)
    BY <1>1, OnTheWay
  <1>3. p \in DOMAIN z.p /\ z.p[p] = Entry(properties, c)[p]
    BY <1>1, <1>2 DEF Has, Extends
  <1>4. c \in DOMAIN properties
    BY WithoutEntries DEF Entry
  <1>5. u.class = c /\ u.member = p /\ u.target = <<"at", Entry(properties, c)[p]>>
    BY <1>4 DEF Use, AtPosition, Entry
  <1> HIDE DEF u
  <1>6. QED
    BY <1>3, <1>5 DEF BoundTo, u

\* So is the method, of a class that is all there, or that it gave itself.
LEMMA CallBound ==
  ASSUME TInv, ~EarlyUses, NEW S, Ghost(S, World, compiled), NEW c \in DOMAIN types, NEW m,
         HasMethod(c, m)
  PROVE  BoundTo(S, World, Use(c, m, Calls(c, m)))
  <1> DEFINE u == Use(c, m, Calls(c, m))
             z == Last(S, World.tx, c)
             entry == Entry(methods, c)
  <1>1. /\ World.ty = types /\ World.pr = properties /\ World.me = methods /\ World.tx = text
        /\ Sound(World) /\ Histories(S, World.tx) /\ Agrees(S, World)
    BY WorldIs DEF Ghost, Slots
  <1>2. PICK s : /\ Has(World, c, s) /\ Whole(s) /\ Extends(s, z, c)
                 /\ (Closed(World, c) \/ Fresh(World, c)) => s = z
    BY <1>1, OnTheWay
  <1>3. Whole(z)
    BY <1>1, LastIs DEF Sound, Texts
  <1>4. m \in DOMAIN entry => c \in DOMAIN methods
    BY WithoutEntries DEF Entry
  <1>5. /\ u.class = c /\ u.member = m
        /\ u.target = IF m \in DOMAIN entry THEN <<"calls", entry[m].function>>
                      ELSE <<"skips">>
    BY <1>4 DEF Use, Calls, Entry
  <1>6. entry = s.g
    BY <1>1, <1>2 DEF Has
  <1> HIDE DEF u, entry, z
  <1>7. CASE Finished(c)
    <2>1. Closed(World, c) /\ s = z /\ ~Fresh(World, c)
      BY <1>2, <1>7, FinishedIs DEF Closed, Fresh
    <2>2. QED
      BY <1>5, <1>6, <2>1 DEF BoundTo, u, z
  <1>8. CASE m \in DOMAIN entry /\ entry[m].function.class = c
    <2>1. m \in DOMAIN z.g /\ z.g[m].function.class = c
      BY <1>2, <1>6, <1>8 DEF Extends
    <2>2. z.g[m].function \in Overrider /\ entry[m].function \in Overrider
      BY <1>2, <1>3, <1>6, <1>8, <2>1 DEF Whole, MethodEntry
    <2>3. z.g[m].function = entry[m].function
      BY <1>8, <2>1, <2>2 DEF Overrider
    <2>4. QED
      BY <1>5, <1>8, <2>1, <2>3 DEF BoundTo, u, z
  <1>9. Finished(c) \/ (m \in DOMAIN entry /\ entry[m].function.class = c)
    BY <1>4 DEF HasMethod, Entry, entry
  <1>10. QED
    BY <1>7, <1>8, <1>9

\* More is compiled, and it is bound.
LEMMA GhostCompiles ==
  ASSUME ~EarlyUses, NEW S, Ghost(S, World, compiled), NEW uses, NEW c \in DOMAIN types,
         TInv, Compiles(c, uses), \A u \in uses : u.class = c /\ BoundTo(S, World, u)
  PROVE  GInv'
  <1>1. /\ compiled' = compiled \cup uses
        /\ UNCHANGED <<status, visits, types, properties, methods, functions, text>>
    BY DEF Compiles
  <1>2. World' = World
    BY <1>1 DEF World, Slots
  <1>3. c \in DOMAIN World.tx
    BY WorldIs DEF TInv, Kinds, Texts
  <1>4. Bound(S, World, compiled')
    BY <1>1, <1>3 DEF Ghost, Bound
  <1>5. Ghost(S, World', compiled')
    BY <1>2, <1>4 DEF Ghost
  <1>6. QED
    BY <1>5 DEF GInv, LateUses

LEMMA UsesGhost ==
  ASSUME TInv, GInv, ~EarlyUses, UsesOfClasses
  PROVE  GInv'
  <1>1. PICK S : Ghost(S, World, compiled)
    BY DEF GInv, LateUses
  <1>2. ASSUME NEW c \in ClassNames, NEW p \in PropNames, UseProperty(c, p)
        PROVE  GInv'
    <2> DEFINE u == Use(c, p, AtPosition(c, p))
    <2>1. p \in DOMAIN Entry(properties, c) /\ Compiles(c, {u}) /\ c \in DOMAIN types
      BY <1>2 DEF UseProperty, Compiles
    <2>2. u.class = c /\ BoundTo(S, World, u)
      BY <1>1, <2>1, PositionBound DEF Use
    <2> HIDE DEF u
    <2>3. QED
      BY <1>1, <2>1, <2>2, GhostCompiles
  <1>3. ASSUME NEW c \in ClassNames, NEW m \in MethodNames, UseMethod(c, m)
        PROVE  GInv'
    <2> DEFINE u == Use(c, m, Calls(c, m))
    <2>1. HasMethod(c, m) /\ Compiles(c, {u}) /\ c \in DOMAIN types
      BY <1>3 DEF UseMethod, Compiles
    <2>2. u.class = c /\ BoundTo(S, World, u)
      BY <1>1, <2>1, CallBound DEF Use
    <2> HIDE DEF u
    <2>3. QED
      BY <1>1, <2>1, <2>2, GhostCompiles
  <1>4. ASSUME NEW c \in ClassNames, Delete(c)
        PROVE  GInv'
    <2> DEFINE u == Use(c, Destruct, Calls(c, Destruct))
    <2>1. HasMethod(c, Destruct) /\ Compiles(c, {u}) /\ c \in DOMAIN types
      BY <1>4 DEF Delete, Compiles
    <2>2. u.class = c /\ BoundTo(S, World, u)
      BY <1>1, <2>1, CallBound DEF Use
    <2> HIDE DEF u
    <2>3. QED
      BY <1>1, <2>1, <2>2, GhostCompiles
  <1>5. ASSUME NEW c \in ClassNames, New(c)
        PROVE  GInv'
    <2> DEFINE at(p) == Use(c, p, AtPosition(c, p))
               places == {at(p) : p \in DOMAIN properties[c]}
               u == Use(c, Construct, Calls(c, Construct))
               uses == places \cup {u}
    <2>1. /\ HasMethod(c, Construct) /\ Compiles(c, uses) /\ c \in DOMAIN types
          /\ c \in DOMAIN properties
      BY <1>5 DEF New, Compiles
    <2>2. u.class = c /\ BoundTo(S, World, u)
      BY <1>1, <2>1, CallBound DEF Use
    <2>3. ASSUME NEW p \in DOMAIN properties[c]
          PROVE  at(p).class = c /\ BoundTo(S, World, at(p))
      <3>1. p \in DOMAIN Entry(properties, c)
        BY <2>1 DEF Entry
      <3>2. QED
        BY <1>1, <2>1, <3>1, PositionBound DEF Use
    <2> HIDE DEF u, at
    <2>4. \A x \in uses : x.class = c /\ BoundTo(S, World, x)
      BY <2>2, <2>3
    <2> HIDE DEF uses
    <2>5. QED
      BY <1>1, <2>1, <2>4, GhostCompiles
  <1>6. ASSUME Unresolved
        PROVE  GInv'
    <2>1. /\ compiled' = {}
          /\ UNCHANGED <<visits, types, properties, methods, functions, text>>
      BY <1>6 DEF Unresolved, Throw
    <2>2. World' = World
      BY <2>1 DEF World, Slots
    <2>3. Ghost(S, World', compiled')
      BY <1>1, <2>1, <2>2 DEF Ghost, Bound
    <2>4. QED
      BY <2>3 DEF GInv, LateUses
  <1>7. QED
    BY <1>2, <1>3, <1>4, <1>5, <1>6 DEF UsesOfClasses

\* Nothing changes of what is followed, where something may be used early.
LEMMA EarlyUsesGhost ==
  ASSUME GInv, EarlyUses, UsesOfClasses
  PROVE  GInv'
  <1>1. UNCHANGED <<visits, types, properties, methods, functions, text>>
    BY DEF UsesOfClasses, UseProperty, UseMethod, New, Delete, Compiles, Unresolved, Throw
  <1>2. World' = World /\ LateUses' = LateUses
    BY <1>1 DEF World, Slots, LateUses
  <1>3. QED
    BY <1>2 DEF GInv

-----------------------------------------------------------------------------
(* The steps of a class.                                                   *)

LEMMA NextWorldIs ==
  /\ World'.ty = types' /\ World'.pr = properties' /\ World'.me = Slots'
  /\ World'.tx = text' /\ World'.open = Opened(visits')
  /\ TInv' => Sound(World')
  <1>1. /\ World'.ty = types' /\ World'.pr = properties' /\ World'.me = Slots'
        /\ World'.tx = text' /\ World'.open = Opened(visits')
    BY DEF World
  <1>2. (TInv => Sound(World))'
    <2>1. TInv => Sound(World)
      BY WorldIs
    <2>2. QED
      BY <2>1, PTL
  <1>3. TInv' => Sound(World')
    BY <1>2
  <1>4. QED
    BY <1>1, <1>3

\* What a class that is declared again comes to with its next member.
LEMMA NextMember ==
  ASSUME NEW w, Sound(w), NEW S, Histories(S, w.tx), Agrees(S, w),
         NEW a \in w.open, a.again, NEW mb, a.member < Len(w.tx[a.name].members),
         w.tx[a.name].members[a.member + 1] = mb
  PROVE  LET c == a.name
             s == S[c][a.member]
             z == Last(S, w.tx, c)
         IN  /\ Whole(s) /\ Whole(z) /\ c \in ClassNames /\ c \in DOMAIN w.tx
             /\ S[c][a.member + 1] = Grow(s, c, mb) /\ Extends(Grow(s, c, mb), z, c)
             /\ Replays(a.elems, w.tx[c].parent, c, s, z, Entry(w.pr, c), Entry(w.me, c))
             /\ w.ty[c].elems = z.e
  <1> DEFINE c == a.name
             ms == w.tx[c].members
             n == Len(ms)
             k == a.member
  <1>1. c \in DOMAIN w.tx /\ Texts(w.tx, w.ty) /\ a \in ClassVisit
    BY DEF Sound, ClassLaw
  <1>2. c \in ClassNames /\ k \in Nat
    BY <1>1 DEF ClassVisit
  <1>3. n \in Nat /\ \A i \in 0 .. n : Whole(S[c][i]) /\ Extends(S[c][i], Last(S, w.tx, c), c)
    BY <1>1, LastIs
  <1>4. k \in 0 .. n /\ k + 1 \in 0 .. n /\ k < n
    BY <1>2, <1>3
  <1>5. S[c][k + 1] = Grow(S[c][k], c, mb)
    <2>1. History(S[c], ms, c, First(S, w.tx, c))
      BY <1>1 DEF Histories
    <2>2. QED
      BY <1>4, <2>1 DEF History
  <1>6. VisitAgrees(S, w, a)
    BY DEF Agrees
  <1>7. Whole(Last(S, w.tx, c))
    BY <1>1, LastIs
  <1>8. /\ Replays(a.elems, w.tx[c].parent, c, S[c][k], Last(S, w.tx, c),
                   Entry(w.pr, c), Entry(w.me, c))
        /\ w.ty[c].elems = Last(S, w.tx, c).e
    BY <1>6 DEF VisitAgrees
  <1>9. QED
    BY <1>1, <1>2, <1>3, <1>4, <1>5, <1>7, <1>8

\* A class that is declared again is a member further.
LEMMA AgainGrows ==
  ASSUME NEW w, NEW x, Sound(w), Sound(x), NEW S, NEW uses, Ghost(S, w, uses),
         NEW a \in w.open, a.again, NEW b, b.name = a.name, b.again,
         b.member = a.member + 1, x.open = Replaced(w.open, a, b),
         NEW mb, a.member < Len(w.tx[a.name].members),
         w.tx[a.name].members[a.member + 1] = mb,
         Grown(w.tx, x.tx, a, mb), x.ty = w.ty,
         \A d \in DOMAIN x.ty : d # a.name =>
           Entry(x.pr, d) = Entry(w.pr, d) /\ Entry(x.me, d) = Entry(w.me, d),
         Replays(b.elems, w.tx[a.name].parent, a.name, Grow(S[a.name][a.member], a.name, mb),
                 Last(S, w.tx, a.name), Entry(x.pr, a.name), Entry(x.me, a.name))
  PROVE  Ghost(S, x, uses)
  <1> DEFINE c == a.name
             z == Last(S, w.tx, c)
  <1>1. Histories(S, w.tx) /\ Agrees(S, w) /\ Texts(w.tx, w.ty)
    BY DEF Ghost, Sound
  <1>2. /\ c \in DOMAIN w.tx /\ S[c][a.member + 1] = Grow(S[c][a.member], c, mb)
        /\ w.ty[c].elems = z.e
    BY <1>1, NextMember
  <1>3. /\ DOMAIN x.tx = DOMAIN w.tx
        /\ \A d \in DOMAIN w.tx : /\ x.tx[d].parent = w.tx[d].parent
                                  /\ x.tx[d].members = w.tx[d].members
    BY DEF Grown
  <1>4. Elsewhere(S, S, w, x, c)
    BY <1>1, <1>3 DEF Elsewhere, Texts
  <1>5. Last(S, x.tx, c) = z
    BY <1>2, <1>3 DEF Last
  <1>6. VisitAgrees(S, x, b)
    BY <1>2, <1>3, <1>5 DEF VisitAgrees
  <1>7. Agrees(S, x)
    BY <1>1, <1>4, <1>6, AgreesAgain
  <1>8. \A d \in DOMAIN w.tx : Fresh(x, d) => Fresh(w, d)
    BY DEF Fresh, Replaced
  <1>9. QED
    BY <1>3, <1>7, <1>8, GhostStays

\* A property gets its position.
LEMMA AddsGhost ==
  ASSUME TInv, GInv, TInv',
         NEW k \in DOMAIN visits, visits[k].op = "class", k = Inner,
         k = Len(visits) \/ (k = Len(visits) - 1 /\ visits[Len(visits)].op = "member"),
         NEW mb \in Member, mb.kind = "property", Follows(visits[k], mb, text),
         AddProperty(visits[k], mb)
  PROVE  GInv'
  <1> DEFINE a == visits[k]
             c == a.name
             entry == Entry(properties, c)
             n == Position(entry, mb.name, a.elems)
             laid == Laid(a.elems, n, mb.type)
             b == Moved(a, laid)
  <1>1. /\ Back(a, laid) /\ Wrote(a, mb)
        /\ properties' = With(properties, c, With(entry, mb.name, n))
        /\ UNCHANGED <<status, types, methods, functions, compiled>>
    BY DEF AddProperty, Laid
  <1>2. a \in ClassVisit /\ a \in Opened(visits)
    BY VisitAt, OpenedIs DEF TInv, Kinds
  <1>3. a.elems \in Seq(Types) /\ mb.type \in Types
    BY <1>2 DEF ClassVisit, Member
  <1>4. laid \in Seq(Types)
    <2>1. n \in 1 .. Len(a.elems) + 1
      BY <1>3, PositionIs
    <2> HIDE DEF n
    <2>2. QED
      BY <1>3, <2>1, LaidIs
  <1> HIDE DEF laid
  <1>5. /\ Opened(visits') = Replaced(Opened(visits), a, b)
        /\ Grown(text, text', a, mb)
    BY <1>1, <1>4, Advance
  <1>6. /\ b.name = c /\ b.again = a.again /\ b.member = a.member + 1 /\ b.elems = laid
        /\ b.phase = a.phase
    BY <1>2, <1>4, MovedIs
  <1>7. PICK S : Ghost(S, World, LateUses)
    BY DEF GInv
  <1> DEFINE w == World
             x == World'
             z == Last(S, text, c)
             s == S[c][a.member]
  <1>8. /\ w.ty = types /\ w.pr = properties /\ w.me = Slots /\ w.tx = text
        /\ w.open = Opened(visits) /\ Sound(w)
        /\ x.ty = types /\ x.pr = properties' /\ x.me = Slots /\ x.tx = text'
        /\ x.open = Opened(visits') /\ Sound(x)
    BY <1>1, WorldIs, NextWorldIs, SlotsAre
  <1>9. /\ \A d : Entry(properties', d) = IF d = c THEN With(entry, mb.name, n)
                                          ELSE Entry(properties, d)
        /\ types' = types /\ LateUses' = LateUses
    BY <1>1, EntryWith, SlotsAre
  <1> HIDE DEF a, b, w, x, entry, n
  <1>10. VisitAgrees(S, w, a) /\ Histories(S, w.tx) /\ Agrees(S, w)
    BY <1>2, <1>7, <1>8 DEF Ghost, Agrees, w
  <1>11. \E T : Ghost(T, x, LateUses)
    <2>1. CASE ~a.again
      <3>1. entry = z.p /\ Entry(Slots, c) = z.g /\ a.elems = z.e
        BY <1>8, <1>10, <2>1 DEF VisitAgrees, Has, entry
      <3>2. Grow(z, c, mb) = [p |-> With(entry, mb.name, n), e |-> laid, g |-> z.g]
        BY <3>1 DEF Grow, laid, n
      <3>3. LET y == Grow(Last(S, w.tx, c), c, mb)
            IN  Has(x, c, y) /\ b.elems = y.e
        BY <1>6, <1>8, <1>9, <3>1, <3>2 DEF Has
      <3>4. \A d \in DOMAIN x.ty : d # c =>
              Entry(x.pr, d) = Entry(w.pr, d) /\ Entry(x.me, d) = Entry(w.me, d)
        BY <1>8, <1>9
      <3>5. Ghost(S, w, LateUses)
        BY <1>7 DEF w
      <3>6. a.phase = "properties"
        BY DEF Follows, a
      <3>7. QED
        BY <1>2, <1>5, <1>6, <1>8, <2>1, <3>3, <3>4, <3>5, <3>6, FreshGrows
    <2>2. CASE a.again
      <3>1. a.member < Len(text[c].members) /\ text[c].members[a.member + 1] = mb
        BY <2>2 DEF Follows, a
      <3>2. /\ Whole(s) /\ Whole(z) /\ c \in ClassNames
            /\ Extends(Grow(s, c, mb), z, c)
            /\ Replays(a.elems, text[c].parent, c, s, z, entry, Entry(Slots, c))
        BY <1>2, <1>8, <1>10, <2>2, <3>1, NextMember DEF entry
      <3>3. Replays(laid, text[c].parent, c, Grow(s, c, mb), z,
                    With(entry, mb.name, n), Entry(Slots, c))
        <4> DEFINE es == a.elems
                   parent == text[c].parent
                   mec == Entry(Slots, c)
        <4>1. Replays(es, parent, c, s, z, entry, mec) /\ es \in Seq(Types)
          BY <1>3, <3>2
        <4> HIDE DEF es, parent, mec, s, z, c
        <4>2. Replays(Laid(es, Position(entry, mb.name, es), mb.type), parent, c,
                      Grow(s, c, mb), z,
                      With(entry, mb.name, Position(entry, mb.name, es)), mec)
          BY <3>2, <4>1, ReplaysProperty
        <4>3. QED
          BY <4>2 DEF laid, n, es, parent, mec
      <3>4. Ghost(S, w, LateUses)
        BY <1>7 DEF w
      <3>5. \A d \in DOMAIN x.ty : d # c =>
              Entry(x.pr, d) = Entry(w.pr, d) /\ Entry(x.me, d) = Entry(w.me, d)
        BY <1>8, <1>9
      <3>6. Replays(b.elems, w.tx[c].parent, c, Grow(S[c][a.member], c, mb),
                    Last(S, w.tx, c), Entry(x.pr, c), Entry(x.me, c))
        BY <1>6, <1>8, <1>9, <3>3
      <3>7. Ghost(S, x, LateUses)
        BY <1>2, <1>5, <1>6, <1>8, <2>2, <3>1, <3>4, <3>5, <3>6, AgainGrows
      <3>8. QED
        BY <3>7
    <2>3. QED
      BY <2>1, <2>2
  <1>12. QED
    BY <1>9, <1>11 DEF GInv, x

\* A method gets its slot.
LEMMA CloseMethodGhost ==
  ASSUME TInv, GInv, TInv', CloseMethod
  PROVE  GInv'
  <1> DEFINE a     == visits[Inner]
             mb    == Top.member
             c     == a.name
             entry == Entry(Slots, c)
             new   == IF EarlyUses THEN entry
                      ELSE With(entry, mb.name, Entered(entry, c, mb.name))
             b     == Moved(a, a.elems)
  <1>1. /\ AtMember("method")
        /\ methods' = With(methods, c, With(Entry(methods, c), mb.name,
                                            Entered(Entry(methods, c), c, mb.name)))
        /\ Back(a, a.elems) /\ Wrote(a, mb)
        /\ UNCHANGED <<status, types, properties, functions, compiled>>
    BY DEF CloseMethod, Entered
  <1>2. /\ Top = visits[Len(visits)] /\ Top.op = "member"
        /\ mb \in Member /\ mb.kind = "method"
        /\ Inner = Len(visits) - 1 /\ Inner \in DOMAIN visits
        /\ a.op = "class" /\ a \in ClassVisit /\ a \in Opened(visits)
        /\ Follows(a, mb, text)
    BY <1>1, ClassOfMember
  <1>3. a.elems \in Seq(Types)
    BY <1>2 DEF ClassVisit
  <1> HIDE DEF mb
  <1>5. /\ Opened(visits') = Replaced(Opened(visits), a, b)
        /\ Grown(text, text', a, mb)
    BY <1>1, <1>2, <1>3, Advance
  <1>6. /\ b.name = c /\ b.again = a.again /\ b.member = a.member + 1 /\ b.elems = a.elems
        /\ b.phase = a.phase
    BY <1>2, <1>3, MovedIs
  <1>7. PICK S : Ghost(S, World, LateUses)
    BY DEF GInv
  <1> DEFINE w == World
             x == World'
             z == Last(S, text, c)
             s == S[c][a.member]
  <1>8. /\ w.ty = types /\ w.pr = properties /\ w.me = Slots /\ w.tx = text
        /\ w.open = Opened(visits) /\ Sound(w)
        /\ x.ty = types /\ x.pr = properties /\ x.me = Slots' /\ x.tx = text'
        /\ x.open = Opened(visits') /\ Sound(x)
    BY <1>1, WorldIs, NextWorldIs
  <1>9. /\ \A d : Entry(Slots', d) = IF d = c THEN new ELSE Entry(Slots, d)
        /\ properties' = properties /\ types' = types /\ LateUses' = LateUses
    <2>1. CASE EarlyUses
      BY <1>1, <2>1, SlotsAre
    <2>2. CASE ~EarlyUses
      BY <1>1, <2>2, EntryWith, SlotsAre
    <2>3. QED
      BY <2>1, <2>2
  <1> HIDE DEF a, b, w, x, entry, new
  <1>10. VisitAgrees(S, w, a) /\ Histories(S, w.tx) /\ Agrees(S, w)
    BY <1>2, <1>7, <1>8 DEF Ghost, Agrees, w
  <1>11. \E T : Ghost(T, x, LateUses)
    <2>1. CASE ~a.again
      <3>1. Entry(properties, c) = z.p /\ entry = z.g /\ a.elems = z.e
        BY <1>8, <1>10, <2>1 DEF VisitAgrees, Has, entry
      <3>2. LET y == Grow(z, c, mb) IN y.p = z.p /\ y.e = z.e /\ y.g = new
        BY <1>2, <3>1 DEF Grow, new
      <3>3. LET y == Grow(Last(S, w.tx, c), c, mb)
            IN  Has(x, c, y) /\ b.elems = y.e
        BY <1>6, <1>8, <1>9, <3>1, <3>2 DEF Has
      <3>4. \A d \in DOMAIN x.ty : d # c =>
              Entry(x.pr, d) = Entry(w.pr, d) /\ Entry(x.me, d) = Entry(w.me, d)
        BY <1>8, <1>9
      <3>5. Ghost(S, w, LateUses)
        BY <1>7 DEF w
      <3>6. QED
        BY <1>2, <1>5, <1>6, <1>8, <2>1, <3>3, <3>4, <3>5, FreshGrows
    <2>2. CASE a.again
      <3>1. a.member < Len(text[c].members) /\ text[c].members[a.member + 1] = mb
        BY <1>2, <2>2 DEF Follows
      <3>2. /\ Whole(s) /\ Whole(z) /\ c \in ClassNames
            /\ Extends(Grow(s, c, mb), z, c)
            /\ Replays(a.elems, text[c].parent, c, s, z, Entry(properties, c), entry)
        BY <1>2, <1>8, <1>10, <2>2, <3>1, NextMember DEF entry
      <3>3. Replays(a.elems, text[c].parent, c, Grow(s, c, mb), z,
                    Entry(properties, c), new)
        <4> DEFINE es == a.elems
                   parent == text[c].parent
                   prc == Entry(properties, c)
        <4>1. Replays(es, parent, c, s, z, prc, entry)
          BY <3>2
        <4> HIDE DEF es, parent, prc, s, z, c
        <4>2. CASE EarlyUses
          <5>1. Grow(s, c, mb) = s /\ new = entry
            BY <1>2, <4>2 DEF Grow, new
          <5>2. QED
            BY <4>1, <5>1 DEF es, parent, prc
        <4>3. CASE ~EarlyUses
          <5>1. Replays(es, parent, c, Grow(s, c, mb), z, prc,
                        With(entry, mb.name, Entered(entry, c, mb.name)))
            BY <1>2, <3>2, <4>1, <4>3, ReplaysMethod
          <5>2. QED
            BY <4>3, <5>1 DEF new, es, parent, prc
        <4>4. QED
          BY <4>2, <4>3
      <3>4. Ghost(S, w, LateUses)
        BY <1>7 DEF w
      <3>5. \A d \in DOMAIN x.ty : d # c =>
              Entry(x.pr, d) = Entry(w.pr, d) /\ Entry(x.me, d) = Entry(w.me, d)
        BY <1>8, <1>9
      <3>6. Replays(b.elems, w.tx[c].parent, c, Grow(S[c][a.member], c, mb),
                    Last(S, w.tx, c), Entry(x.pr, c), Entry(x.me, c))
        BY <1>6, <1>8, <1>9, <3>3
      <3>7. Ghost(S, x, LateUses)
        BY <1>2, <1>5, <1>6, <1>8, <2>2, <3>1, <3>4, <3>5, <3>6, AgainGrows, ZenonT(60)
      <3>8. QED
        BY <3>7
    <2>3. QED
      BY <2>1, <2>2
  <1>12. QED
    BY <1>9, <1>11 DEF GInv, x

\* A visit of a member opens no class.
LEMMA PushedOther ==
  ASSUME NEW v \in Visits, NEW y \in ClassVisit \cup MemberVisit, y.op # "class"
  PROVE  Opened(Append(v, y)) = Opened(v)
  <1>1. /\ Append(v, y) \in Visits
        /\ DOMAIN v = 1 .. Len(v) /\ Len(v) \in Nat
        /\ DOMAIN Append(v, y) = 1 .. Len(v) + 1
        /\ \A i \in DOMAIN v : Append(v, y)[i] = v[i]
        /\ Append(v, y)[Len(v) + 1] = y
    BY Appended
  <1> DEFINE u == Append(v, y)
  <1> HIDE DEF u
  <1>2. \A i \in DOMAIN u : u[i].op = "class" => i \in DOMAIN v /\ u[i] = v[i]
    BY <1>1 DEF u
  <1>3. \A i \in DOMAIN v : i \in DOMAIN u /\ u[i] = v[i]
    BY <1>1 DEF u
  <1>4. QED
    BY <1>2, <1>3 DEF Opened, u

LEMMA OpenInitializerGhost ==
  ASSUME TInv, GInv, NEW p \in PropNames, NEW t \in Types, OpenInitializer(p, t)
  PROVE  GInv'
  <1> DEFINE mb == Property(p, t, TRUE)
             y == [op |-> "member", member |-> mb]
  <1>1. /\ visits' = Append(visits, y)
        /\ UNCHANGED <<status, types, properties, methods, functions, text, compiled>>
    BY DEF OpenInitializer
  <1>2. visits \in Visits /\ y \in ClassVisit \cup MemberVisit /\ y.op # "class"
    BY PropertyIsAMember DEF TInv, Kinds, MemberVisit
  <1> HIDE DEF y
  <1>3. Opened(Append(visits, y)) = Opened(visits)
    BY <1>2, PushedOther
  <1>4. World' = World
    BY <1>1, <1>3, SlotsAre DEF World
  <1>5. QED
    BY <1>1, <1>4, SlotsAre DEF GInv

\* The methods begin: the struct has its elements, and no more will follow.
LEMMA OpenMethodGhost ==
  ASSUME TInv, GInv, TInv', NEW m \in MethodNames, OpenMethod(m)
  PROVE  GInv'
  <1> DEFINE a == Top
             c == a.name
             b == AtMethods(a)
             w == World
             x == World'
  <1>1. /\ AtClass /\ SetBody(a)
        /\ Opened(visits') = Replaced(Opened(visits), a, b)
        /\ UNCHANGED <<status, properties, methods, text, compiled>>
    BY MethodOpened
  <1>2. a \in ClassVisit /\ a \in Opened(visits) /\ c \in DOMAIN types
    BY <1>1, ClassOnTop
  <1>3. /\ b.name = c /\ b.again = a.again /\ b.member = a.member /\ b.elems = a.elems
        /\ b.phase = "methods"
    BY <1>2, AtMethodsIs
  <1>4. /\ w.ty = types /\ w.pr = properties /\ w.me = Slots /\ w.tx = text
        /\ w.open = Opened(visits) /\ Sound(w)
        /\ x.ty = types' /\ x.pr = properties /\ x.me = Slots /\ x.tx = text
        /\ x.open = Opened(visits') /\ Sound(x)
    BY <1>1, WorldIs, NextWorldIs, SlotsAre
  <1>5. PICK S : Ghost(S, w, LateUses)
    BY DEF GInv
  <1>6. /\ DOMAIN types' = DOMAIN types
        /\ \A d \in DOMAIN types : d # c => types'[d] = types[d]
        /\ a.again => types' = types
        /\ ~a.again => types'[c].elems = a.elems
    BY <1>1, <1>2 DEF SetBody
  <1>7. Elsewhere(S, S, w, x, c)
    BY <1>4, <1>6 DEF Elsewhere
  <1> HIDE DEF a, b, w, x
  <1>8. VisitAgrees(S, w, a) /\ Agrees(S, w)
    BY <1>2, <1>4, <1>5 DEF Ghost, Agrees
  <1>9. VisitAgrees(S, x, b)
    BY <1>3, <1>4, <1>6, <1>8 DEF VisitAgrees, Has
  <1>10. Agrees(S, x)
    BY <1>1, <1>2, <1>3, <1>4, <1>7, <1>8, <1>9, AgreesAgain
  <1>11. \A d \in DOMAIN w.tx : Fresh(x, d) => Fresh(w, d)
    BY <1>1, <1>2, <1>3, <1>4 DEF Fresh, Replaced
  <1>12. Ghost(S, x, LateUses)
    BY <1>4, <1>5, <1>10, <1>11, GhostStays
  <1>13. QED
    BY <1>1, <1>12, SlotsAre DEF GInv, x

\* A class that is left has what it has in the end.
LEMMA Leaves ==
  ASSUME NEW w, NEW x, NEW S, NEW a \in w.open, Elsewhere(S, S, w, x, a.name),
         Agrees(S, w), Sound(w), Sound(x), x.open = w.open \ {a},
         Has(x, a.name, Last(S, x.tx, a.name)),
         x.ty[a.name].elems = Last(S, x.tx, a.name).e
  PROVE  Agrees(S, x)
  <1>1. \A d \in x.open : d \in w.open /\ d.name # a.name
    BY DEF Sound
  <1>2. \A d \in x.open : VisitAgrees(S, x, d)
    BY <1>1, SameElsewhere
  <1>3. ASSUME NEW c \in DOMAIN x.ty, Closed(x, c), c # a.name
        PROVE  Has(x, c, Last(S, x.tx, c)) /\ x.ty[c].elems = Last(S, x.tx, c).e
    <2>1. c \in DOMAIN w.ty
      BY <1>3 DEF Elsewhere
    <2>2. Closed(w, c)
      BY <1>3, <2>1 DEF Closed
    <2>3. QED
      BY <1>3, <2>2, SameElsewhere
  <1>4. QED
    BY <1>2, <1>3 DEF Agrees

LEMMA CloseClassGhost ==
  ASSUME TInv, GInv, TInv', CloseClass
  PROVE  GInv'
  <1> DEFINE a == Top
             c == a.name
             w == World
             x == World'
  <1>1. /\ AtClass /\ SetBody(a)
        /\ a.again => a.member = Len(text[c].members)
        /\ visits' = SubSeq(visits, 1, Len(visits) - 1)
        /\ UNCHANGED <<status, properties, methods, functions, text, compiled>>
    BY DEF CloseClass
  <1>2. /\ a \in ClassVisit /\ a \in Opened(visits) /\ c \in DOMAIN types
        /\ a.op = "class" /\ Len(visits) \in DOMAIN visits /\ a = visits[Len(visits)]
        /\ c \in DOMAIN text
    BY <1>1, ClassOnTop DEF ClassLaw
  <1>3. Opened(visits') = Opened(visits) \ {a}
    BY <1>1, <1>2, Cut DEF TInv, Kinds
  <1>4. /\ w.ty = types /\ w.pr = properties /\ w.me = Slots /\ w.tx = text
        /\ w.open = Opened(visits) /\ Sound(w)
        /\ x.ty = types' /\ x.pr = properties /\ x.me = Slots /\ x.tx = text
        /\ x.open = Opened(visits') /\ Sound(x)
    BY <1>1, WorldIs, NextWorldIs, SlotsAre
  <1>5. PICK S : Ghost(S, w, LateUses)
    BY DEF GInv
  <1>6. /\ DOMAIN types' = DOMAIN types
        /\ \A d \in DOMAIN types : d # c => types'[d] = types[d]
        /\ a.again => types' = types
        /\ ~a.again => types'[c].elems = a.elems
    BY <1>1, <1>2 DEF SetBody
  <1>7. Elsewhere(S, S, w, x, c)
    BY <1>4, <1>6 DEF Elsewhere
  <1>8. a.elems \in Seq(Types)
    BY <1>2 DEF ClassVisit
  <1> HIDE DEF a, w, x
  <1>9. VisitAgrees(S, w, a) /\ Agrees(S, w) /\ Histories(S, text) /\ Texts(text, types)
    BY <1>2, <1>4, <1>5 DEF Ghost, Agrees, Sound
  <1> DEFINE z == Last(S, text, c)
  <1>10. Whole(z)
    BY <1>2, <1>9, LastIs
  <1>11. Entry(properties, c) = z.p /\ Entry(Slots, c) = z.g /\ types'[c].elems = z.e
    <2>1. CASE ~a.again
      BY <1>4, <1>6, <1>9, <2>1 DEF VisitAgrees, Has
    <2>2. CASE a.again
      <3>1. S[c][a.member] = z
        BY <1>1, <2>2 DEF Last
      <3>2. /\ types[c].elems = z.e
            /\ Replays(a.elems, text[c].parent, c, S[c][a.member], z,
                       Entry(properties, c), Entry(Slots, c))
        BY <1>4, <1>9, <2>2 DEF VisitAgrees
      <3>3. Entry(properties, c) = z.p /\ Entry(Slots, c) = z.g
        BY <1>8, <1>10, <3>1, <3>2, ReplayEnds
      <3>4. QED
        BY <1>6, <2>2, <3>2, <3>3
    <2>3. QED
      BY <2>1, <2>2
  <1>12. Agrees(S, x)
    BY <1>2, <1>3, <1>4, <1>7, <1>9, <1>11, Leaves DEF Has
  <1>13. \A d \in DOMAIN w.tx : Fresh(x, d) => Fresh(w, d)
    BY <1>3, <1>4 DEF Fresh
  <1>14. Ghost(S, x, LateUses)
    BY <1>4, <1>5, <1>12, <1>13, GhostStays
  <1>15. QED
    BY <1>1, <1>14, SlotsAre DEF GInv, x

\* The visit of a class that begins.
Begun(c, parent) ==
  [op |-> "class", name |-> c, elems |-> InheritedElems(parent),
   again |-> c \in DOMAIN types, member |-> 0, phase |-> "properties"]

LEMMA PushedOpened ==
  ASSUME NEW v \in Visits, NEW a \in ClassVisit
  PROVE  Opened(Append(v, a)) = Opened(v) \cup {a}
  <1> DEFINE w == Append(v, a)
  <1>1. /\ DOMAIN v = 1 .. Len(v) /\ DOMAIN w = 1 .. Len(v) + 1 /\ Len(v) \in Nat
        /\ \A i \in DOMAIN v : w[i] = v[i]
        /\ w[Len(v) + 1] = a
    BY Appended
  <1>2. a.op = "class"
    BY DEF ClassVisit
  <1> HIDE DEF w
  <1>3. /\ \A i \in DOMAIN w : i = Len(v) + 1 \/ (i \in DOMAIN v /\ w[i] = v[i])
        /\ \A i \in DOMAIN v : i \in DOMAIN w /\ w[i] = v[i]
        /\ Len(v) + 1 \in DOMAIN w
    BY <1>1
  <1>4. QED
    BY <1>1, <1>2, <1>3 DEF Opened, w

LEMMA ClassOpened ==
  ASSUME TInv, NEW c \in ClassNames,
         NEW parent \in ClassNames \cup {NoClass}, OpenClass(c, parent)
  PROVE  /\ \A d : Entry(properties', d) = IF d = c /\ parent # NoClass
                     THEN Entry(properties, parent) ELSE Entry(properties, d)
         /\ \A d : Entry(methods', d) = IF d = c /\ parent # NoClass
                     THEN Entry(methods, parent) ELSE Entry(methods, d)
         /\ Opened(visits') = Opened(visits) \cup {Begun(c, parent)}
         /\ \A b \in Opened(visits) : b.name # c
         /\ \A d : Entry(Slots', d) = IF d = c /\ parent # NoClass
                     THEN Entry(Slots, parent) ELSE Entry(Slots, d)
         /\ parent \notin {NoClass, c} => Settled(World, parent)
         /\ parent = NoClass => Begun(c, parent).elems = <<>>
         /\ c \in DOMAIN types => text[c].parent = parent
         /\ types' = IF c \in DOMAIN types THEN types ELSE With(types, c, Opaque)
         /\ text' = IF c \in DOMAIN types THEN [text EXCEPT ![c].times = @ + 1]
                    ELSE With(text, c, [parent |-> parent, members |-> <<>>, times |-> 1])
         /\ LateUses' = LateUses
  <1>1. /\ c \notin Declaring /\ AtStatement
        /\ parent \in {NoClass, c} \/ Finished(parent) \/ (EarlyUses /\ parent \in DOMAIN types)
        /\ properties' = Inherited(properties, c, parent)
        /\ methods' = Inherited(methods, c, parent)
        /\ visits' = Append(visits, Begun(c, parent))
        /\ c \in DOMAIN types => text[c].parent = parent
        /\ types' = IF c \in DOMAIN types THEN types ELSE With(types, c, Opaque)
        /\ text' = IF c \in DOMAIN types THEN [text EXCEPT ![c].times = @ + 1]
                   ELSE With(text, c, [parent |-> parent, members |-> <<>>, times |-> 1])
        /\ compiled' = compiled
    BY DEF OpenClass, Begun
  <1>2. visits \in Visits /\ Structs(types) /\ NoClass \notin DOMAIN types
    BY ClassesAssumption DEF TInv, Kinds, Structs
  <1>3. InheritedElems(parent) \in Seq(Types) /\ (parent = NoClass => InheritedElems(parent) = <<>>)
    BY <1>2, EmptySeq DEF InheritedElems, Structs, Struct
  <1>4. Begun(c, parent) \in ClassVisit
    BY <1>3 DEF Begun, ClassVisit
  <1>5. Opened(visits') = Opened(visits) \cup {Begun(c, parent)}
    BY <1>1, <1>2, <1>4, PushedOpened
  <1>6. \A b \in Opened(visits) : b.name # c
    BY <1>1 DEF Opened, Declaring
  <1>7. parent \notin {NoClass, c} => Settled(World, parent)
    <2>1. CASE Finished(parent)
      BY <2>1, FinishedIs DEF Closed, Settled
    <2>2. CASE EarlyUses /\ parent \in DOMAIN types
      BY <1>1, <2>2, AmongMethods, WorldIs DEF Settled
    <2>3. QED
      BY <1>1, <2>1, <2>2
  <1>8. Begun(c, parent).elems = InheritedElems(parent)
    BY DEF Begun
  <1>9. /\ \A d : Entry(properties', d) = IF d = c /\ parent # NoClass
                    THEN Entry(properties, parent) ELSE Entry(properties, d)
        /\ \A d : Entry(methods', d) = IF d = c /\ parent # NoClass
                    THEN Entry(methods, parent) ELSE Entry(methods, d)
    BY <1>1, EntryInherited
  <1>10. \A d : Entry(Slots', d) = IF d = c /\ parent # NoClass
                   THEN Entry(Slots, parent) ELSE Entry(Slots, d)
    <2>1. CASE EarlyUses
      BY <2>1, SlotsAre
    <2>2. CASE ~EarlyUses
      BY <1>9, <2>2, SlotsAre
    <2>3. QED
      BY <2>1, <2>2
  <1>11. QED
    BY <1>1, <1>3, <1>5, <1>6, <1>7, <1>8, <1>9, <1>10, SlotsAre

\* The visits go on, and there is one more, of a class that was not visited.
LEMMA Joins ==
  ASSUME NEW w, NEW x, NEW S, NEW T, NEW b, Elsewhere(S, T, w, x, b.name),
         Agrees(S, w), Sound(w), Sound(x), x.open = w.open \cup {b},
         \A a \in w.open : a.name # b.name, VisitAgrees(T, x, b)
  PROVE  Agrees(T, x)
  <1>1. \A d \in x.open : VisitAgrees(T, x, d)
    BY SameElsewhere
  <1>2. ASSUME NEW c \in DOMAIN x.ty, Closed(x, c)
        PROVE  Has(x, c, Last(T, x.tx, c)) /\ x.ty[c].elems = Last(T, x.tx, c).e
    <2>1. c # b.name
      BY <1>2 DEF Closed
    <2>2. c \in DOMAIN w.ty
      BY <2>1 DEF Elsewhere
    <2>3. Closed(w, c)
      BY <1>2, <2>2 DEF Closed
    <2>4. QED
      BY <2>1, <2>3, SameElsewhere
  <1>3. QED
    BY <1>1, <1>2 DEF Agrees

\* A class is declared again: its replay begins.
LEMMA AgainBegins ==
  ASSUME TInv, GInv, TInv', NEW c \in ClassNames,
         NEW parent \in ClassNames \cup {NoClass}, OpenClass(c, parent), c \in DOMAIN types
  PROVE  GInv'
  <1> DEFINE b == Begun(c, parent)
             w == World
             x == World'
  <1>1. /\ \A d : Entry(properties', d) = IF d = c /\ parent # NoClass
                    THEN Entry(properties, parent) ELSE Entry(properties, d)
        /\ \A d : Entry(Slots', d) = IF d = c /\ parent # NoClass
                    THEN Entry(Slots, parent) ELSE Entry(Slots, d)
        /\ Opened(visits') = Opened(visits) \cup {b}
        /\ \A a \in Opened(visits) : a.name # c
        /\ parent \notin {NoClass, c} => Settled(w, parent)
        /\ parent = NoClass => b.elems = <<>>
        /\ text[c].parent = parent
        /\ types' = types /\ text' = [text EXCEPT ![c].times = @ + 1]
        /\ LateUses' = LateUses
    BY ClassOpened
  <1>2. /\ w.ty = types /\ w.pr = properties /\ w.me = Slots /\ w.tx = text
        /\ w.open = Opened(visits) /\ Sound(w)
        /\ x.ty = types /\ x.pr = properties' /\ x.me = Slots' /\ x.tx = text'
        /\ x.open = Opened(visits') /\ Sound(x)
    BY <1>1, WorldIs, NextWorldIs
  <1>3. b.name = c /\ b.again /\ b.member = 0 /\ b.elems = InheritedElems(parent)
    BY DEF Begun
  <1>4. PICK S : Ghost(S, w, LateUses)
    BY DEF GInv
  <1>5. Texts(text, types) /\ c \in DOMAIN text
    BY DEF TInv, Kinds, Texts
  <1>6. /\ DOMAIN text' = DOMAIN text
        /\ \A d \in DOMAIN text : /\ text'[d].parent = text[d].parent
                                  /\ text'[d].members = text[d].members
    <2>1. text[c] \in Text
      BY <1>5 DEF Texts
    <2>2. [text[c] EXCEPT !.times = @ + 1].parent = text[c].parent
          /\ [text[c] EXCEPT !.times = @ + 1].members = text[c].members
      BY <2>1 DEF Text
    <2>3. QED
      BY <1>1, <1>5, <2>2
  <1> HIDE DEF b, w, x
  <1>7. Elsewhere(S, S, w, x, c)
    BY <1>1, <1>2, <1>5, <1>6 DEF Elsewhere, Texts
  <1>8. Histories(S, text) /\ Agrees(S, w)
    BY <1>2, <1>4 DEF Ghost
  <1> DEFINE z == Last(S, text, c)
             first == First(S, text, c)
  <1>9. Whole(z) /\ S[c][0] = first
    BY <1>5, <1>8, LastIs
  <1>10. Entry(properties, c) = z.p /\ Entry(Slots, c) = z.g /\ types[c].elems = z.e
    <2>1. Closed(w, c)
      BY <1>1, <1>2 DEF Closed
    <2>2. QED
      BY <1>2, <1>8, <2>1 DEF Agrees, Has
  <1>11. Last(S, text', c) = z
    BY <1>5, <1>6 DEF Last
  <1> HIDE DEF z
  <1>12. Replays(b.elems, parent, c, first, z, Entry(properties', c), Entry(Slots', c))
    <2>1. CASE parent = NoClass
      <3>1. first = Nothing /\ parent # c
        BY <1>1, <2>1, ClassesAssumption DEF First
      <3>2. b.elems = first.e
        BY <1>1, <2>1, <3>1 DEF Nothing
      <3>3. QED
        BY <1>1, <1>10, <2>1, <3>1, <3>2 DEF Replays
    <2>2. CASE parent = c
      <3>1. first = Nothing /\ parent # NoClass
        BY <1>1, <2>2, ClassesAssumption DEF First
      <3>2. b.elems = z.e
        BY <1>3, <1>10, <2>2 DEF InheritedElems
      <3>3. Over(b.elems, first, z)
        BY <3>1, <3>2, WithoutEntries DEF Over, Nothing
      <3>4. QED
        BY <1>1, <1>10, <2>2, <3>1, <3>3 DEF Replays
    <2>3. CASE parent \notin {NoClass, c}
      <3>1. first = Last(S, text, parent)
        BY <1>1, <2>3 DEF First
      <3>2. /\ Entry(properties, parent) = first.p /\ Entry(Slots, parent) = first.g
            /\ types[parent].elems = first.e /\ parent \in DOMAIN types
        BY <1>1, <1>2, <1>8, <2>3, <3>1, SettledHas DEF Has
      <3>3. b.elems = first.e
        BY <1>3, <3>2 DEF InheritedElems
      <3>4. QED
        BY <1>1, <2>3, <3>2, <3>3 DEF Replays
    <2>4. QED
      BY <2>1, <2>2, <2>3
  <1>13. VisitAgrees(S, x, b)
    <2>1. /\ x.ty[c].elems = z.e /\ x.tx[c].parent = parent /\ Last(S, x.tx, c) = z
          /\ S[c][b.member] = first
          /\ Entry(x.pr, c) = Entry(properties', c) /\ Entry(x.me, c) = Entry(Slots', c)
      <3>1. x.ty[c].elems = z.e
        BY <1>2, <1>10
      <3>2. x.tx[c].parent = parent /\ Last(S, x.tx, c) = z
        BY <1>1, <1>2, <1>5, <1>6, <1>11
      <3>3. S[c][b.member] = first
        BY <1>3, <1>9
      <3>4. Entry(x.pr, c) = Entry(properties', c) /\ Entry(x.me, c) = Entry(Slots', c)
        BY <1>2
      <3>5. QED
        BY <3>1, <3>2, <3>3, <3>4
    <2> HIDE DEF first
    <2>2. QED
      BY <1>3, <1>12, <2>1 DEF VisitAgrees
  <1>14. Agrees(S, x)
    BY <1>1, <1>2, <1>3, <1>7, <1>8, <1>13, Joins
  <1>15. \A d \in DOMAIN w.tx : Fresh(x, d) => Fresh(w, d)
    BY <1>1, <1>2, <1>3 DEF Fresh
  <1>16. Ghost(S, x, LateUses)
    BY <1>2, <1>4, <1>6, <1>14, <1>15, GhostStays
  <1>17. QED
    BY <1>1, <1>16 DEF GInv, x

\* A class is declared the first time: it has what its parent has.
LEMMA FreshBegins ==
  ASSUME TInv, GInv, TInv', NEW c \in ClassNames,
         NEW parent \in ClassNames \cup {NoClass}, OpenClass(c, parent), c \notin DOMAIN types
  PROVE  GInv'
  <1> DEFINE b == Begun(c, parent)
             w == World
             x == World'
             new == [parent |-> parent, members |-> <<>>, times |-> 1]
  <1>1. /\ \A d : Entry(properties', d) = IF d = c /\ parent # NoClass
                    THEN Entry(properties, parent) ELSE Entry(properties, d)
        /\ \A d : Entry(Slots', d) = IF d = c /\ parent # NoClass
                    THEN Entry(Slots, parent) ELSE Entry(Slots, d)
        /\ Opened(visits') = Opened(visits) \cup {b}
        /\ \A a \in Opened(visits) : a.name # c
        /\ parent \notin {NoClass, c} => Settled(w, parent)
        /\ parent = NoClass => b.elems = <<>>
        /\ types' = With(types, c, Opaque) /\ text' = With(text, c, new)
        /\ LateUses' = LateUses
    BY ClassOpened
  <1>2. /\ w.ty = types /\ w.pr = properties /\ w.me = Slots /\ w.tx = text
        /\ w.open = Opened(visits) /\ Sound(w)
        /\ x.ty = types' /\ x.pr = properties' /\ x.me = Slots' /\ x.tx = text'
        /\ x.open = Opened(visits') /\ Sound(x)
    BY WorldIs, NextWorldIs
  <1>3. b.name = c /\ ~b.again /\ b.elems = InheritedElems(parent) /\ b.phase = "properties"
    BY DEF Begun
  <1>4. PICK S : Ghost(S, w, LateUses)
    BY DEF GInv
  <1>5. /\ Texts(text, types) /\ DOMAIN text = DOMAIN types /\ c \notin DOMAIN text
        /\ c # NoClass
    BY ClassesAssumption DEF TInv, Kinds, Texts
  <1>6. /\ DOMAIN text' = DOMAIN text \cup {c} /\ DOMAIN types' = DOMAIN types \cup {c}
        /\ text'[c].parent = parent /\ text'[c].members = <<>>
        /\ \A d \in DOMAIN text : text'[d] = text[d] /\ types'[d] = types[d] /\ d # c
    <2> HIDE DEF new
    <2>1. /\ DOMAIN text' = DOMAIN text \cup {c} /\ DOMAIN types' = DOMAIN types \cup {c}
          /\ text'[c] = new
          /\ \A d \in DOMAIN text : text'[d] = text[d] /\ types'[d] = types[d] /\ d # c
      BY <1>1, <1>5 DEF With
    <2>2. QED
      BY <2>1 DEF new
  <1> HIDE DEF b, w, x, new
  <1>7. Histories(S, text) /\ Agrees(S, w) /\ BasesDone(w) /\ Bound(S, w, LateUses)
    BY <1>2, <1>4 DEF Ghost
  <1> DEFINE first == IF parent \in {NoClass, c} THEN Nothing ELSE Last(S, text, parent)
             h == [k \in {0} |-> first]
  <1>8. parent \notin {NoClass, c} => parent \in DOMAIN text
    BY <1>1, <1>2, <1>5 DEF Settled
  <1>9. Whole(first)
    BY <1>5, <1>7, <1>8, NothingIsWhole, LastIs
  <1>10. PICK T : T = [d \in DOMAIN text \cup {c} |-> IF d = c THEN h ELSE S[d]]
    OBVIOUS
  <1>11. T[c] = h /\ \A d \in DOMAIN text : T[d] = S[d]
    BY <1>5, <1>10
  <1>12. Elsewhere(S, T, w, x, c)
    BY <1>1, <1>2, <1>5, <1>6, <1>11 DEF Elsewhere
  <1>13. \A d \in DOMAIN text : Last(T, text', d) = Last(S, text, d)
    BY <1>6, <1>11 DEF Last
  <1>14. First(T, text', c) = first
    BY <1>6, <1>8, <1>13 DEF First
  <1>15. History(h, <<>>, c, first)
    BY <1>9, HistoryStarts
  <1>16. Last(T, text', c) = first
    <2>1. Len(<<>>) = 0 /\ h[0] = first
      OBVIOUS
    <2>2. QED
      BY <1>6, <1>11, <2>1 DEF Last
  <1> HIDE DEF first, h
  <1>17. \A d \in DOMAIN text : d # c => text[d].parent # c
    BY <1>5 DEF Texts
  <1>18. Histories(T, x.tx)
    BY <1>2, <1>6, <1>7, <1>11, <1>12, <1>14, <1>15, <1>17, HistoriesElsewhere
  <1>19. /\ Entry(properties', c) = first.p /\ Entry(Slots', c) = first.g
         /\ b.elems = first.e
    <2>1. Entry(properties, c) = NoEntries /\ Entry(Slots, c) = NoEntries
      BY SlotsAre DEF TInv, Tables, Entry
    <2>2. CASE parent \in {NoClass, c}
      <3>1. first.p = NoEntries /\ first.g = NoEntries /\ first.e = <<>>
        BY <2>2 DEF first, Nothing
      <3>2. b.elems = <<>>
        BY <1>1, <1>3, <2>2 DEF InheritedElems
      <3>3. QED
        BY <1>1, <2>1, <2>2, <3>1, <3>2
    <2>3. CASE parent \notin {NoClass, c}
      <3>1. first = Last(S, text, parent)
        BY <2>3 DEF first
      <3>2. /\ Entry(properties, parent) = first.p /\ Entry(Slots, parent) = first.g
            /\ types[parent].elems = first.e /\ parent \in DOMAIN types
        BY <1>1, <1>2, <1>7, <2>3, <3>1, SettledHas DEF Has
      <3>3. b.elems = first.e
        BY <1>3, <3>2 DEF InheritedElems
      <3>4. QED
        BY <1>1, <2>3, <3>2, <3>3
    <2>4. QED
      BY <2>2, <2>3
  <1>20. VisitAgrees(T, x, b)
    BY <1>2, <1>3, <1>16, <1>19 DEF VisitAgrees, Has
  <1>21. Agrees(T, x)
    BY <1>1, <1>2, <1>3, <1>7, <1>12, <1>20, Joins
  <1>22. \A d : d # c => (Fresh(x, d) => Fresh(w, d))
    BY <1>1, <1>2, <1>3 DEF Fresh
  <1>23. BasesDone(x)
    <2> SUFFICES ASSUME NEW d \in DOMAIN text', text'[d].parent \notin {NoClass, d}
                 PROVE  ~Fresh(x, text'[d].parent)
      BY <1>2 DEF BasesDone
    <2>1. CASE d = c
      <3>1. text'[d].parent = parent /\ parent \notin {NoClass, c}
        BY <1>6, <2>1
      <3>2. ~Fresh(w, parent)
        BY <1>1, <1>2, <1>7, <3>1, SettledHas
      <3>3. QED
        BY <1>22, <3>1, <3>2
    <2>2. CASE d # c
      <3>1. d \in DOMAIN text /\ text'[d].parent = text[d].parent
        BY <1>6, <2>2
      <3>2. text[d].parent # c
        BY <1>17, <2>2, <3>1
      <3>3. ~Fresh(w, text[d].parent)
        BY <1>2, <1>7, <3>1 DEF BasesDone
      <3>4. QED
        BY <1>22, <3>1, <3>2, <3>3
    <2>3. QED
      BY <2>1, <2>2
  <1>24. Bound(T, x, LateUses)
    <2>1. \A d \in DOMAIN w.tx : /\ d \in DOMAIN x.tx
                                 /\ Fresh(x, d) => Fresh(w, d)
                                 /\ Last(T, x.tx, d) = Last(S, w.tx, d)
      BY <1>2, <1>6, <1>13, <1>22
    <2>2. QED
      BY <1>7, <2>1, BoundStays
  <1>25. Ghost(T, x, LateUses)
    BY <1>18, <1>21, <1>23, <1>24 DEF Ghost
  <1>26. QED
    BY <1>1, <1>25 DEF GInv, x

LEMMA InitGhost == Init => GInv
  <1> SUFFICES ASSUME Init PROVE GInv
    OBVIOUS
  <1>1. /\ DOMAIN types = {} /\ DOMAIN text = {} /\ LateUses = {} /\ Opened(visits) = {}
    BY WithoutEntries DEF Init, Opened, LateUses
  <1>2. /\ World.ty = types /\ World.tx = text /\ World.open = {}
    BY <1>1, WorldIs
  <1>3. Ghost(<<>>, World, LateUses)
    BY <1>1, <1>2 DEF Ghost, Histories, BasesDone, Agrees, Bound
  <1>4. QED
    BY <1>3 DEF GInv

LEMMA NextGhost ==
  ASSUME TInv, GInv, [Next]_vars
  PROVE  GInv'
  <1>1. TInv'
    BY NextTInv
  <1>2. CASE \E c \in ClassNames, parent \in ClassNames \cup {NoClass} : OpenClass(c, parent)
    BY <1>1, <1>2, AgainBegins, FreshBegins
  <1>3. ASSUME NEW c \in ClassNames, NEW parent \in ClassNames, UnknownParent(c, parent)
        PROVE  GInv'
    <2>1. /\ compiled' = {}
          /\ UNCHANGED <<visits, types, properties, methods, functions, text>>
      BY <1>3 DEF UnknownParent, Throw
    <2>2. World' = World /\ LateUses' = {}
      BY <2>1, SlotsAre DEF World, LateUses
    <2>3. PICK S : Ghost(S, World, LateUses)
      BY DEF GInv
    <2>4. Ghost(S, World', LateUses')
      BY <2>2, <2>3 DEF Ghost, Bound
    <2>5. QED
      BY <2>4 DEF GInv
  <1>4. ASSUME NEW p \in PropNames, NEW t \in Types, DeclProperty(p, t)
        PROVE  GInv'
    <2> DEFINE mb == Property(p, t, FALSE)
    <2>1. AtClass /\ Writes(Top, mb) /\ AddProperty(Top, mb)
      BY <1>4 DEF DeclProperty
    <2>2. mb \in Member /\ mb.kind = "property"
      BY PropertyIsAMember
    <2> HIDE DEF mb
    <2>3. /\ Top = visits[Len(visits)] /\ Top.op = "class" /\ Inner = Len(visits)
          /\ Inner \in DOMAIN visits /\ Top \in ClassVisit
      BY <2>1, ClassOnTop
    <2>4. Follows(Top, mb, text)
      BY <2>1, <2>2, <2>3, WritesFollows
    <2>5. QED
      BY <1>1, <2>1, <2>2, <2>3, <2>4, AddsGhost
  <1>5. ASSUME CloseInitializer
        PROVE  GInv'
    <2>1. AtMember("property") /\ AddProperty(visits[Inner], Top.member)
      BY <1>5 DEF CloseInitializer
    <2>2. /\ Top = visits[Len(visits)] /\ Top.op = "member"
          /\ Top.member \in Member /\ Top.member.kind = "property"
          /\ Inner = Len(visits) - 1 /\ Inner \in DOMAIN visits
          /\ visits[Inner].op = "class"
          /\ Follows(visits[Inner], Top.member, text)
      BY <2>1, ClassOfMember
    <2>3. QED
      BY <1>1, <2>1, <2>2, AddsGhost
  <1>6. CASE \E p \in PropNames, t \in Types : OpenInitializer(p, t)
    BY <1>6, OpenInitializerGhost
  <1>7. CASE \E m \in MethodNames : OpenMethod(m)
    BY <1>1, <1>7, OpenMethodGhost
  <1>8. CASE CloseMethod
    BY <1>1, <1>8, CloseMethodGhost
  <1>9. CASE CloseClass
    BY <1>1, <1>9, CloseClassGhost
  <1>10. CASE UsesOfClasses
    BY <1>10, UsesGhost, EarlyUsesGhost
  <1>11. CASE UNCHANGED vars
    <2>1. World' = World /\ LateUses' = LateUses
      BY <1>11, SlotsAre DEF vars, World
    <2>2. QED
      BY <2>1 DEF GInv
  <1>12. QED
    BY <1>2, <1>3, <1>4, <1>5, <1>6, <1>7, <1>8, <1>9, <1>10, <1>11
    DEF Next, Declarations, Failed
-----------------------------------------------------------------------------
(* What holds of every class that is all there.                            *)

LEMMA OneByOne ==
  ASSUME NEW s, Whole(s)
  PROVE  /\ {s.p[x] : x \in DOMAIN s.p} = DOMAIN s.e
         /\ Cardinality(DOMAIN s.p) = Len(s.e)
  <1> DEFINE p == s.p
             n == Len(s.e)
             D == DOMAIN p
  <1>1. /\ p = [x \in D |-> p[x]] /\ IsFiniteSet(D) /\ Numbers(p, s.e)
        /\ s.e \in Seq(Types)
    BY DEF Whole, PropertyEntry, IsAMap
  <1>2. n \in Nat /\ DOMAIN s.e = 1 .. n
    BY <1>1
  <1>3. /\ \A x, y \in D : p[x] = p[y] => x = y
        /\ \A x \in D : p[x] \in 1 .. n
        /\ \A i \in 1 .. n : \E x \in D : p[x] = i
    BY <1>1, <1>2 DEF Numbers
  <1>4. {p[x] : x \in D} = 1 .. n
    BY <1>3
  <1> HIDE DEF p, n, D
  <1>5. p \in [D -> 1 .. n]
    BY <1>1, <1>3
  <1>6. ExistsBijection(D, 1 .. n)
    BY <1>3, <1>5 DEF ExistsBijection, Bijection, Injection, Surjection, IsInjective
  <1>7. Cardinality(1 .. n) = Cardinality(D)
    BY <1>1, <1>6, FS_Bijection
  <1>8. Cardinality(1 .. n) = n
    BY <1>2, FS_Interval
  <1>9. QED
    BY <1>2, <1>4, <1>7, <1>8 DEF p, n, D

\* A class that is all there has what it has in the end.
LEMMA FinishedHas ==
  ASSUME TInv, NEW S, Ghost(S, World, LateUses), NEW c, Finished(c)
  PROVE  LET z == Last(S, text, c)
         IN  /\ Whole(z) /\ Entry(properties, c) = z.p /\ types[c].elems = z.e
             /\ ~EarlyUses => Entry(methods, c) = z.g
             /\ c \in DOMAIN text /\ ~Fresh(World, c)
  <1>1. /\ World.ty = types /\ World.pr = properties /\ World.me = Slots /\ World.tx = text
        /\ Texts(text, types) /\ Histories(S, text) /\ Agrees(S, World)
    BY WorldIs DEF Ghost, TInv, Kinds
  <1>2. Closed(World, c)
    BY FinishedIs
  <1>3. c \in DOMAIN text /\ c \in DOMAIN types
    BY <1>1, <1>2 DEF Closed, Texts
  <1>4. Whole(Last(S, text, c))
    BY <1>1, <1>3, LastIs
  <1>5. /\ Has(World, c, Last(S, text, c)) /\ types[c].elems = Last(S, text, c).e
    BY <1>1, <1>2, <1>3 DEF Agrees
  <1>6. QED
    BY <1>1, <1>2, <1>3, <1>4, <1>5, SlotsAre DEF Has, Closed, Fresh

\* The slots of a class number its methods, at any time: an entry is inherited as a whole,
\* and a method that is entered takes the slot it overrides or the next.
SlotsNumbered == \A c \in ClassNames : NumbersSlots(Entry(methods, c))

LEMMA InitSlots == Init => SlotsNumbered
  <1>1. IsFiniteSet({}) /\ Cardinality({}) = 0
    BY FS_EmptySet
  <1>2. NumbersSlots(NoEntries)
    BY <1>1 DEF NumbersSlots, NoEntries
  <1>3. QED
    BY <1>2 DEF Init, SlotsNumbered, Entry, NoEntries

LEMMA NextSlots ==
  ASSUME TInv, SlotsNumbered, [Next]_vars
  PROVE  SlotsNumbered'
  <1>1. ASSUME NEW c \in ClassNames, NEW parent \in ClassNames \cup {NoClass},
               OpenClass(c, parent), NEW x \in ClassNames
        PROVE  NumbersSlots(Entry(methods', x))
    <2>1. methods' = Inherited(methods, c, parent)
      BY <1>1 DEF OpenClass
    <2>2. Entry(methods', x)
            = IF x = c /\ parent # NoClass THEN Entry(methods, parent) ELSE Entry(methods, x)
      BY <2>1, EntryInherited
    <2>3. QED
      BY <1>1, <2>2 DEF SlotsNumbered
  <1>2. ASSUME CloseMethod, NEW x \in ClassNames
        PROVE  NumbersSlots(Entry(methods', x))
    <2> DEFINE c     == visits[Inner].name
               m     == Top.member.name
               entry == Entry(methods, c)
               new   == With(entry, m, Entered(entry, c, m))
    <2>1. AtMember("method") /\ methods' = With(methods, c, new)
      BY <1>2 DEF CloseMethod, Entered
    <2>2. c \in ClassNames /\ m \in MethodNames
      BY <2>1, ClassOfMember DEF Member
    <2> HIDE DEF c, m
    <2>3. MethodEntry(entry) /\ NumbersSlots(entry)
      BY <2>2 DEF TInv, Tables, SlotsNumbered
    <2> HIDE DEF entry
    <2>4. NumbersSlots(new)
      BY <2>2, <2>3, SlotsGoOn
    <2> HIDE DEF new
    <2>5. Entry(methods', x) = IF x = c THEN new ELSE Entry(methods, x)
      BY <2>1, EntryWith
    <2>6. QED
      BY <2>4, <2>5 DEF SlotsNumbered
  <1>3. CASE UNCHANGED methods
    BY <1>3 DEF SlotsNumbered, Entry
  <1>4. UsesOfClasses \/ Failed \/ UNCHANGED vars => UNCHANGED methods
    BY DEF UsesOfClasses, UseProperty, UseMethod, New, Delete, Compiles, Unresolved, Throw,
           Failed, vars
  <1>5. Declarations => \/ \E c \in ClassNames, parent \in ClassNames \cup {NoClass} :
                             OpenClass(c, parent)
                        \/ CloseMethod
                        \/ UNCHANGED methods
    BY DEF Declarations, UnknownParent, Throw, DeclProperty, OpenInitializer,
           CloseInitializer, AddProperty, OpenMethod, CloseClass
  <1>6. QED
    BY <1>1, <1>2, <1>3, <1>4, <1>5 DEF Next, SlotsNumbered

LEMMA LayoutFollows ==
  ASSUME TInv, SlotsNumbered, GInv
  PROVE  LayoutAgrees
  <1>1. PICK S : Ghost(S, World, LateUses)
    BY DEF GInv
  <1>2. ASSUME NEW c \in ClassNames, Finished(c)
        PROVE  LET position == Entry(properties, c)
                   method   == Entry(methods, c)
               IN  /\ {position[p] : p \in DOMAIN position} = DOMAIN types[c].elems
                   /\ Cardinality(DOMAIN position) = Len(types[c].elems)
                   /\ {method[m].slot : m \in DOMAIN method} = 1 .. Cardinality(DOMAIN method)
    <2> DEFINE z == Last(S, text, c)
    <2>1. Whole(z) /\ Entry(properties, c) = z.p /\ types[c].elems = z.e
      BY <1>1, <1>2, FinishedHas
    <2> HIDE DEF z
    <2>2. /\ {z.p[x] : x \in DOMAIN z.p} = DOMAIN z.e
          /\ Cardinality(DOMAIN z.p) = Len(z.e)
      BY <2>1, OneByOne
    <2>3. LET method == Entry(methods, c)
          IN  {method[m].slot : m \in DOMAIN method} = 1 .. Cardinality(DOMAIN method)
      BY <1>2 DEF SlotsNumbered, NumbersSlots
    <2>4. QED
      BY <2>1, <2>2, <2>3
  <1>3. QED
    BY <1>2 DEF LayoutAgrees

\* What a finished class has of its parent.
LEMMA ParentIn ==
  ASSUME TInv, NEW S, Ghost(S, World, LateUses), NEW c \in ClassNames, Finished(c),
         text[c].parent # NoClass, Finished(text[c].parent)
  PROVE  LET y == Last(S, text, text[c].parent)
             z == Last(S, text, c)
         IN  /\ Extends(y, z, c)
             /\ Keeps(y, z, text[c].members, Len(text[c].members))
  <1> DEFINE parent == text[c].parent
             z == Last(S, text, c)
             y == Last(S, text, parent)
  <1>1. Whole(z) /\ c \in DOMAIN text
    BY FinishedHas
  <1>2. Histories(S, text) /\ Texts(text, types)
    BY WorldIs DEF Ghost, TInv, Kinds
  <1>3. CASE parent = c
    BY <1>1, <1>3, ExtendsItself DEF Keeps
  <1>4. CASE parent # c
    <2>1. First(S, text, c) = y
      BY <1>4 DEF First
    <2>2. /\ Extends(First(S, text, c), z, c)
          /\ Keeps(First(S, text, c), z, text[c].members, Len(text[c].members))
      BY <1>1, <1>2, LastIs
    <2>3. QED
      BY <2>1, <2>2
  <1>5. QED
    BY <1>3, <1>4

LEMMA ParentFollows ==
  ASSUME TInv, GInv
  PROVE  ParentWithin
  <1>1. PICK S : Ghost(S, World, LateUses)
    BY DEF GInv
  <1>2. ASSUME NEW c \in ClassNames, Finished(c), text[c].parent # NoClass,
               Finished(text[c].parent)
        PROVE  LET parent == text[c].parent
                   inner  == types[parent].elems
                   outer  == types[c].elems
               IN  /\ Len(inner) <= Len(outer)
                   /\ \A p \in DOMAIN Entry(properties, parent) :
                        /\ p \in DOMAIN Entry(properties, c)
                        /\ properties[c][p] = properties[parent][p]
                        /\ p \notin Retyped(c) =>
                             outer[properties[c][p]] = inner[properties[c][p]]
                   /\ Retyped(c) = {} => SubSeq(outer, 1, Len(inner)) = inner
    <2> DEFINE parent == text[c].parent
               ms == text[c].members
               z == Last(S, text, c)
               y == Last(S, text, parent)
    <2>1. Whole(z) /\ Entry(properties, c) = z.p /\ types[c].elems = z.e /\ c \in DOMAIN text
      BY <1>1, <1>2, FinishedHas
    <2>2. Whole(y) /\ Entry(properties, parent) = y.p /\ types[parent].elems = y.e
      BY <1>1, <1>2, FinishedHas
    <2>3. Extends(y, z, c) /\ Keeps(y, z, ms, Len(ms))
      BY <1>1, <1>2, ParentIn
    <2>4. ms \in Seq(Member)
      BY <2>1 DEF TInv, Kinds, Texts, Text
    <2>5. DOMAIN ms = 1 .. Len(ms)
      BY <2>4
    <2>6. Retyped(c) = {p \in DOMAIN Entry(properties, parent) :
                          \E i \in DOMAIN ms : /\ ms[i].kind = "property" /\ ms[i].name = p
                                              /\ ms[i].type # types[parent].elems[properties[parent][p]]}
      BY DEF Retyped
    <2> HIDE DEF parent, ms, y, z
    <2>7. \A d, p : p \in DOMAIN Entry(properties, d) => properties[d] = Entry(properties, d)
      BY WithoutEntries DEF Entry
    <2>8. Len(y.e) <= Len(z.e) /\ y.e \in Seq(Types) /\ z.e \in Seq(Types)
      BY <2>1, <2>2, <2>3 DEF Extends, Whole
    <2>9. ASSUME NEW p \in DOMAIN y.p
          PROVE  /\ p \in DOMAIN z.p /\ z.p[p] = y.p[p]
                 /\ properties[parent][p] = y.p[p] /\ properties[c][p] = y.p[p]
                 /\ p \notin Retyped(c) => z.e[y.p[p]] = y.e[y.p[p]]
      <3>1. p \in DOMAIN z.p /\ z.p[p] = y.p[p]
        BY <2>3 DEF Extends
      <3>2. properties[parent][p] = y.p[p] /\ properties[c][p] = y.p[p]
        BY <2>1, <2>2, <2>7, <3>1
      <3>3. ASSUME p \notin Retyped(c)
            PROVE  z.e[y.p[p]] = y.e[y.p[p]]
        <4>1. Untyped(ms, Len(ms), p, y.e[y.p[p]])
          BY <2>2, <2>5, <2>6, <3>2, <3>3 DEF Untyped
        <4>2. QED
          BY <2>3, <4>1 DEF Keeps
      <3>4. QED
        BY <3>1, <3>2, <3>3
    <2>10. ASSUME Retyped(c) = {}
           PROVE  SubSeq(z.e, 1, Len(y.e)) = y.e
      <3>1. ASSUME NEW n \in DOMAIN y.e
            PROVE  z.e[n] = y.e[n]
        <4>1. PICK p \in DOMAIN y.p : y.p[p] = n
          BY <2>2 DEF Whole, Numbers
        <4>2. QED
          BY <2>9, <2>10, <4>1
      <3> DEFINE inner == y.e
                 outer == z.e
      <3>2. /\ inner \in Seq(Types) /\ outer \in Seq(Types) /\ Len(inner) <= Len(outer)
            /\ \A n \in 1 .. Len(inner) : outer[n] = inner[n]
        BY <2>8, <3>1
      <3> HIDE DEF inner, outer
      <3>3. SubSeq(outer, 1, Len(inner)) = inner
        BY <3>2
      <3>4. QED
        BY <3>3 DEF inner, outer
    <2>11. /\ Len(types[parent].elems) <= Len(types[c].elems)
           /\ \A p \in DOMAIN Entry(properties, parent) :
                /\ p \in DOMAIN Entry(properties, c)
                /\ properties[c][p] = properties[parent][p]
                /\ p \notin Retyped(c) =>
                     types[c].elems[properties[c][p]] = types[parent].elems[properties[c][p]]
           /\ Retyped(c) = {} =>
                SubSeq(types[c].elems, 1, Len(types[parent].elems)) = types[parent].elems
      BY <2>1, <2>2, <2>8, <2>9, <2>10
    <2>12. QED
      BY <2>11 DEF parent
  <1>3. QED
    BY <1>2 DEF ParentWithin

LEMMA SlotsFollow ==
  ASSUME TInv, GInv, ~EarlyUses
  PROVE  SlotsWithin
  <1>1. PICK S : Ghost(S, World, LateUses)
    BY DEF GInv
  <1>2. ASSUME NEW c \in ClassNames, Finished(c), text[c].parent # NoClass,
               Finished(text[c].parent), NEW m \in DOMAIN Entry(methods, text[c].parent)
        PROVE  /\ m \in DOMAIN Entry(methods, c)
               /\ methods[c][m].slot = methods[text[c].parent][m].slot
    <2> DEFINE parent == text[c].parent
               z == Last(S, text, c)
               y == Last(S, text, parent)
    <2>1. Entry(methods, c) = z.g /\ Entry(methods, parent) = y.g
      BY <1>1, <1>2, FinishedHas
    <2>2. Extends(y, z, c)
      BY <1>1, <1>2, ParentIn
    <2>3. m \in DOMAIN z.g /\ z.g[m].slot = y.g[m].slot
      BY <1>2, <2>1, <2>2 DEF Extends
    <2> HIDE DEF parent, y, z
    <2>4. \A d : m \in DOMAIN Entry(methods, d) => methods[d] = Entry(methods, d)
      BY WithoutEntries DEF Entry
    <2>5. QED
      BY <1>2, <2>1, <2>3, <2>4 DEF parent
  <1>3. QED
    BY <1>2 DEF SlotsWithin

LEMMA UsesFollow ==
  ASSUME TInv, GInv, ~EarlyUses
  PROVE  UsesUpToDate
  <1>1. PICK S : Ghost(S, World, LateUses)
    BY DEF GInv
  <1>2. ASSUME NEW u \in compiled, Finished(u.class)
        PROVE  u.target = IF u.target[1] = "at" THEN AtPosition(u.class, u.member)
                          ELSE Calls(u.class, u.member)
    <2> DEFINE c == u.class
               z == Last(S, text, c)
    <2>1. /\ Entry(properties, c) = z.p /\ Entry(methods, c) = z.g /\ ~Fresh(World, c)
      BY <1>1, <1>2, FinishedHas
    <2>2. /\ World.tx = text /\ BoundTo(S, World, u)
      BY <1>1, WorldIs DEF Ghost, Bound, LateUses
    <2>3. \/ u.member \in DOMAIN z.p /\ u.target = <<"at", z.p[u.member]>>
          \/ u.member \in DOMAIN z.g /\ u.target = <<"calls", z.g[u.member].function>>
          \/ u.member \notin DOMAIN z.g /\ u.target = <<"skips">>
      BY <2>2 DEF BoundTo
    <2> HIDE DEF z, c
    <2>4. /\ u.member \in DOMAIN z.p => c \in DOMAIN properties /\ properties[c] = z.p
          /\ u.member \in DOMAIN z.g => c \in DOMAIN methods /\ methods[c] = z.g
          /\ c \in DOMAIN methods => methods[c] = z.g
      BY <2>1, WithoutEntries DEF Entry
    <2>5. CASE u.member \in DOMAIN z.p /\ u.target = <<"at", z.p[u.member]>>
      BY <2>4, <2>5 DEF AtPosition, c
    <2>6. CASE u.member \in DOMAIN z.g /\ u.target = <<"calls", z.g[u.member].function>>
      <3>1. u.target[1] # "at"
        BY <2>6
      <3>2. u.target = Calls(u.class, u.member)
        BY <2>4, <2>6 DEF Calls, c
      <3>3. QED
        BY <3>1, <3>2
    <2>7. CASE u.member \notin DOMAIN z.g /\ u.target = <<"skips">>
      <3>1. u.target[1] # "at"
        BY <2>7
      <3>2. u.target = Calls(u.class, u.member)
        BY <2>4, <2>7 DEF Calls, c
      <3>3. QED
        BY <3>1, <3>2
    <2>8. QED
      BY <2>3, <2>5, <2>6, <2>7
  <1>3. QED
    BY <1>2 DEF UsesUpToDate

\* The inductive invariant, of which the layouts after every member are the ghost.
THEOREM ClassesInvariance == Spec => [](TInv /\ SlotsNumbered /\ GInv)
  <1>1. Init => TInv /\ SlotsNumbered /\ GInv
    BY InitTInv, InitSlots, InitGhost
  <1>2. TInv /\ SlotsNumbered /\ GInv /\ [Next]_vars => (TInv /\ SlotsNumbered /\ GInv)'
    BY NextTInv, NextSlots, NextGhost
  <1>3. QED
    BY <1>1, <1>2, PTL DEF Spec

\* The positions of every class number the elements of its struct, and its slots the
\* methods: whatever a class extends and overrides, however often it is declared again,
\* and wherever it is used before its declaration is left.
THEOREM LayoutsAgree == Spec => []LayoutAgrees
  <1>1. TInv /\ SlotsNumbered /\ GInv => LayoutAgrees
    BY LayoutFollows
  <1>2. QED
    BY <1>1, ClassesInvariance, PTL

\* Every property of a parent is at the same position in the classes that extend it, and
\* of the same type where the class does not hide it with another: whatever else they
\* declare, a class that retypes nothing has a struct that begins with its parent's, which
\* is what the cast of invokeFunction() takes for granted (codegen.cpp:1439).
THEOREM ParentsWithin == Spec => []ParentWithin
  <1>1. TInv /\ GInv => ParentWithin
    BY ParentFollows
  <1>2. QED
    BY <1>1, ClassesInvariance, PTL

\* Every method of a parent has the same slot in the classes that extend it, when nothing
\* of a class is used, or inherited, before it is declared.
THEOREM SlotsStayWithin == EarlyUses = FALSE => (Spec => []SlotsWithin)
  <1> SUFFICES ASSUME EarlyUses = FALSE PROVE Spec => []SlotsWithin
    OBVIOUS
  <1>1. TInv /\ GInv => SlotsWithin
    BY SlotsFollow
  <1>2. QED
    BY <1>1, ClassesInvariance, PTL

\* What a use of a class was bound to when it was compiled, in a method of the class or in
\* another class or function, is what the class has in the end, when nothing of a class is
\* used before it is declared.
THEOREM UsesStayUpToDate == EarlyUses = FALSE => (Spec => []UsesUpToDate)
  <1> SUFFICES ASSUME EarlyUses = FALSE PROVE Spec => []UsesUpToDate
    OBVIOUS
  <1>1. TInv /\ GInv => UsesUpToDate
    BY UsesFollow
  <1>2. QED
    BY <1>1, ClassesInvariance, PTL
-----------------------------------------------------------------------------
(* The refinement of Objects.                                              *)

\* The fields that a class shows: the elements that were laid out, or, if those do not
\* reach that far yet, the old ones of its struct.
Shape(entry, elems, old) ==
  [p \in DOMAIN entry |-> IF entry[p] \in DOMAIN elems THEN elems[entry[p]]
                          ELSE old[entry[p]]]

LEMMA TypeAtIs ==
  ASSUME TInv, NEW c, NEW n
  PROVE  /\ \A a \in Opened(visits) : a.name = c =>
              TypeAt(c, n) = IF n \in DOMAIN a.elems THEN a.elems[n] ELSE types[c].elems[n]
         /\ (\A a \in Opened(visits) : a.name # c) => TypeAt(c, n) = types[c].elems[n]
  <1> DEFINE I == {j \in DOMAIN visits : visits[j].op = "class" /\ visits[j].name = c}
             at(i) == {visits[i].elems[n] : x \in {n} \cap DOMAIN visits[i].elems}
             built == UNION {at(i) : i \in I}
  <1>1. TypeAt(c, n) = IF built # {} THEN CHOOSE type \in built : TRUE ELSE types[c].elems[n]
    BY DEF TypeAt
  <1>2. visits \in Visits /\ Stacked(visits, text)
    BY DEF TInv, Kinds
  <1>3. ASSUME NEW a \in Opened(visits), a.name = c
        PROVE  TypeAt(c, n) = IF n \in DOMAIN a.elems THEN a.elems[n] ELSE types[c].elems[n]
    <2>1. PICK i \in DOMAIN visits : a = visits[i] /\ visits[i].op = "class"
      BY <1>2, OpenedIs
    <2>2. \A j \in I : j = i
      BY <1>2, <1>3, <2>1 DEF Stacked
    <2>3. i \in I
      BY <1>3, <2>1
    <2> HIDE DEF I
    <2>4. built = at(i)
      <3> HIDE DEF at
      <3>1. \A X \in {at(j) : j \in I} : X = at(i)
        BY <2>2
      <3>2. at(i) \in {at(j) : j \in I}
        BY <2>3
      <3>3. QED
        BY <3>1, <3>2
    <2>5. CASE n \in DOMAIN a.elems
      <3>1. at(i) = {a.elems[n]}
        BY <2>1, <2>5
      <3> HIDE DEF at, built
      <3>2. QED
        BY <1>1, <2>4, <2>5, <3>1
    <2>6. CASE n \notin DOMAIN a.elems
      <3>1. at(i) = {}
        BY <2>1, <2>6
      <3> HIDE DEF at, built
      <3>2. QED
        BY <1>1, <2>4, <2>6, <3>1
    <2>7. QED
      BY <2>5, <2>6
  <1>4. ASSUME \A a \in Opened(visits) : a.name # c
        PROVE  TypeAt(c, n) = types[c].elems[n]
    <2>1. I = {}
      BY <1>2, <1>4, OpenedIs
    <2> HIDE DEF I, at
    <2>2. built = {}
      BY <2>1
    <2> HIDE DEF built
    <2>3. QED
      BY <1>1, <2>2
  <1>5. QED
    BY <1>3, <1>4

\* What a class shows: from its visit, or from its struct alone.
Showing ==
  \A c \in ClassNames :
    /\ \A a \in Opened(visits) : a.name = c =>
         Fields[c] = Shape(Entry(properties, c), a.elems, types[c].elems)
    /\ (\A a \in Opened(visits) : a.name # c) =>
         Fields[c] = Shape(Entry(properties, c), types[c].elems, types[c].elems)

Running ==
  \A c \in ClassNames :
    Runs[c] = [m \in DOMAIN Entry(methods, c) |-> Entry(methods, c)[m].function.class]

LEMMA ShowingIs ==
  /\ TInv => Showing
  /\ Running
  /\ Fields = [c \in ClassNames |-> Fields[c]] /\ Runs = [c \in ClassNames |-> Runs[c]]
  <1>1. ASSUME TInv, NEW c \in ClassNames, NEW a \in Opened(visits), a.name = c
        PROVE  Fields[c] = Shape(Entry(properties, c), a.elems, types[c].elems)
    <2> DEFINE entry == Entry(properties, c)
    <2>1. Fields[c] = [p \in DOMAIN entry |-> TypeAt(c, entry[p])]
      BY DEF Fields
    <2> HIDE DEF entry
    <2>2. \A p \in DOMAIN entry :
            TypeAt(c, entry[p]) = IF entry[p] \in DOMAIN a.elems THEN a.elems[entry[p]]
                                  ELSE types[c].elems[entry[p]]
      BY <1>1, TypeAtIs
    <2>3. QED
      BY <2>1, <2>2 DEF Shape, entry
  <1>2. ASSUME TInv, NEW c \in ClassNames, \A a \in Opened(visits) : a.name # c
        PROVE  Fields[c] = Shape(Entry(properties, c), types[c].elems, types[c].elems)
    <2> DEFINE entry == Entry(properties, c)
    <2>1. Fields[c] = [p \in DOMAIN entry |-> TypeAt(c, entry[p])]
      BY DEF Fields
    <2> HIDE DEF entry
    <2>2. \A p \in DOMAIN entry : TypeAt(c, entry[p]) = types[c].elems[entry[p]]
      BY <1>2, TypeAtIs
    <2>3. QED
      BY <2>1, <2>2 DEF Shape, entry
  <1>3. TInv => Showing
    BY <1>1, <1>2 DEF Showing
  <1>4. Running
    BY DEF Running, Runs
  <1>5. Fields = [c \in ClassNames |-> Fields[c]] /\ Runs = [c \in ClassNames |-> Runs[c]]
    BY DEF Fields, Runs
  <1>6. QED
    BY <1>3, <1>4, <1>5

LEMMA ShowingNext ==
  /\ TInv' => Showing'
  /\ Running'
  /\ Fields' = [c \in ClassNames |-> Fields'[c]] /\ Runs' = [c \in ClassNames |-> Runs'[c]]
  <1>1. (TInv => Showing)' /\ Running'
    <2>1. (TInv => Showing) /\ Running
      BY ShowingIs
    <2>2. QED
      BY <2>1, PTL
  <1>2. TInv' => Showing'
    BY <1>1
  <1>3. Fields' = [c \in ClassNames |-> Fields'[c]] /\ Runs' = [c \in ClassNames |-> Runs'[c]]
    BY DEF Fields, Runs
  <1>4. QED
    BY <1>1, <1>2, <1>3

\* What the elements all reach does not depend on the old ones.
LEMMA ShapeAlone ==
  ASSUME NEW entry, NEW elems, NEW old, \A p \in DOMAIN entry : entry[p] \in DOMAIN elems
  PROVE  Shape(entry, elems, old) = Shape(entry, elems, elems)
  BY DEF Shape

LEMMA ShapeOld ==
  ASSUME NEW entry, NEW elems
  PROVE  Shape(entry, <<>>, elems) = Shape(entry, elems, elems)
  <1>1. DOMAIN <<>> = {}
    OBVIOUS
  <1>2. QED
    BY <1>1 DEF Shape

LEMMA ShapeEmpty ==
  ASSUME NEW entry, DOMAIN entry = {}, NEW elems, NEW old, NEW other, NEW rest
  PROVE  Shape(entry, elems, old) = Shape(entry, other, rest)
  BY DEF Shape

\* A property is shown over what was shown.
Fits(entry, elems, x, t, n) ==
  /\ elems \in Seq(Types) /\ t \in Types /\ n \in 1 .. Len(elems) + 1
  /\ \A p \in DOMAIN entry : p # x => entry[p] # n

LEMMA ShapeGrows ==
  ASSUME NEW entry, NEW elems, NEW old, NEW x, NEW t, NEW n, Fits(entry, elems, x, t, n)
  PROVE  Shape(With(entry, x, n), Laid(elems, n, t), old) = With(Shape(entry, elems, old), x, t)
  <1> DEFINE e == With(entry, x, n)
             laid == Laid(elems, n, t)
  <1>0. /\ elems \in Seq(Types) /\ t \in Types /\ n \in 1 .. Len(elems) + 1
        /\ \A p \in DOMAIN entry : p # x => entry[p] # n
    BY DEF Fits
  <1>1. /\ DOMAIN e = DOMAIN entry \cup {x} /\ e[x] = n
        /\ \A p \in DOMAIN entry : p # x => e[p] = entry[p]
    BY DEF With
  <1>2. /\ laid[n] = t
        /\ \A i \in DOMAIN elems : i # n => laid[i] = elems[i]
        /\ n = Len(elems) + 1 => Len(laid) = n
        /\ n # Len(elems) + 1 => Len(laid) = Len(elems)
        /\ DOMAIN laid = 1 .. Len(laid) /\ DOMAIN elems = 1 .. Len(elems)
        /\ Len(elems) \in Nat
    BY <1>0, LaidIs
  <1> HIDE DEF laid
  <1>3. /\ n \in DOMAIN laid
        /\ \A i \in DOMAIN elems : i \in DOMAIN laid
        /\ \A i \in DOMAIN laid : i = n \/ i \in DOMAIN elems
    <2> DEFINE k == Len(elems)
               l == Len(laid)
    <2>1. k \in Nat /\ n \in 1 .. k + 1 /\ (n = k + 1 => l = n) /\ (n # k + 1 => l = k)
      BY <1>0, <1>2
    <2> HIDE DEF k, l
    <2>2. n \in 1 .. l /\ (\A i \in 1 .. k : i \in 1 .. l) /\ \A i \in 1 .. l : i = n \/ i \in 1 .. k
      BY <2>1
    <2>3. QED
      BY <1>2, <2>2 DEF k, l
  <1> HIDE DEF e
  <1> DEFINE new(p) == IF e[p] \in DOMAIN laid THEN laid[e[p]] ELSE old[e[p]]
             was(p) == IF entry[p] \in DOMAIN elems THEN elems[entry[p]] ELSE old[entry[p]]
  <1>4. new(x) = t
    BY <1>1, <1>2, <1>3
  <1>5. \A p \in DOMAIN entry : p # x => new(p) = was(p)
    BY <1>0, <1>1, <1>2, <1>3
  <1>6. Shape(e, laid, old) = [p \in DOMAIN entry \cup {x} |-> new(p)]
    BY <1>1 DEF Shape
  <1>7. Shape(entry, elems, old) = [p \in DOMAIN entry |-> was(p)]
    BY DEF Shape
  <1> HIDE DEF new, was
  <1> DEFINE F == Shape(entry, elems, old)
  <1>8. With(F, x, t) = [p \in DOMAIN entry \cup {x} |-> IF p = x THEN t ELSE was(p)]
    <2>1. DOMAIN F = DOMAIN entry /\ \A p \in DOMAIN entry : F[p] = was(p)
      BY <1>7
    <2> HIDE DEF F
    <2>2. With(F, x, t) = [p \in DOMAIN F \cup {x} |-> IF p = x THEN t ELSE F[p]]
      BY DEF With
    <2>3. QED
      BY <2>1, <2>2
  <1>9. QED
    BY <1>4, <1>5, <1>6, <1>8 DEF e, laid

\* A class that a step does not touch shows what it showed.
LEMMA ShowsTheSame ==
  ASSUME TInv, TInv', NEW d \in ClassNames,
         \A a : a.name = d => (a \in Opened(visits') <=> a \in Opened(visits)),
         Entry(properties', d) = Entry(properties, d),
         d \in DOMAIN types => types'[d] = types[d]
  PROVE  Fields'[d] = Fields[d]
  <1>1. Showing /\ Showing'
    BY ShowingIs, ShowingNext
  <1> DEFINE entry == Entry(properties, d)
  <1>2. CASE d \in DOMAIN types
    <2>1. CASE \E a \in Opened(visits) : a.name = d
      <3>1. PICK a \in Opened(visits) : a.name = d
        BY <2>1
      <3>2. Fields[d] = Shape(entry, a.elems, types[d].elems)
        BY <1>1, <3>1 DEF Showing
      <3>3. Fields'[d] = Shape(Entry(properties', d), a.elems, types'[d].elems)
        BY <1>1, <3>1 DEF Showing
      <3>4. QED
        BY <1>2, <3>2, <3>3
    <2>2. CASE \A a \in Opened(visits) : a.name # d
      <3>1. Fields[d] = Shape(entry, types[d].elems, types[d].elems)
        BY <1>1, <2>2 DEF Showing
      <3>2. Fields'[d] = Shape(Entry(properties', d), types'[d].elems, types'[d].elems)
        BY <1>1, <2>2 DEF Showing
      <3>3. QED
        BY <1>2, <3>1, <3>2
    <2>3. QED
      BY <2>1, <2>2
  <1>3. CASE d \notin DOMAIN types
    <2>1. \A a \in Opened(visits) : a.name # d
      BY <1>3, WorldIs DEF Sound, ClassLaw, Texts
    <2>2. DOMAIN entry = {}
      BY <1>3, WithoutEntries DEF TInv, Tables, Entry
    <2>3. Fields[d] = Shape(entry, types[d].elems, types[d].elems)
      BY <1>1, <2>1 DEF Showing
    <2>4. Fields'[d] = Shape(entry, types'[d].elems, types'[d].elems)
      BY <1>1, <2>1 DEF Showing
    <2> HIDE DEF entry
    <2>5. QED
      BY <2>2, <2>3, <2>4, ShapeEmpty
  <1>4. QED
    BY <1>2, <1>3

LEMMA RunsTheSame ==
  ASSUME NEW d \in ClassNames, Entry(methods', d) = Entry(methods, d)
  PROVE  Runs'[d] = Runs[d]
  BY ShowingIs, ShowingNext DEF Running

\* A function of the classes that changes at one, or at none.
LEMMA OnlyAt ==
  ASSUME NEW f, NEW g, NEW c \in ClassNames,
         f = [d \in ClassNames |-> f[d]], g = [d \in ClassNames |-> g[d]],
         \A d \in ClassNames : d # c => g[d] = f[d]
  PROVE  g = [f EXCEPT ![c] = g[c]]
  OBVIOUS

LEMMA Nowhere ==
  ASSUME NEW f, NEW g,
         f = [d \in ClassNames |-> f[d]], g = [d \in ClassNames |-> g[d]],
         \A d \in ClassNames : g[d] = f[d]
  PROVE  g = f
  OBVIOUS

\* How far a class is: from its visit, or from its text alone.
Staging ==
  \A c \in ClassNames :
    /\ c \notin DOMAIN types =>
         Stage[c] = "unknown" /\ Done[c] = 0 /\ Said[c] = [parent |-> NoClass, members |-> <<>>]
    /\ c \in DOMAIN types =>
         Said[c] = [parent |-> text[c].parent, members |-> text[c].members]
    /\ \A a \in Opened(visits) : a.name = c =>
         Stage[c] = (IF a.again THEN "again" ELSE "first") /\ Done[c] = a.member
    /\ c \in DOMAIN types /\ (\A a \in Opened(visits) : a.name # c) =>
         Stage[c] = "declared" /\ Done[c] = Len(text[c].members)

LEMMA StagingIs ==
  /\ TInv => Staging
  /\ Stage = [c \in ClassNames |-> Stage[c]] /\ Said = [c \in ClassNames |-> Said[c]]
  /\ Done = [c \in ClassNames |-> Done[c]]
  <1>1. ASSUME TInv, NEW c \in ClassNames
        PROVE  /\ c \notin DOMAIN types =>
                    /\ Stage[c] = "unknown" /\ Done[c] = 0
                    /\ Said[c] = [parent |-> NoClass, members |-> <<>>]
               /\ c \in DOMAIN types =>
                    Said[c] = [parent |-> text[c].parent, members |-> text[c].members]
    <2>1. DOMAIN text = DOMAIN types
      BY <1>1 DEF TInv, Kinds, Texts
    <2>2. QED
      BY <2>1 DEF Stage, Done, Said
  <1>2. ASSUME TInv, NEW c \in ClassNames, NEW a \in Opened(visits), a.name = c
        PROVE  Stage[c] = (IF a.again THEN "again" ELSE "first") /\ Done[c] = a.member
    <2>1. visits \in Visits /\ Stacked(visits, text) /\ DOMAIN text = DOMAIN types
      BY <1>2 DEF TInv, Kinds, Texts
    <2>2. c \in DOMAIN types
      BY <1>2, <2>1, OneVisit DEF ClassLaw
    <2>3. \A x \in VisitsOf(c) : x \in Opened(visits) /\ x.name = c
      BY DEF VisitsOf, Opened
    <2>4. a \in VisitsOf(c)
      BY <1>2 DEF VisitsOf, Opened
    <2>5. \A x \in VisitsOf(c) : x = a
      BY <1>2, <2>1, <2>3, OneVisit
    <2>6. VisitsOf(c) = {a}
      BY <2>4, <2>5
    <2>7. QED
      BY <2>2, <2>6 DEF Stage, Done
  <1>3. ASSUME TInv, NEW c \in ClassNames, c \in DOMAIN types, \A a \in Opened(visits) : a.name # c
        PROVE  Stage[c] = "declared" /\ Done[c] = Len(text[c].members)
    <2>1. VisitsOf(c) = {}
      BY <1>3 DEF VisitsOf, Opened
    <2>2. QED
      BY <1>3, <2>1 DEF Stage, Done
  <1>4. TInv => Staging
    BY <1>1, <1>2, <1>3 DEF Staging
  <1>5. /\ Stage = [c \in ClassNames |-> Stage[c]] /\ Said = [c \in ClassNames |-> Said[c]]
        /\ Done = [c \in ClassNames |-> Done[c]]
    BY DEF Stage, Said, Done
  <1>6. QED
    BY <1>4, <1>5

LEMMA StagingNext ==
  /\ TInv' => Staging'
  /\ Stage' = [c \in ClassNames |-> Stage'[c]] /\ Said' = [c \in ClassNames |-> Said'[c]]
  /\ Done' = [c \in ClassNames |-> Done'[c]]
  <1>1. (TInv => Staging)'
    <2>1. TInv => Staging
      BY StagingIs
    <2>2. QED
      BY <2>1, PTL
  <1>2. TInv' => Staging'
    BY <1>1
  <1>3. /\ Stage' = [c \in ClassNames |-> Stage'[c]] /\ Said' = [c \in ClassNames |-> Said'[c]]
        /\ Done' = [c \in ClassNames |-> Done'[c]]
    BY DEF Stage, Said, Done
  <1>4. QED
    BY <1>2, <1>3

\* A class that a step does not touch is as far as it was.
LEMMA StaysThere ==
  ASSUME TInv, TInv', NEW d \in ClassNames,
         \A a : a.name = d => (a \in Opened(visits') <=> a \in Opened(visits)),
         d \in DOMAIN types' <=> d \in DOMAIN types,
         d \in DOMAIN types =>
           text'[d].parent = text[d].parent /\ text'[d].members = text[d].members
  PROVE  Stage'[d] = Stage[d] /\ Said'[d] = Said[d] /\ Done'[d] = Done[d]
  <1>1. Staging /\ Staging'
    BY StagingIs, StagingNext
  <1>2. /\ d \notin DOMAIN types =>
             Stage[d] = "unknown" /\ Done[d] = 0 /\ Said[d] = [parent |-> NoClass, members |-> <<>>]
        /\ d \in DOMAIN types =>
             Said[d] = [parent |-> text[d].parent, members |-> text[d].members]
        /\ \A a \in Opened(visits) : a.name = d =>
             Stage[d] = (IF a.again THEN "again" ELSE "first") /\ Done[d] = a.member
        /\ d \in DOMAIN types /\ (\A a \in Opened(visits) : a.name # d) =>
             Stage[d] = "declared" /\ Done[d] = Len(text[d].members)
    BY <1>1 DEF Staging
  <1>3. /\ d \notin DOMAIN types' =>
             Stage'[d] = "unknown" /\ Done'[d] = 0 /\ Said'[d] = [parent |-> NoClass, members |-> <<>>]
        /\ d \in DOMAIN types' =>
             Said'[d] = [parent |-> text'[d].parent, members |-> text'[d].members]
        /\ \A a \in Opened(visits') : a.name = d =>
             Stage'[d] = (IF a.again THEN "again" ELSE "first") /\ Done'[d] = a.member
        /\ d \in DOMAIN types' /\ (\A a \in Opened(visits') : a.name # d) =>
             Stage'[d] = "declared" /\ Done'[d] = Len(text'[d].members)
    BY <1>1 DEF Staging
  <1>4. CASE d \notin DOMAIN types
    BY <1>2, <1>3, <1>4
  <1>5. CASE d \in DOMAIN types /\ \E a \in Opened(visits) : a.name = d
    BY <1>2, <1>3, <1>5
  <1>6. CASE d \in DOMAIN types /\ \A a \in Opened(visits) : a.name # d
    BY <1>2, <1>3, <1>6
  <1>7. QED
    BY <1>4, <1>5, <1>6

Shown == <<Stage, Said, Done, Fields, Runs>>

\* A step that shows the same of all classes.
LEMMA Stutters ==
  ASSUME \A d \in ClassNames : Fields'[d] = Fields[d] /\ Runs'[d] = Runs[d],
         \A d \in ClassNames : Stage'[d] = Stage[d] /\ Said'[d] = Said[d] /\ Done'[d] = Done[d]
  PROVE  UNCHANGED Shown
  <1>1. Fields' = Fields /\ Runs' = Runs
    BY ShowingIs, ShowingNext
  <1>2. Stage' = Stage
    BY StagingIs, StagingNext, Nowhere
  <1>3. Said' = Said
    BY StagingIs, StagingNext, Nowhere
  <1>4. Done' = Done
    BY StagingIs, StagingNext, Nowhere
  <1>5. QED
    BY <1>1, <1>2, <1>3, <1>4 DEF Shown

LEMMA ReplacedOnly ==
  ASSUME NEW S, NEW a, NEW b, b.name = a.name
  PROVE  \A d : d # a.name => \A y : y.name = d => (y \in Replaced(S, a, b) <=> y \in S)
  BY DEF Replaced

LEMMA OnlyFields ==
  ASSUME NEW c \in ClassNames, \A d \in ClassNames : d # c => Fields'[d] = Fields[d]
  PROVE  Fields' = [Fields EXCEPT ![c] = Fields'[c]]
  BY ShowingIs, ShowingNext, OnlyAt

LEMMA OnlyRuns ==
  ASSUME NEW c \in ClassNames, \A d \in ClassNames : d # c => Runs'[d] = Runs[d]
  PROVE  Runs' = [Runs EXCEPT ![c] = Runs'[c]]
  BY ShowingIs, ShowingNext, OnlyAt

\* Nor has one when the class is declared again.
LEMMA AloneAgain ==
  ASSUME NEW s, NEW z, Whole(s), Whole(z), NEW c \in ClassNames,
         NEW mb \in Member, mb.kind = "property", Extends(Grow(s, c, mb), z, c),
         NEW elems \in Seq(Types), NEW parent, NEW prc, NEW mec,
         Replays(elems, parent, c, s, z, prc, mec)
  PROVE  \A p \in DOMAIN prc : p # mb.name => prc[p] # Position(prc, mb.name, elems)
  <1> DEFINE x == mb.name
             n == Position(s.p, x, s.e)
             y == Grow(s, c, mb)
  <1>1. Position(prc, x, elems) = n /\ x \in DOMAIN z.p /\ z.p[x] = n
    BY ReplayedPosition
  <1>2. Whole(y) /\ Extends(s, y, c)
    BY GrowKeepsWhole
  <1> HIDE DEF x, n, y
  <1>3. Extends(s, z, c)
    BY <1>2, ExtendsFurther DEF y
  <1>4. prc = z.p \/ prc = s.p
    BY DEF Replays
  <1>5. \A p \in DOMAIN prc : p \in DOMAIN z.p /\ prc[p] = z.p[p]
    BY <1>3, <1>4 DEF Extends
  <1>6. Numbers(z.p, z.e)
    BY DEF Whole
  <1>7. \A p \in DOMAIN prc : p # x => prc[p] # n
    BY <1>1, <1>5, <1>6 DEF Numbers
  <1>8. QED
    BY <1>1, <1>7 DEF x

\* A property adds a field to its class, over an inherited one.
LEMMA AddsField ==
  ASSUME TInv, GInv, TInv',
         NEW k \in DOMAIN visits, visits[k].op = "class", k = Inner,
         k = Len(visits) \/ (k = Len(visits) - 1 /\ visits[Len(visits)].op = "member"),
         NEW mb \in Member, mb.kind = "property", Follows(visits[k], mb, text),
         AddProperty(visits[k], mb)
  PROVE  LET c == visits[k].name
         IN  Fields' = [Fields EXCEPT ![c] = With(Fields[c], mb.name, mb.type)] /\ Runs' = Runs
  <1> DEFINE a == visits[k]
             c == a.name
             x == mb.name
             entry == Entry(properties, c)
             n == Position(entry, x, a.elems)
             laid == Laid(a.elems, n, mb.type)
             b == Moved(a, laid)
  <1>1. /\ Back(a, laid) /\ Wrote(a, mb)
        /\ properties' = With(properties, c, With(entry, x, n))
        /\ UNCHANGED <<status, types, methods, functions, compiled>>
    BY DEF AddProperty, Laid
  <1>2. a \in ClassVisit /\ a \in Opened(visits) /\ c \in ClassNames
    BY VisitAt, OpenedIs DEF TInv, Kinds, ClassVisit
  <1>3. a.elems \in Seq(Types) /\ mb.type \in Types /\ x \in PropNames
    BY <1>2 DEF ClassVisit, Member
  <1>4. laid \in Seq(Types) /\ n \in 1 .. Len(a.elems) + 1
    <2>1. n \in 1 .. Len(a.elems) + 1
      BY <1>3, PositionIs
    <2> HIDE DEF n
    <2>2. QED
      BY <1>3, <2>1, LaidIs
  <1> HIDE DEF laid
  <1>5. Opened(visits') = Replaced(Opened(visits), a, b)
    BY <1>1, <1>4, Advance
  <1>6. b.name = c /\ b.elems = laid
    BY <1>2, <1>4, MovedIs
  <1>7. PICK S : Ghost(S, World, LateUses)
    BY DEF GInv
  <1> DEFINE w == World
             z == Last(S, text, c)
             s == S[c][a.member]
  <1>8. /\ w.ty = types /\ w.pr = properties /\ w.me = Slots /\ w.tx = text
        /\ w.open = Opened(visits) /\ Sound(w)
    BY <1>1, WorldIs
  <1>9. \A d : Entry(properties', d) = IF d = c THEN With(entry, x, n) ELSE Entry(properties, d)
    BY <1>1, EntryWith
  <1> HIDE DEF b, w, entry, n
  <1>10. /\ VisitAgrees(S, w, a) /\ Histories(S, w.tx) /\ Agrees(S, w)
         /\ ClassLaw(a, text) /\ Texts(text, types)
    BY <1>2, <1>7, <1>8 DEF Ghost, Agrees, w, Sound
  <1>11. \A p \in DOMAIN entry : p # x => entry[p] # n
    <2>1. CASE ~a.again
      <3>1. entry = z.p /\ a.elems = z.e
        BY <1>8, <1>10, <2>1 DEF VisitAgrees, Has, entry
      <3>2. Whole(z)
        BY <1>8, <1>10, LastIs DEF ClassLaw
      <3> HIDE DEF z
      <3>3. \A p \in DOMAIN z.p : p # x => z.p[p] # Position(z.p, x, z.e)
        BY <3>2, AloneThere
      <3>4. n = Position(z.p, x, z.e)
        BY <3>1 DEF n
      <3>5. QED
        BY <3>1, <3>3, <3>4
    <2>2. CASE a.again
      <3>1. a.member < Len(text[c].members) /\ text[c].members[a.member + 1] = mb
        BY <2>2 DEF Follows, a
      <3>2. /\ Whole(s) /\ Whole(z) /\ c \in ClassNames
            /\ Extends(Grow(s, c, mb), z, c)
            /\ Replays(a.elems, text[c].parent, c, s, z, entry, Entry(Slots, c))
        BY <1>2, <1>8, <1>10, <2>2, <3>1, NextMember DEF entry
      <3> DEFINE es == a.elems
                 parent == text[c].parent
                 mec == Entry(Slots, c)
      <3>3. Replays(es, parent, c, s, z, entry, mec) /\ es \in Seq(Types)
        BY <1>3, <3>2
      <3> HIDE DEF es, parent, mec, s, z, c
      <3>4. \A p \in DOMAIN entry : p # mb.name => entry[p] # Position(entry, mb.name, es)
        BY <3>2, <3>3, AloneAgain
      <3>5. QED
        BY <3>4 DEF n, es, c
    <2>3. QED
      BY <2>1, <2>2
  <1> HIDE DEF a
  <1>12. Fields'[c] = With(Fields[c], x, mb.type)
    <2>1. Showing /\ Showing'
      BY ShowingIs, ShowingNext
    <2>2. Fields[c] = Shape(entry, a.elems, types[c].elems)
      BY <1>2, <2>1 DEF Showing, entry
    <2>3. b \in Opened(visits')
      BY <1>5 DEF Replaced
    <2>4. Fields'[c] = Shape(Entry(properties', c), b.elems, types'[c].elems)
      BY <1>2, <1>6, <2>1, <2>3 DEF Showing
    <2>5. Fields'[c] = Shape(With(entry, x, n), laid, types[c].elems)
      BY <1>1, <1>6, <1>9, <2>4
    <2> DEFINE es == a.elems
               old == types[c].elems
    <2>6. /\ es \in Seq(Types) /\ n \in 1 .. Len(es) + 1
      BY <1>3, <1>4
    <2> HIDE DEF es, old
    <2>7. Shape(With(entry, x, n), Laid(es, n, mb.type), old) = With(Shape(entry, es, old), x, mb.type)
      <3> DEFINE t == mb.type
      <3>1. Fits(entry, es, x, t, n)
        BY <1>3, <1>11, <2>6 DEF Fits
      <3> HIDE DEF x, t
      <3>2. Shape(With(entry, x, n), Laid(es, n, t), old) = With(Shape(entry, es, old), x, t)
        BY <3>1, ShapeGrows
      <3>3. QED
        BY <3>2 DEF t
    <2>8. QED
      BY <2>2, <2>5, <2>7 DEF es, old, laid
  <1>13. \A d \in ClassNames : d # c => Fields'[d] = Fields[d]
    <2>1. \A d \in ClassNames : d # c =>
            \A y : y.name = d => (y \in Opened(visits') <=> y \in Opened(visits))
      BY <1>5, <1>6, ReplacedOnly
    <2>2. QED
      BY <1>1, <1>9, <2>1, ShowsTheSame
  <1>14. \A d \in ClassNames : Runs'[d] = Runs[d]
    BY <1>1, RunsTheSame
  <1>15. Runs' = Runs
    BY <1>14, ShowingIs, ShowingNext
  <1>16. Fields' = [Fields EXCEPT ![c] = With(Fields[c], x, mb.type)]
    BY <1>2, <1>12, <1>13, OnlyFields
  <1>17. QED
    BY <1>15, <1>16 DEF a

\* A method overrides the one of its name in its class.
LEMMA CloseMethodOverrides ==
  ASSUME TInv, TInv', CloseMethod
  PROVE  LET c == visits[Inner].name
             m == Top.member.name
         IN  Runs' = [Runs EXCEPT ![c] = With(Runs[c], m, c)] /\ Fields' = Fields
  <1> DEFINE a     == visits[Inner]
             mb    == Top.member
             m     == mb.name
             c     == a.name
             entry == Entry(methods, c)
             f     == Entered(entry, c, m)
             b     == Moved(a, a.elems)
  <1>1. /\ AtMember("method") /\ methods' = With(methods, c, With(entry, m, f))
        /\ Back(a, a.elems) /\ Wrote(a, mb)
        /\ UNCHANGED <<status, types, properties, functions, compiled>>
    BY DEF CloseMethod, Entered
  <1>2. /\ Top = visits[Len(visits)] /\ Top.op = "member"
        /\ mb \in Member /\ mb.kind = "method"
        /\ Inner = Len(visits) - 1 /\ Inner \in DOMAIN visits
        /\ a.op = "class" /\ a \in ClassVisit /\ a \in Opened(visits)
        /\ Follows(a, mb, text) /\ c \in ClassNames
    BY <1>1, ClassOfMember
  <1>3. a.elems \in Seq(Types) /\ m \in MethodNames
    BY <1>2 DEF ClassVisit, Member
  <1> HIDE DEF mb
  <1>4. Opened(visits') = Replaced(Opened(visits), a, b)
    BY <1>1, <1>2, <1>3, Advance
  <1>5. b.name = c /\ b.elems = a.elems
    BY <1>2, <1>3, MovedIs
  <1>6. \A d : Entry(methods', d) = IF d = c THEN With(entry, m, f) ELSE Entry(methods, d)
    BY <1>1, EntryWith
  <1>7. f.function.class = c
    <2>1. MethodEntry(entry)
      BY <1>2 DEF TInv, Tables
    <2> HIDE DEF entry, c, m
    <2>2. f.function = [class |-> c, copy |-> 1]
      BY <1>2, <1>3, <2>1, EnteredIs
    <2> HIDE DEF f
    <2>3. QED
      BY <2>2
  <1> HIDE DEF a, b, f, m
  <1>8. \A d \in ClassNames : Fields'[d] = Fields[d]
    <2>1. ASSUME NEW d \in ClassNames, d # c
          PROVE  Fields'[d] = Fields[d]
      <3>1. \A y : y.name = d => (y \in Opened(visits') <=> y \in Opened(visits))
        BY <1>4, <1>5, <2>1, ReplacedOnly
      <3>2. QED
        BY <1>1, <3>1, ShowsTheSame
    <2>2. Fields'[c] = Fields[c]
      <3>1. Showing /\ Showing'
        BY ShowingIs, ShowingNext
      <3>2. b \in Opened(visits')
        BY <1>4 DEF Replaced
      <3>3. Fields[c] = Shape(Entry(properties, c), a.elems, types[c].elems)
        BY <1>2, <3>1 DEF Showing
      <3>4. Fields'[c] = Shape(Entry(properties', c), b.elems, types'[c].elems)
        BY <1>2, <1>5, <3>1, <3>2 DEF Showing
      <3>5. QED
        BY <1>1, <1>5, <3>3, <3>4
    <2>3. QED
      BY <2>1, <2>2
  <1>9. Fields' = Fields
    BY <1>8, ShowingIs, ShowingNext
  <1>10. \A d \in ClassNames : d # c => Runs'[d] = Runs[d]
    BY <1>6, RunsTheSame
  <1> HIDE DEF entry, c
  <1>11. Runs'[c] = With(Runs[c], m, c)
    <2>1. /\ Runs[c] = [x \in DOMAIN entry |-> entry[x].function.class]
          /\ Entry(methods', c) = With(entry, m, f)
          /\ Runs'[c] = [x \in DOMAIN Entry(methods', c) |-> Entry(methods', c)[x].function.class]
      BY <1>2, <1>6, ShowingIs, ShowingNext DEF Running, entry
    <2> DEFINE e == With(entry, m, f)
               F == Runs[c]
    <2>2. /\ DOMAIN e = DOMAIN entry \cup {m} /\ e[m] = f
          /\ \A x \in DOMAIN entry : x # m => e[x] = entry[x]
      BY DEF With
    <2>3. F = [x \in DOMAIN entry |-> entry[x].function.class]
      BY <2>1
    <2> HIDE DEF e, F
    <2>4. With(F, m, c) = [x \in DOMAIN entry \cup {m} |->
                             IF x = m THEN c ELSE entry[x].function.class]
      <3>1. DOMAIN F = DOMAIN entry /\ \A x \in DOMAIN entry : F[x] = entry[x].function.class
        BY <2>3
      <3>2. With(F, m, c) = [x \in DOMAIN F \cup {m} |-> IF x = m THEN c ELSE F[x]]
        BY DEF With
      <3>3. QED
        BY <3>1, <3>2
    <2>5. [x \in DOMAIN e |-> e[x].function.class]
            = [x \in DOMAIN entry \cup {m} |-> IF x = m THEN c ELSE entry[x].function.class]
      BY <1>7, <2>2
    <2>6. QED
      BY <2>1, <2>4, <2>5 DEF e, F
  <1>12. Runs' = [Runs EXCEPT ![c] = With(Runs[c], m, c)]
    BY <1>2, <1>10, <1>11, OnlyRuns
  <1>13. QED
    BY <1>9, <1>12 DEF a, c, m, mb

LEMMA MembersAfter ==
  ASSUME NEW parent, NEW ms, NEW us
  PROVE  [[parent |-> parent, members |-> ms] EXCEPT !.members = us]
           = [parent |-> parent, members |-> us]
  OBVIOUS

\* The declaration comes to the member mb: the next that was written, or one more.
LEMMA ComesTo ==
  ASSUME TInv, TInv',
         NEW k \in DOMAIN visits, visits[k].op = "class", k = Inner,
         k = Len(visits) \/ (k = Len(visits) - 1 /\ visits[Len(visits)].op = "member"),
         NEW mb \in Member, Follows(visits[k], mb, text),
         NEW elems \in Seq(Types), Back(visits[k], elems), Wrote(visits[k], mb),
         types' = types
  PROVE  LET c == visits[k].name
         IN  /\ Stage' = Stage /\ Done' = [Done EXCEPT ![c] = Done[c] + 1]
             /\ \/ /\ Stage[c] = "first"
                   /\ Said' = [Said EXCEPT ![c].members = Append(Said[c].members, mb)]
                \/ /\ Stage[c] = "again" /\ Said' = Said
                   /\ Done[c] < Len(Said[c].members)
                   /\ mb = Said[c].members[Done[c] + 1]
  <1> DEFINE a == visits[k]
             c == a.name
             b == Moved(a, elems)
  <1>1. /\ Opened(visits') = Replaced(Opened(visits), a, b)
        /\ Grown(text, text', a, mb) /\ c \in DOMAIN text /\ c \in ClassNames
    BY Advance
  <1>2. a \in ClassVisit /\ a \in Opened(visits)
    BY VisitAt, OpenedIs DEF TInv, Kinds
  <1>3. b.name = c /\ b.again = a.again /\ b.member = a.member + 1 /\ b \in Opened(visits')
    BY <1>1, <1>2, MovedIs DEF Replaced
  <1>4. a.again => a.member < Len(text[c].members) /\ text[c].members[a.member + 1] = mb
    BY DEF Follows
  <1>5. c \in DOMAIN types /\ DOMAIN text = DOMAIN types /\ a.again \in BOOLEAN
    BY <1>1, <1>2 DEF TInv, Kinds, Texts, ClassVisit
  <1> HIDE DEF a, b
  <1>6. /\ text'[c].parent = text[c].parent
        /\ text'[c].members = IF a.again THEN text[c].members ELSE Append(text[c].members, mb)
        /\ \A d \in DOMAIN text : d # c => text'[d] = text[d]
    BY <1>1 DEF Grown
  <1>7. Staging /\ Staging'
    BY StagingIs, StagingNext
  <1>8. /\ Stage[c] = (IF a.again THEN "again" ELSE "first") /\ Done[c] = a.member
        /\ Said[c] = [parent |-> text[c].parent, members |-> text[c].members]
    BY <1>1, <1>2, <1>5, <1>7 DEF Staging
  <1>9. /\ Stage'[c] = (IF a.again THEN "again" ELSE "first") /\ Done'[c] = a.member + 1
        /\ Said'[c] = [parent |-> text'[c].parent, members |-> text'[c].members]
    BY <1>1, <1>3, <1>5, <1>7 DEF Staging
  <1>10. \A d \in ClassNames : d # c =>
           Stage'[d] = Stage[d] /\ Said'[d] = Said[d] /\ Done'[d] = Done[d]
    <2>1. \A d \in ClassNames : d # c =>
            \A y : y.name = d => (y \in Opened(visits') <=> y \in Opened(visits))
      BY <1>1, <1>3, ReplacedOnly
    <2>2. QED
      BY <1>5, <1>6, <2>1, StaysThere
  <1> HIDE DEF c
  <1>11. Stage' = Stage
    BY <1>8, <1>9, <1>10, StagingIs, StagingNext, Nowhere
  <1>12. Done' = [Done EXCEPT ![c] = Done[c] + 1]
    <2>1. Done' = [Done EXCEPT ![c] = Done'[c]]
      BY <1>1, <1>10, StagingIs, StagingNext, OnlyAt
    <2>2. QED
      BY <1>8, <1>9, <2>1
  <1>13. CASE a.again
    <2>1. Said'[c] = Said[c]
      BY <1>6, <1>8, <1>9, <1>13
    <2>2. Said' = Said
      BY <1>10, <2>1, StagingIs, StagingNext, Nowhere
    <2>3. QED
      BY <1>4, <1>8, <1>11, <1>12, <1>13, <2>2 DEF c, a
  <1>14. CASE ~a.again
    <2>1. Said' = [Said EXCEPT ![c] = Said'[c]]
      BY <1>1, <1>10, StagingIs, StagingNext, OnlyAt
    <2>2. Said'[c] = [Said[c] EXCEPT !.members = Append(Said[c].members, mb)]
      <3> DEFINE ms == text[c].members
                 us == text'[c].members
                 parent == text[c].parent
      <3>1. us = Append(ms, mb)
        BY <1>6, <1>14
      <3>2. Said[c] = [parent |-> parent, members |-> ms]
        BY <1>8
      <3>3. Said'[c] = [parent |-> parent, members |-> us]
        BY <1>6, <1>9
      <3> HIDE DEF ms, us, parent
      <3>4. Said[c].members = ms
        BY <3>2
      <3>5. [Said[c] EXCEPT !.members = us] = [parent |-> parent, members |-> us]
        BY <3>2, MembersAfter
      <3>6. QED
        BY <3>1, <3>3, <3>4, <3>5
    <2>3. Said' = [Said EXCEPT ![c].members = Append(Said[c].members, mb)]
      BY <2>1, <2>2
    <2>4. QED
      BY <1>8, <1>11, <1>12, <1>14, <2>3 DEF c, a
  <1>15. QED
    BY <1>5, <1>13, <1>14

\* What the author says, the first time or again, is what the class gets.
LEMMA SaysIt ==
  ASSUME NEW c \in ClassNames, NEW mb \in Member,
         Stage' = Stage, Done' = [Done EXCEPT ![c] = Done[c] + 1],
         \/ /\ Stage[c] = "first"
            /\ Said' = [Said EXCEPT ![c].members = Append(Said[c].members, mb)]
         \/ /\ Stage[c] = "again" /\ Said' = Said
            /\ Done[c] < Len(Said[c].members) /\ mb = Said[c].members[Done[c] + 1],
         \/ /\ mb.kind = "property"
            /\ Fields' = [Fields EXCEPT ![c] = With(Fields[c], mb.name, mb.type)] /\ Runs' = Runs
         \/ /\ mb.kind = "method"
            /\ Runs' = [Runs EXCEPT ![c] = With(Runs[c], mb.name, c)] /\ Fields' = Fields
  PROVE  Abstract!Next
  <1>1. IF mb.kind = "property" THEN Abstract!Field(c, mb.name, mb.type)
        ELSE Abstract!Override(c, mb.name)
    BY DEF Abstract!Field, Abstract!Override, Abstract!And, With
  <1>2. Abstract!Come(c, mb)
    BY <1>1 DEF Abstract!Come
  <1>3. \/ Abstract!Say(c, mb)
        \/ Abstract!SayAgain(c)
    BY <1>2 DEF Abstract!Say, Abstract!SayAgain
  <1>4. QED
    BY <1>3 DEF Abstract!Next

LEMMA PropertySaid ==
  ASSUME TInv, GInv, TInv',
         NEW k \in DOMAIN visits, visits[k].op = "class", k = Inner,
         k = Len(visits) \/ (k = Len(visits) - 1 /\ visits[Len(visits)].op = "member"),
         NEW mb \in Member, mb.kind = "property", Follows(visits[k], mb, text),
         AddProperty(visits[k], mb)
  PROVE  Abstract!Next
  <1> DEFINE a == visits[k]
             c == a.name
             n == Position(Entry(properties, c), mb.name, a.elems)
             laid == Laid(a.elems, n, mb.type)
  <1>1. Back(a, laid) /\ Wrote(a, mb) /\ types' = types
    BY DEF AddProperty
  <1>2. a \in ClassVisit /\ c \in ClassNames /\ a.elems \in Seq(Types) /\ mb.type \in Types
    BY VisitAt DEF TInv, Kinds, ClassVisit, Member
  <1>3. laid \in Seq(Types)
    <2>1. n \in 1 .. Len(a.elems) + 1
      BY <1>2, PositionIs
    <2> HIDE DEF n
    <2>2. QED
      BY <1>2, <2>1, LaidIs
  <1>4. /\ Fields' = [Fields EXCEPT ![c] = With(Fields[c], mb.name, mb.type)]
        /\ Runs' = Runs
    BY AddsField
  <1> HIDE DEF laid
  <1>5. /\ Stage' = Stage /\ Done' = [Done EXCEPT ![c] = Done[c] + 1]
        /\ \/ /\ Stage[c] = "first"
              /\ Said' = [Said EXCEPT ![c].members = Append(Said[c].members, mb)]
           \/ /\ Stage[c] = "again" /\ Said' = Said
              /\ Done[c] < Len(Said[c].members) /\ mb = Said[c].members[Done[c] + 1]
    BY <1>1, <1>3, ComesTo
  <1> HIDE DEF c
  <1>6. QED
    BY <1>2, <1>4, <1>5, SaysIt

LEMMA MethodSaid ==
  ASSUME TInv, TInv', CloseMethod
  PROVE  Abstract!Next
  <1> DEFINE a  == visits[Inner]
             mb == Top.member
             c  == a.name
  <1>1. AtMember("method") /\ Back(a, a.elems) /\ Wrote(a, mb) /\ types' = types
    BY DEF CloseMethod
  <1>2. /\ Top = visits[Len(visits)] /\ Top.op = "member"
        /\ mb \in Member /\ mb.kind = "method"
        /\ Inner = Len(visits) - 1 /\ Inner \in DOMAIN visits
        /\ a.op = "class" /\ a \in ClassVisit
        /\ Follows(a, mb, text) /\ c \in ClassNames
    BY <1>1, ClassOfMember
  <1>3. a.elems \in Seq(Types)
    BY <1>2 DEF ClassVisit
  <1>4. Runs' = [Runs EXCEPT ![c] = With(Runs[c], mb.name, c)] /\ Fields' = Fields
    BY CloseMethodOverrides
  <1> HIDE DEF mb
  <1>5. /\ Stage' = Stage /\ Done' = [Done EXCEPT ![c] = Done[c] + 1]
        /\ \/ /\ Stage[c] = "first"
              /\ Said' = [Said EXCEPT ![c].members = Append(Said[c].members, mb)]
           \/ /\ Stage[c] = "again" /\ Said' = Said
              /\ Done[c] < Len(Said[c].members) /\ mb = Said[c].members[Done[c] + 1]
    BY <1>1, <1>2, <1>3, ComesTo
  <1> HIDE DEF c
  <1>6. QED
    BY <1>2, <1>4, <1>5, SaysIt

\* The elements of a class that is declared the first time have all its properties.
LEMMA AllReached ==
  ASSUME TInv, GInv, NEW a \in Opened(visits), ~a.again
  PROVE  \A p \in DOMAIN Entry(properties, a.name) :
           Entry(properties, a.name)[p] \in DOMAIN a.elems
  <1>1. PICK S : Ghost(S, World, LateUses)
    BY DEF GInv
  <1>2. /\ World.pr = properties /\ World.tx = text /\ World.open = Opened(visits)
        /\ Sound(World) /\ Agrees(S, World) /\ Histories(S, text) /\ Texts(text, World.ty)
    BY <1>1, WorldIs DEF Ghost, Sound
  <1> DEFINE z == Last(S, text, a.name)
  <1>3. VisitAgrees(S, World, a) /\ a.name \in DOMAIN text
    BY <1>2 DEF Agrees, Sound, ClassLaw
  <1>4. Entry(properties, a.name) = z.p /\ a.elems = z.e
    BY <1>2, <1>3 DEF VisitAgrees, Has
  <1>5. Numbers(z.p, z.e)
    BY <1>2, <1>3, LastIs DEF Whole
  <1>6. QED
    BY <1>4, <1>5 DEF Numbers

LEMMA OpenMethodStutters ==
  ASSUME TInv, GInv, TInv', NEW m \in MethodNames, OpenMethod(m)
  PROVE  UNCHANGED Shown
  <1> DEFINE a == Top
             c == a.name
             b == AtMethods(a)
             entry == Entry(properties, c)
  <1>1. /\ AtClass /\ SetBody(a)
        /\ Opened(visits') = Replaced(Opened(visits), a, b)
        /\ UNCHANGED <<status, properties, methods, text, compiled>>
    BY MethodOpened
  <1>2. a \in ClassVisit /\ a \in Opened(visits) /\ c \in DOMAIN types /\ c \in ClassNames
    BY <1>1, ClassOnTop
  <1>3. b.name = c /\ b.elems = a.elems /\ b.again = a.again /\ b.member = a.member
    BY <1>2, AtMethodsIs
  <1>4. /\ \A d \in DOMAIN types : d # c => types'[d] = types[d]
        /\ a.again => types' = types
    BY <1>1, <1>2 DEF SetBody
  <1>5. ~a.again => \A p \in DOMAIN entry : entry[p] \in DOMAIN a.elems
    BY <1>2, AllReached
  <1> HIDE DEF a, b
  <1>6. ASSUME NEW d \in ClassNames, d # c
        PROVE  Fields'[d] = Fields[d]
    <2>1. \A y : y.name = d => (y \in Opened(visits') <=> y \in Opened(visits))
      BY <1>1, <1>3, <1>6, ReplacedOnly
    <2>2. QED
      BY <1>1, <1>4, <1>6, <2>1, ShowsTheSame
  <1>7. Fields'[c] = Fields[c]
    <2>1. Showing /\ Showing'
      BY ShowingIs, ShowingNext
    <2>2. b \in Opened(visits')
      BY <1>1 DEF Replaced
    <2>3. Fields[c] = Shape(entry, a.elems, types[c].elems)
      BY <1>2, <2>1 DEF Showing
    <2>4. Fields'[c] = Shape(Entry(properties', c), b.elems, types'[c].elems)
      BY <1>2, <1>3, <2>1, <2>2 DEF Showing
    <2>5. Entry(properties', c) = entry
      BY <1>1
    <2> HIDE DEF entry
    <2>6. CASE a.again
      BY <1>3, <1>4, <2>3, <2>4, <2>5, <2>6
    <2>7. CASE ~a.again
      BY <1>3, <1>5, <2>3, <2>4, <2>5, <2>7, ShapeAlone
    <2>8. QED
      BY <2>6, <2>7
  <1>8. \A d \in ClassNames : Runs'[d] = Runs[d]
    BY <1>1, RunsTheSame
  <1>9. DOMAIN types' = DOMAIN types
    BY <1>1, <1>2 DEF SetBody
  <1>10. \A d \in ClassNames : d # c =>
           Stage'[d] = Stage[d] /\ Said'[d] = Said[d] /\ Done'[d] = Done[d]
    <2>1. \A d \in ClassNames : d # c =>
            \A y : y.name = d => (y \in Opened(visits') <=> y \in Opened(visits))
      BY <1>1, <1>3, ReplacedOnly
    <2>2. QED
      BY <1>1, <1>9, <2>1, StaysThere
  <1>11. Stage'[c] = Stage[c] /\ Said'[c] = Said[c] /\ Done'[c] = Done[c]
    <2>1. Staging /\ Staging'
      BY StagingIs, StagingNext
    <2>2. b \in Opened(visits')
      BY <1>1 DEF Replaced
    <2>3. /\ Stage[c] = (IF a.again THEN "again" ELSE "first") /\ Done[c] = a.member
          /\ Said[c] = [parent |-> text[c].parent, members |-> text[c].members]
      BY <1>2, <2>1 DEF Staging
    <2>4. /\ Stage'[c] = (IF b.again THEN "again" ELSE "first") /\ Done'[c] = b.member
          /\ Said'[c] = [parent |-> text'[c].parent, members |-> text'[c].members]
      BY <1>2, <1>3, <1>9, <2>1, <2>2 DEF Staging
    <2>5. QED
      BY <1>1, <1>3, <2>3, <2>4
  <1>12. QED
    BY <1>6, <1>7, <1>8, <1>10, <1>11, Stutters

LEMMA CloseClassEnds ==
  ASSUME TInv, GInv, TInv', CloseClass
  PROVE  Abstract!Next
  <1> DEFINE a == Top
             c == a.name
             entry == Entry(properties, c)
  <1>1. /\ AtClass /\ SetBody(a)
        /\ a.again => a.member = Len(text[c].members)
        /\ visits' = SubSeq(visits, 1, Len(visits) - 1)
        /\ UNCHANGED <<status, properties, methods, functions, text, compiled>>
    BY DEF CloseClass
  <1>2. /\ ClassLaw(a, text) /\ a \in ClassVisit /\ a \in Opened(visits) /\ c \in DOMAIN types /\ c \in ClassNames
        /\ a.op = "class" /\ Len(visits) \in DOMAIN visits /\ a = visits[Len(visits)]
        /\ c \in DOMAIN text
    BY <1>1, ClassOnTop DEF ClassLaw
  <1>3. /\ Opened(visits') = Opened(visits) \ {a}
        /\ \A y \in Opened(visits') : y.name # c
    BY <1>1, <1>2, Cut DEF TInv, Kinds
  <1>4. /\ \A d \in DOMAIN types : d # c => types'[d] = types[d]
        /\ a.again => types' = types
        /\ ~a.again => types'[c].elems = a.elems
    BY <1>1, <1>2 DEF SetBody
  <1>5. ~a.again => \A p \in DOMAIN entry : entry[p] \in DOMAIN a.elems
    BY <1>2, AllReached
  <1>6. a.again => a.elems = types[c].elems
    <2> SUFFICES ASSUME a.again PROVE a.elems = types[c].elems
      OBVIOUS
    <2>1. PICK S : Ghost(S, World, LateUses)
      BY DEF GInv
    <2>2. /\ World.ty = types /\ World.pr = properties /\ World.me = Slots
          /\ World.tx = text /\ World.open = Opened(visits)
      BY WorldIs
    <2>3. VisitAgrees(S, World, a) /\ Histories(S, text) /\ Texts(text, types)
      BY <1>2, <2>1, <2>2 DEF Ghost, Agrees, TInv, Kinds
    <2> DEFINE z == Last(S, text, c)
    <2>4. Whole(z)
      BY <1>2, <2>3, LastIs
    <2>5. S[c][a.member] = z
      BY <1>1 DEF Last
    <2>6. /\ types[c].elems = z.e
          /\ Replays(a.elems, text[c].parent, c, S[c][a.member], z, entry, Entry(Slots, c))
      BY <2>2, <2>3 DEF VisitAgrees
    <2>7. a.elems \in Seq(Types)
      BY <1>2 DEF ClassVisit
    <2> HIDE DEF a
    <2>8. a.elems = z.e
      BY <2>4, <2>5, <2>6, <2>7, ReplayEnds
    <2>9. QED
      BY <2>6, <2>8
  <1> HIDE DEF a
  <1>7. ASSUME NEW d \in ClassNames, d # c
        PROVE  Fields'[d] = Fields[d]
    <2>1. \A y : y.name = d => (y \in Opened(visits') <=> y \in Opened(visits))
      BY <1>3, <1>7
    <2>2. QED
      BY <1>1, <1>4, <1>7, <2>1, ShowsTheSame
  <1>8. Fields'[c] = Fields[c]
    <2>1. Showing /\ Showing'
      BY ShowingIs, ShowingNext
    <2>2. Fields[c] = Shape(entry, a.elems, types[c].elems)
      BY <1>2, <2>1 DEF Showing
    <2>3. Fields'[c] = Shape(Entry(properties', c), types'[c].elems, types'[c].elems)
      BY <1>2, <1>3, <2>1 DEF Showing
    <2>4. Entry(properties', c) = entry
      BY <1>1
    <2> HIDE DEF entry
    <2>5. CASE a.again
      BY <1>4, <1>6, <2>2, <2>3, <2>4, <2>5
    <2>6. CASE ~a.again
      BY <1>4, <1>5, <2>2, <2>3, <2>4, <2>6, ShapeAlone
    <2>7. QED
      BY <2>5, <2>6
  <1>9. \A d \in ClassNames : Runs'[d] = Runs[d]
    BY <1>1, RunsTheSame
  <1>10. Fields' = Fields /\ Runs' = Runs
    BY <1>7, <1>8, <1>9, ShowingIs, ShowingNext
  <1>11. DOMAIN types' = DOMAIN types /\ a.member = Len(text[c].members)
    BY <1>1, <1>2 DEF SetBody, ClassLaw, a
  <1>12. \A d \in ClassNames : d # c =>
           Stage'[d] = Stage[d] /\ Said'[d] = Said[d] /\ Done'[d] = Done[d]
    <2>1. \A d \in ClassNames : d # c =>
            \A y : y.name = d => (y \in Opened(visits') <=> y \in Opened(visits))
      BY <1>3
    <2>2. QED
      BY <1>1, <1>11, <2>1, StaysThere
  <1>13. /\ Stage[c] \in {"first", "again"} /\ Stage'[c] = "declared"
         /\ Done[c] = Len(Said[c].members) /\ Done'[c] = Done[c] /\ Said'[c] = Said[c]
    <2>1. Staging /\ Staging'
      BY StagingIs, StagingNext
    <2>2. /\ Stage[c] = (IF a.again THEN "again" ELSE "first") /\ Done[c] = a.member
          /\ Said[c] = [parent |-> text[c].parent, members |-> text[c].members]
      BY <1>2, <2>1 DEF Staging
    <2>3. /\ Stage'[c] = "declared" /\ Done'[c] = Len(text'[c].members)
          /\ Said'[c] = [parent |-> text'[c].parent, members |-> text'[c].members]
      BY <1>2, <1>3, <1>11, <2>1 DEF Staging
    <2>4. QED
      BY <1>1, <1>11, <2>2, <2>3
  <1> HIDE DEF c
  <1>14. Done' = Done
    BY <1>12, <1>13, StagingIs, StagingNext, Nowhere
  <1>15. Said' = Said
    BY <1>12, <1>13, StagingIs, StagingNext, Nowhere
  <1>16. Stage' = [Stage EXCEPT ![c] = "declared"]
    <2>1. Stage' = [Stage EXCEPT ![c] = Stage'[c]]
      BY <1>2, <1>12, StagingIs, StagingNext, OnlyAt
    <2>2. QED
      BY <1>13, <2>1
  <1>17. Abstract!End(c)
    BY <1>10, <1>13, <1>14, <1>15, <1>16 DEF Abstract!End
  <1>18. QED
    BY <1>2, <1>17 DEF Abstract!Next

\* What is not seen of the tables shows nothing.
LEMMA SameShown ==
  ASSUME UNCHANGED <<visits, types, properties, methods, text>>
  PROVE  UNCHANGED Shown
  BY DEF Shown, Fields, Runs, TypeAt, Stage, Said, Done, VisitsOf

LEMMA OpenInitializerStutters ==
  ASSUME TInv, TInv', NEW p \in PropNames, NEW t \in Types, OpenInitializer(p, t)
  PROVE  UNCHANGED Shown
  <1> DEFINE y == [op |-> "member", member |-> Property(p, t, TRUE)]
  <1>1. /\ visits' = Append(visits, y)
        /\ UNCHANGED <<status, types, properties, methods, functions, text, compiled>>
    BY DEF OpenInitializer
  <1>2. visits \in Visits /\ y \in ClassVisit \cup MemberVisit /\ y.op # "class"
    BY PropertyIsAMember DEF TInv, Kinds, MemberVisit
  <1> HIDE DEF y
  <1>3. Opened(Append(visits, y)) = Opened(visits)
    BY <1>2, PushedOther
  <1>4. \A d \in ClassNames : Fields'[d] = Fields[d]
    BY <1>1, <1>3, ShowsTheSame
  <1>5. \A d \in ClassNames : Runs'[d] = Runs[d]
    BY <1>1, RunsTheSame
  <1>6. \A d \in ClassNames : Stage'[d] = Stage[d] /\ Said'[d] = Said[d] /\ Done'[d] = Done[d]
    BY <1>1, <1>3, StaysThere
  <1>7. QED
    BY <1>4, <1>5, <1>6, Stutters

\* A class starts with the fields and methods of its parent, or with its own.
LEMMA InheritsShown ==
  ASSUME TInv, GInv, TInv', NEW c \in ClassNames,
         NEW parent \in ClassNames \cup {NoClass}, OpenClass(c, parent)
  PROVE  Abstract!Inherit(c, parent)
  <1> DEFINE b == Begun(c, parent)
             entry == Entry(properties, c)
             from == Entry(properties, parent)
  <1>1. /\ \A d : Entry(properties', d) = IF d = c /\ parent # NoClass
                    THEN Entry(properties, parent) ELSE Entry(properties, d)
        /\ \A d : Entry(methods', d) = IF d = c /\ parent # NoClass
                    THEN Entry(methods, parent) ELSE Entry(methods, d)
        /\ Opened(visits') = Opened(visits) \cup {b}
        /\ \A a \in Opened(visits) : a.name # c
        /\ parent \notin {NoClass, c} => Settled(World, parent)
        /\ parent = NoClass => b.elems = <<>>
        /\ types' = IF c \in DOMAIN types THEN types ELSE With(types, c, Opaque)
    BY ClassOpened
  <1>2. b.name = c /\ b.elems = InheritedElems(parent)
    BY DEF Begun
  <1> HIDE DEF b
  <1>3. \A d \in DOMAIN types : types'[d] = types[d]
    BY <1>1 DEF With
  <1>4. Showing /\ Showing'
    BY ShowingIs, ShowingNext
  <1>5. ASSUME NEW d \in ClassNames, d # c
        PROVE  Fields'[d] = Fields[d] /\ Runs'[d] = Runs[d]
    <2>1. \A y : y.name = d => (y \in Opened(visits') <=> y \in Opened(visits))
      BY <1>1, <1>2, <1>5
    <2>2. Fields'[d] = Fields[d]
      BY <1>1, <1>3, <1>5, <2>1, ShowsTheSame
    <2>3. QED
      BY <1>1, <1>5, <2>2, RunsTheSame
  <1>6. /\ Fields[c] = Shape(entry, types[c].elems, types[c].elems)
        /\ Fields'[c] = Shape(Entry(properties', c), b.elems, types'[c].elems)
    BY <1>1, <1>2, <1>4 DEF Showing
  <1>7. CASE parent \in {NoClass, c}
    <2>1. Entry(properties', c) = entry /\ Entry(methods', c) = Entry(methods, c)
      BY <1>1, <1>7
    <2>2. Fields'[c] = Fields[c]
      <3>1. CASE c \notin DOMAIN types
        <4>1. DOMAIN entry = {}
          BY <3>1, WithoutEntries DEF TInv, Tables, Entry
        <4> HIDE DEF entry
        <4>2. QED
          BY <1>6, <2>1, <4>1, ShapeEmpty
      <3>2. CASE c \in DOMAIN types
        <4>1. b.elems \in {<<>>, types[c].elems}
          BY <1>1, <1>2, <1>7, <3>2 DEF InheritedElems
        <4>2. types'[c].elems = types[c].elems
          BY <1>3, <3>2
        <4> HIDE DEF entry
        <4>3. QED
          BY <1>6, <2>1, <4>1, <4>2, ShapeOld
      <3>3. QED
        BY <3>1, <3>2
    <2>3. Runs'[c] = Runs[c]
      BY <2>1, RunsTheSame
    <2>4. Fields' = Fields /\ Runs' = Runs
      BY <1>5, <2>2, <2>3, ShowingIs, ShowingNext
    <2>5. QED
      BY <1>7, <2>4 DEF Abstract!Inherit
  <1>8. CASE parent \notin {NoClass, c}
    <2>1. parent \in ClassNames /\ Settled(World, parent) /\ parent # c
      BY <1>1, <1>8
    <2>2. PICK S : Ghost(S, World, LateUses)
      BY DEF GInv
    <2>3. /\ World.ty = types /\ World.pr = properties /\ World.tx = text
          /\ World.open = Opened(visits) /\ Sound(World)
          /\ Histories(S, text) /\ Agrees(S, World)
      BY <2>2, WorldIs DEF Ghost
    <2> DEFINE z == Last(S, text, parent)
    <2>4. /\ Whole(z) /\ from = z.p /\ types[parent].elems = z.e
          /\ \A a \in Opened(visits) : a.name = parent => a.elems = z.e
          /\ parent \in DOMAIN types
      BY <2>1, <2>3, SettledHas DEF Has
    <2>5. b.elems = types[parent].elems
      BY <1>2, <1>8, <2>4 DEF InheritedElems
    <2>6. \A p \in DOMAIN from : from[p] \in DOMAIN b.elems
      BY <2>4, <2>5 DEF Whole, Numbers
    <2>7. Entry(properties', c) = from /\ Entry(methods', c) = Entry(methods, parent)
      BY <1>1, <1>8
    <2>8. Fields[parent] = Shape(from, types[parent].elems, types[parent].elems)
      BY <1>4, <2>1, <2>4 DEF Showing
    <2> HIDE DEF from, z
    <2>9. Fields'[c] = Fields[parent]
      BY <1>6, <2>5, <2>6, <2>7, <2>8, ShapeAlone
    <2>10. Runs'[c] = Runs[parent]
      BY <2>1, <2>7, ShowingIs, ShowingNext DEF Running
    <2>11. /\ Fields' = [Fields EXCEPT ![c] = Fields[parent]]
           /\ Runs' = [Runs EXCEPT ![c] = Runs[parent]]
      BY <1>5, <2>9, <2>10, OnlyFields, OnlyRuns
    <2>12. QED
      BY <1>8, <2>11 DEF Abstract!Inherit
  <1>9. QED
    BY <1>7, <1>8

LEMMA OpenClassDeclares ==
  ASSUME TInv, GInv, TInv', NEW c \in ClassNames,
         NEW parent \in ClassNames \cup {NoClass}, OpenClass(c, parent)
  PROVE  Abstract!Next
  <1> DEFINE b == Begun(c, parent)
  <1>1. /\ Opened(visits') = Opened(visits) \cup {b}
        /\ \A a \in Opened(visits) : a.name # c
        /\ parent \notin {NoClass, c} => Settled(World, parent)
        /\ c \in DOMAIN types => text[c].parent = parent
        /\ types' = IF c \in DOMAIN types THEN types ELSE With(types, c, Opaque)
        /\ text' = IF c \in DOMAIN types THEN [text EXCEPT ![c].times = @ + 1]
                   ELSE With(text, c, [parent |-> parent, members |-> <<>>, times |-> 1])
    BY ClassOpened
  <1>2. b.name = c /\ b.again = (c \in DOMAIN types) /\ b.member = 0 /\ b \in Opened(visits')
    BY <1>1 DEF Begun
  <1>3. Abstract!Inherit(c, parent)
    BY InheritsShown
  <1>4. DOMAIN text = DOMAIN types /\ \A d \in DOMAIN types : text[d] \in Text
    BY DEF TInv, Kinds, Texts
  <1> HIDE DEF b
  <1>5. /\ DOMAIN types' = DOMAIN types \cup {c}
        /\ \A d \in DOMAIN types : d # c => text'[d] = text[d]
        /\ c \in DOMAIN types => text'[c].parent = text[c].parent /\ text'[c].members = text[c].members
        /\ c \notin DOMAIN types => text'[c].parent = parent /\ text'[c].members = <<>>
    <2>1. CASE c \in DOMAIN types
      <3>1. types' = types /\ text' = [text EXCEPT ![c].times = @ + 1]
        BY <1>1, <2>1
      <3>2. /\ text'[c].parent = text[c].parent /\ text'[c].members = text[c].members
            /\ \A d \in DOMAIN types : d # c => text'[d] = text[d]
        BY <1>4, <2>1, <3>1 DEF Text
      <3>3. QED
        BY <2>1, <3>1, <3>2
    <2>2. CASE c \notin DOMAIN types
      BY <1>1, <1>4, <2>2 DEF With
    <2>3. QED
      BY <2>1, <2>2
  <1>6. Staging /\ Staging'
    BY StagingIs, StagingNext
  <1>7. \A d \in ClassNames : d # c =>
          Stage'[d] = Stage[d] /\ Said'[d] = Said[d] /\ Done'[d] = Done[d]
    <2>1. \A d \in ClassNames : d # c =>
            \A y : y.name = d => (y \in Opened(visits') <=> y \in Opened(visits))
      BY <1>1, <1>2
    <2>2. QED
      BY <1>5, <2>1, StaysThere
  <1>8. /\ Stage'[c] = (IF c \in DOMAIN types THEN "again" ELSE "first") /\ Done'[c] = 0
        /\ Said'[c] = [parent |-> text'[c].parent, members |-> text'[c].members]
    BY <1>2, <1>5, <1>6 DEF Staging
  <1>9. /\ Stage' = [Stage EXCEPT ![c] = Stage'[c]]
        /\ Done' = [Done EXCEPT ![c] = Done'[c]]
        /\ Said' = [Said EXCEPT ![c] = Said'[c]]
    <2>1. Stage' = [Stage EXCEPT ![c] = Stage'[c]]
      BY <1>7, StagingIs, StagingNext, OnlyAt
    <2>2. Done' = [Done EXCEPT ![c] = Done'[c]]
      BY <1>7, StagingIs, StagingNext, OnlyAt
    <2>3. Said' = [Said EXCEPT ![c] = Said'[c]]
      BY <1>7, StagingIs, StagingNext, OnlyAt
    <2>4. QED
      BY <2>1, <2>2, <2>3
  <1>10. CASE c \in DOMAIN types
    <2>1. /\ Stage[c] = "declared"
          /\ Said[c] = [parent |-> text[c].parent, members |-> text[c].members]
      BY <1>1, <1>6, <1>10 DEF Staging
    <2>2. Said' = Said
      BY <1>5, <1>7, <1>8, <1>10, <2>1, StagingIs, StagingNext, Nowhere
    <2>3. Said[c].parent = parent
      BY <1>1, <1>10, <2>1
    <2>4. Stage' = [Stage EXCEPT ![c] = "again"] /\ Done' = [Done EXCEPT ![c] = 0]
      BY <1>8, <1>9, <1>10
    <2>5. Abstract!Repeat(c)
      BY <1>3, <2>1, <2>2, <2>3, <2>4 DEF Abstract!Repeat
    <2>6. QED
      BY <2>5 DEF Abstract!Next
  <1>11. CASE c \notin DOMAIN types
    <2>1. /\ Stage[c] = "unknown" /\ Done[c] = 0
          /\ Said[c] = [parent |-> NoClass, members |-> <<>>]
      BY <1>6, <1>11 DEF Staging
    <2>2. parent \in {NoClass, c} \/ Stage[parent] # "unknown"
      <3>1. parent \notin {NoClass, c} => parent \in DOMAIN types /\ parent \in ClassNames
        BY <1>1, WorldIs DEF Settled
      <3>2. QED
        BY <3>1 DEF Stage
    <2>3. Said'[c] = [Said[c] EXCEPT !.parent = parent]
      BY <1>5, <1>8, <1>11, <2>1
    <2>4. Said' = [Said EXCEPT ![c].parent = parent]
      BY <1>9, <2>3
    <2>5. Done' = Done
      BY <1>7, <1>8, <2>1, StagingIs, StagingNext, Nowhere
    <2>6. Stage' = [Stage EXCEPT ![c] = "first"]
      BY <1>8, <1>9, <1>11
    <2>7. Abstract!Declare(c, parent)
      BY <1>3, <2>1, <2>2, <2>4, <2>5, <2>6 DEF Abstract!Declare
    <2>8. QED
      BY <2>7 DEF Abstract!Next
  <1>12. QED
    BY <1>10, <1>11

LEMMA StepRefines ==
  ASSUME TInv, GInv, [Next]_vars
  PROVE  Abstract!Next \/ UNCHANGED Shown
  <1>1. TInv'
    BY NextTInv
  <1>2. CASE \E c \in ClassNames, parent \in ClassNames \cup {NoClass} : OpenClass(c, parent)
    BY <1>1, <1>2, OpenClassDeclares
  <1>3. CASE \E c, parent \in ClassNames : UnknownParent(c, parent)
    BY <1>3, SameShown DEF UnknownParent, Throw
  <1>4. ASSUME NEW p \in PropNames, NEW t \in Types, DeclProperty(p, t)
        PROVE  Abstract!Next
    <2> DEFINE mb == Property(p, t, FALSE)
    <2>1. AtClass /\ Writes(Top, mb) /\ AddProperty(Top, mb)
      BY <1>4 DEF DeclProperty
    <2>2. mb \in Member /\ mb.kind = "property"
      BY PropertyIsAMember
    <2> HIDE DEF mb
    <2>3. /\ Top = visits[Len(visits)] /\ Top.op = "class" /\ Inner = Len(visits)
          /\ Inner \in DOMAIN visits /\ Top \in ClassVisit
      BY <2>1, ClassOnTop
    <2>4. Follows(Top, mb, text)
      BY <2>1, <2>2, <2>3, WritesFollows
    <2>5. QED
      BY <1>1, <2>1, <2>2, <2>3, <2>4, PropertySaid
  <1>5. ASSUME CloseInitializer
        PROVE  Abstract!Next
    <2>1. AtMember("property") /\ AddProperty(visits[Inner], Top.member)
      BY <1>5 DEF CloseInitializer
    <2>2. /\ Top = visits[Len(visits)] /\ Top.op = "member"
          /\ Top.member \in Member /\ Top.member.kind = "property"
          /\ Inner = Len(visits) - 1 /\ Inner \in DOMAIN visits
          /\ visits[Inner].op = "class"
          /\ Follows(visits[Inner], Top.member, text)
      BY <2>1, ClassOfMember
    <2>3. QED
      BY <1>1, <2>1, <2>2, PropertySaid
  <1>6. CASE \E p \in PropNames, t \in Types : OpenInitializer(p, t)
    BY <1>1, <1>6, OpenInitializerStutters
  <1>7. CASE \E m \in MethodNames : OpenMethod(m)
    BY <1>1, <1>7, OpenMethodStutters
  <1>8. CASE CloseMethod
    BY <1>1, <1>8, MethodSaid
  <1>9. CASE CloseClass
    BY <1>1, <1>9, CloseClassEnds
  <1>10. CASE UsesOfClasses
    BY <1>10, SameShown
    DEF UsesOfClasses, UseProperty, UseMethod, New, Delete, Compiles, Unresolved, Throw
  <1>11. CASE UNCHANGED vars
    BY <1>11, SameShown DEF vars
  <1>12. QED
    BY <1>2, <1>3, <1>4, <1>5, <1>6, <1>7, <1>8, <1>9, <1>10, <1>11
    DEF Next, Declarations, Failed

LEMMA InitRefines ==
  ASSUME Init
  PROVE  Abstract!Init
  <1>1. \A c : Entry(properties, c) = NoEntries /\ Entry(methods, c) = NoEntries
    BY WithoutEntries DEF Init, Entry
  <1>2. /\ Fields = [c \in ClassNames |-> [p \in {} |-> p]]
        /\ Runs = [c \in ClassNames |-> [m \in {} |-> m]]
    BY <1>1, WithoutEntries DEF Fields, Runs
  <1>3. /\ Stage = [c \in ClassNames |-> "unknown"] /\ Done = [c \in ClassNames |-> 0]
        /\ Said = [c \in ClassNames |-> [parent |-> NoClass, members |-> <<>>]]
    BY WithoutEntries DEF Init, Stage, Said, Done
  <1>4. QED
    BY <1>2, <1>3 DEF Abstract!Init, Abstract!Nothing

\* The tables of positions and slots are an implementation of Objects, whatever the
\* classes are: what the author writes of a class, the first time and again, its parent,
\* its properties with their types and its methods, is what its fields and methods come
\* to, over what the parent has, each when the declaration comes to it, and nothing else
\* changes them.
THEOREM ObjectsRefined == Spec => RefinesObjects
  <1>1. Init => Abstract!Init
    BY InitRefines
  <1>2. TInv /\ GInv /\ [Next]_vars => [Abstract!Next]_Shown
    BY StepRefines
  <1>3. QED
    BY <1>1, <1>2, ClassesInvariance, PTL
    DEF Spec, RefinesObjects, Abstract!Spec, Abstract!vars, Shown
=============================================================================
