--------------------------- MODULE EtcFilesProofs ---------------------------
(***************************************************************************)
(* Proofs about EtcFiles, for any names, addresses, lines of the user and  *)
(* numbers of lines and edits: prepare and clean, in any order with edits  *)
(* of the user and changes of the configuration between them.              *)
(***************************************************************************)
EXTENDS EtcFilesLemmas

-----------------------------------------------------------------------------
(* The invariant is kept *)

(* Mark and Place depend on the file, the topology and the name server     *)
(* only.                                                                   *)
LEMMA MarkUnchanged ==
  ASSUME UNCHANGED <<file, ip, ns>>, NEW CONSTANT t
  PROVE  Mark(t)' = Mark(t) /\ Place(t)' = Place(t)
<1>0. file' = file /\ ip' = ip /\ ns' = ns OBVIOUS
<1>1. NodeInfo' = NodeInfo BY <1>0 DEF NodeInfo
<1>2. ASSUME NEW CONSTANT l PROVE MatchingNodes(l)' = MatchingNodes(l)
  BY <1>0 DEF MatchingNodes
<1>3. ASSUME NEW CONSTANT l PROVE MatchingNode(l)' = MatchingNode(l)
  BY <1>0, <1>1, <1>2 DEF MatchingNode
<1>4. ASSUME NEW CONSTANT l PROVE InTheWay(l)' = InTheWay(l)
  BY <1>0, <1>1, <1>2, <1>3 DEF InTheWay
<1>5. SeenNodes(t)' = SeenNodes(t) BY <1>2, <1>3, <1>4 DEF SeenNodes
<1>6. Entries(t)' = Entries(t) BY <1>0, <1>1, <1>5 DEF Entries
<1>7. CommentStale(t)' = CommentStale(t) BY <1>4 DEF CommentStale
<1>8. Mark(t)' = Mark(t) BY <1>0, <1>7 DEF Mark, CommentLater
<1>9. Place(t)' = Place(t) BY <1>0, <1>6 DEF Place, AddNameServer
<1> QED BY <1>8, <1>9

(* A step that leaves a marked text with its additions in place leaves the *)
(* file settled.                                                           *)
LEMMA SettledNext ==
  ASSUME UNCHANGED <<file, ip, ns>>, NEW CONSTANT k, k # <<>>, Mark(k) = k,
         Theirs(contents') = k, contents' = Place(k)
  PROVE  Settled'
<1>1. Mark(k)' = k /\ Place(k)' = Place(k) BY MarkUnchanged
<1> QED BY <1>1 DEF Settled

(* A text with no added line begins with a line of theirs. *)
LEMMA OwnAnchored ==
  ASSUME NEW t, Own(t)
  PROVE  /\ t \in Seq(Line) /\ Theirs(t) = t /\ HasAnchor(t)
         /\ \A i \in DOMAIN t : t[i].new => t[i].old = 0
<1>1. t \in Seq(Line) /\ \A i \in DOMAIN t : ~t[i].new BY DEF Own
<1>2. HasAnchor(t)
  <2>1. CASE t = <<>> BY <2>1 DEF HasAnchor
  <2>2. CASE t # <<>>
    <3>1. 1 \in DOMAIN t BY <1>1, <2>2, EmptySeq
    <3> QED BY <1>1, <3>1 DEF HasAnchor
  <2> QED BY <2>1, <2>2
<1> QED BY <1>1, <1>2, TheirsAll

(* The user's lines are not added and have no mark. *)
LEMMA UserOwn ==
  ASSUME NEW t \in Seq(UserLines)
  PROVE  Own(t) /\ UnmarkAll(t) = t
<1>1. \A i \in DOMAIN t : t[i] \in Line /\ t[i].old = 0 /\ ~t[i].new
  BY UserLinesFacts, LinesFacts
<1>2. t \in Seq(Line)
  <2>1. UserLines \subseteq Line BY UserLinesFacts, LinesFacts
  <2> QED BY <2>1, SeqMonotonic
<1>3. DOMAIN t = 1..Len(t) OBVIOUS
<1> QED BY <1>1, <1>2, <1>3, UnmarkAllFacts DEF Own

(* The invariant holds initially. *)
LEMMA InitInv == Init => IInv
<1> SUFFICES ASSUME Init PROVE IInv OBVIOUS
<1>1. /\ file \in {"hosts", "resolv"} /\ contents = user /\ fresh = FALSE
      /\ edits = 0
      /\ ip \in IF file = "hosts" THEN Topologies ELSE {<<>>}
      /\ ns \in IF file = "resolv" THEN Addresses ELSE {"none"}
  BY DEF Init
<1>2. user \in Seq(UserLines)
  <2>1. user \in SeqOf(UserLines, MaxLines) BY DEF Init
  <2>2. PICK m \in 0..MaxLines : user \in [1..m -> UserLines] BY <2>1 DEF SeqOf
  <2>3. m \in Nat BY <2>2, BoundsAssumption
  <2> QED BY <2>2, <2>3, SeqDef
<1>3. Own(user) /\ UnmarkAll(user) = user BY <1>2, UserOwn
<1>4. /\ user \in Seq(Line) /\ Theirs(user) = user /\ HasAnchor(user)
      /\ \A i \in DOMAIN user : user[i].new => user[i].old = 0
  BY <1>3, OwnAnchored
<1>5. TypeInv
  <2>1. edits \in 0..MaxEdits BY <1>1, BoundsAssumption
  <2> QED BY <1>1, <1>2, <1>4, <2>1 DEF TypeInv
<1>6. Anchored BY <1>1, <1>4 DEF Anchored
<1>7. Restorable BY <1>1, <1>3, <1>4 DEF Restorable
<1>8. Settled BY <1>1 DEF Settled
<1> QED BY <1>5, <1>6, <1>7, <1>8 DEF IInv

(* Prepare (AddHostEntries, AddResolvConfEntry) keeps the invariant, and   *)
(* settles the file.                                                       *)
LEMMA PrepareInv == IInv /\ Prepare => IInv'
<1> SUFFICES ASSUME IInv, Prepare PROVE IInv' OBVIOUS
<1>0. TypeInv /\ Anchored /\ Restorable BY DEF IInv
<1>1. /\ contents' = Updated(contents) /\ user' = Saved(user) /\ fresh' = TRUE
      /\ file' = file /\ ip' = ip /\ ns' = ns /\ edits' = edits
  BY DEF Prepare
<1> DEFINE kept == Kept(contents)
           m == Mark(kept)
<1>2. Own(kept) /\ kept # <<>> BY <1>0, KeptFacts DEF TypeInv, Anchored
<1>3. /\ Own(m) /\ Len(m) = Len(kept) /\ UnmarkAll(m) = UnmarkAll(kept)
      /\ Mark(m) = m
  <2>1. file \in {"hosts", "resolv"} BY <1>0 DEF TypeInv
  <2> QED BY <1>2, <2>1, MarkFacts
<1>4. contents' = Place(m) BY <1>0, <1>1, UpdatedIs
<1>5. user' = UnmarkAll(kept) /\ user' \in Seq(UserLines)
  BY <1>0, <1>1, SavedIs
<1> HIDE DEF kept, m
<1>6. m # <<>> BY <1>2, <1>3, EmptySeq DEF Own
<1>7. /\ Place(m) \in Seq(Line) /\ Theirs(Place(m)) = m /\ HasAnchor(Place(m))
      /\ \A i \in DOMAIN Place(m) : Place(m)[i].new => Place(m)[i].old = 0
  BY <1>0, <1>3, <1>6, PlaceFacts
<1>8. TypeInv'
  <2>1. /\ contents' \in Seq(Line)
        /\ \A i \in DOMAIN contents' : contents'[i].new => contents'[i].old = 0
    BY <1>4, <1>7
  <2>2. user' \in Seq(UserLines)' BY <1>1, <1>5 DEF UserLines
  <2> QED BY <1>0, <1>1, <2>1, <2>2 DEF TypeInv
<1>9. Anchored' BY <1>4, <1>7 DEF Anchored
<1>10. Restorable' BY <1>3, <1>4, <1>5, <1>7 DEF Restorable
<1>11. Settled'
  <2>1. Theirs(contents') = m BY <1>4, <1>7
  <2> QED BY <1>1, <1>3, <1>4, <1>6, <2>1, SettledNext
<1> QED BY <1>8, <1>9, <1>10, <1>11 DEF IInv

(* Clean (RevertEntries) keeps the invariant: it leaves unmarked lines of  *)
(* theirs.                                                                 *)
LEMMA CleanInv == IInv /\ Clean => IInv'
<1> SUFFICES ASSUME IInv, Clean PROVE IInv' OBVIOUS
<1>0. TypeInv /\ Anchored /\ Restorable BY DEF IInv
<1> DEFINE kept == Kept(contents)
           u == UnmarkAll(kept)
<1>1. /\ contents' = u /\ user' = Saved(user) /\ fresh' = FALSE
      /\ file' = file /\ ip' = ip /\ ns' = ns /\ edits' = edits
  BY DEF Clean, RevertConfigInfo
<1>2. user' = u /\ user' \in Seq(UserLines) BY <1>0, <1>1, SavedIs
<1> HIDE DEF u
<1>3. Own(u) /\ UnmarkAll(u) = u BY <1>2, UserOwn
<1>4. /\ u \in Seq(Line) /\ Theirs(u) = u /\ HasAnchor(u)
      /\ \A i \in DOMAIN u : u[i].new => u[i].old = 0
  BY <1>3, OwnAnchored
<1>5. TypeInv'
  <2>1. /\ contents' \in Seq(Line)
        /\ \A i \in DOMAIN contents' : contents'[i].new => contents'[i].old = 0
    BY <1>1, <1>4
  <2>2. user' \in Seq(UserLines)' BY <1>1, <1>2 DEF UserLines
  <2> QED BY <1>0, <1>1, <2>1, <2>2 DEF TypeInv
<1>6. Anchored' BY <1>1, <1>4 DEF Anchored
<1>7. Restorable' BY <1>1, <1>2, <1>3, <1>4 DEF Restorable
<1>8. Settled' BY <1>1 DEF Settled
<1> QED BY <1>5, <1>6, <1>7, <1>8 DEF IInv

(* A line that the user adds anywhere, between added lines too, keeps the  *)
(* invariant: it goes where the same line goes in the file without this    *)
(* tool.                                                                   *)
LEMMA AddLineInv ==
  ASSUME IInv, NEW line \in UserLines, NEW at \in 1..(Len(contents) + 1),
         AddLine(line, at)
  PROVE  IInv'
<1>0. TypeInv /\ Anchored /\ Restorable BY DEF IInv
<1> DEFINE c == contents
           p == SubSeq(c, 1, at - 1)
           q == SubSeq(c, at, Len(c))
           one == <<line>>
           k == Len(Theirs(p)) + 1
           a == Theirs(p)
           b == Theirs(q)
<1>1. /\ contents' = InsertAt(c, at, line) /\ user' = InsertAt(user, k, line)
      /\ fresh' = FALSE /\ edits' = edits + 1 /\ edits < MaxEdits
      /\ file' = file /\ ip' = ip /\ ns' = ns
  BY DEF AddLine, UserEdits
<1>2. /\ c \in Seq(Line) /\ user \in Seq(UserLines)
      /\ user = UnmarkAll(Theirs(c))
      /\ (\A i \in DOMAIN c : c[i].new => c[i].old = 0) /\ HasAnchor(c)
      /\ edits \in 0..MaxEdits
  BY <1>0 DEF TypeInv, Anchored, Restorable
<1>3. line \in Line /\ line.old = 0 /\ ~line.new BY UserLinesFacts, LinesFacts
<1>4. /\ one \in Seq(Line) /\ Theirs(one) = one /\ UnmarkAll(one) = one
  <2>1. one \in Seq(UserLines) OBVIOUS
  <2> HIDE DEF one
  <2> QED BY <2>1, UserOwn, OwnAnchored
<1>5. Inserted(contents', c, at, line, Line) BY <1>1, <1>2, <1>3, InsertFacts
<1> HIDE DEF c
<1>6. /\ contents' \in Seq(Line) /\ Len(contents') = Len(c) + 1
      /\ \A i \in 1..(Len(c) + 1) :
           contents'[i] = IF i < at THEN c[i] ELSE IF i = at THEN line ELSE c[i - 1]
      /\ contents' = p \o (one \o q) /\ c = p \o q
      /\ p \in Seq(Line) /\ q \in Seq(Line)
  BY <1>5 DEF Inserted
<1> HIDE DEF p, q, one
<1>7. a \in Seq(Line) /\ b \in Seq(Line) /\ Theirs(c) = a \o b
  BY <1>6, TheirsType, TheirsConcat
<1>8. Theirs(contents') = a \o (one \o b)
  <2>1. one \o q \in Seq(Line) BY <1>4, <1>6, ConcatProperties
  <2>2. Theirs(one \o q) = one \o b BY <1>4, <1>6, TheirsConcat
  <2> QED BY <1>6, <2>1, <2>2, TheirsConcat, ZenonT(30)
<1> HIDE DEF a, b
<1> DEFINE x == UnmarkAll(a)
           y == UnmarkAll(b)
<1>9. x \in Seq(Line) /\ y \in Seq(Line) /\ Len(x) = Len(a) /\ user = x \o y
  BY <1>2, <1>7, UnmarkAllFacts, UnmarkConcat
<1>10. UnmarkAll(Theirs(contents')) = x \o (one \o y)
  <2>1. one \o b \in Seq(Line) BY <1>4, <1>7, ConcatProperties
  <2>2. UnmarkAll(one \o b) = one \o y BY <1>4, <1>7, UnmarkConcat
  <2> QED BY <1>7, <1>8, <2>1, <2>2, UnmarkConcat
<1> HIDE DEF x, y
<1>11. user' \in Seq(UserLines) /\ user' = x \o (one \o y)
  <2>0. Len(x) \in Nat /\ Len(y) \in Nat /\ Len(user) = Len(x) + Len(y)
    <3>1. x \in Seq(Line) /\ y \in Seq(Line) BY <1>9
    <3>2. Len(x \o y) = Len(x) + Len(y) BY ONLY <3>1, ConcatFacts
    <3>3. Len(x) \in Nat /\ Len(y) \in Nat BY ONLY <3>1
    <3> QED BY <1>9, <3>2, <3>3
  <2>1. k = Len(x) + 1 /\ k \in 1..(Len(user) + 1) /\ k - 1 = Len(x)
    BY <1>9, <2>0 DEF a
  <2> HIDE DEF k
  <2>2. Inserted(user', user, k, line, UserLines)
    BY <1>1, <1>2, <2>1, InsertFacts
  <2>3. /\ user' \in Seq(UserLines)
        /\ user' = SubSeq(user, 1, Len(x))
                     \o (one \o SubSeq(user, Len(x) + 1, Len(x) + Len(y)))
    BY <2>0, <2>1, <2>2 DEF Inserted, one
  <2>4. SubSeq(user, 1, Len(x)) = x
    <3>1. SubSeq(x \o y, 1, Len(x)) = SubSeq(x, 1, Len(x))
      BY <1>9, <2>0, SubSeqOfConcat1
    <3> QED BY <1>9, <3>1, SubSeqFull
  <2>5. SubSeq(user, Len(x) + 1, Len(x) + Len(y)) = y
    <3>1. SubSeq(x \o y, Len(x) + 1, Len(x) + Len(y)) = SubSeq(y, 1, Len(y))
      BY <1>9, <2>0, SubSeqOfConcat2, SMTT(30)
    <3> QED BY <1>9, <3>1, SubSeqFull
  <2> QED BY <2>3, <2>4, <2>5
<1>12. /\ DOMAIN contents' = 1..(Len(c) + 1)
       /\ DOMAIN c = 1..Len(c) /\ Len(c) \in Nat
  BY <1>2, <1>6
<1>13. at \in 1..(Len(c) + 1) BY DEF c
<1>14. Anchored'
  <2> SUFFICES \E i \in DOMAIN contents' :
                 ~contents'[i].new /\ (i = 1 \/ contents'[i] # Blank)
    BY DEF Anchored, HasAnchor
  <2>1. CASE at = 1
    <3>1. 1 \in DOMAIN contents' /\ contents'[1] = line BY <1>6, <1>12, <2>1
    <3> QED BY <1>3, <3>1
  <2>2. CASE at # 1
    <3>1. c # <<>> BY <1>12, <1>13, <2>2
    <3>2. PICK i \in DOMAIN c : ~c[i].new /\ (i = 1 \/ c[i] # Blank)
      BY <1>2, <3>1 DEF HasAnchor
    <3>3. CASE i < at
      <4>1. i \in 1..(Len(c) + 1) BY <1>12
      <4>2. contents'[i] = c[i] BY <1>6, <3>3, <4>1
      <4> QED BY <1>12, <3>2, <4>1, <4>2
    <3>4. CASE i >= at
      <4>1. /\ i + 1 \in 1..(Len(c) + 1) /\ ~(i + 1 < at) /\ i + 1 # at
            /\ (i + 1) - 1 = i
        BY <1>12, <1>13, <3>4
      <4>2. contents'[i + 1] = c[(i + 1) - 1] BY <1>6, <4>1
      <4>3. i # 1 BY <1>12, <1>13, <2>2, <3>4
      <4> QED BY <1>12, <3>2, <4>1, <4>2, <4>3
    <3> QED BY <1>12, <1>13, <3>3, <3>4
  <2> QED BY <2>1, <2>2
<1>15. ASSUME NEW i \in DOMAIN contents', contents'[i].new
       PROVE  contents'[i].old = 0
  <2>0. /\ i \in 1..(Len(c) + 1)
        /\ contents'[i] = IF i < at THEN c[i] ELSE IF i = at THEN line ELSE c[i - 1]
    BY <1>6, <1>12
  <2>1. CASE i < at
    <3>1. i \in DOMAIN c /\ contents'[i] = c[i] BY <1>12, <1>13, <2>0, <2>1
    <3> QED BY <1>2, <1>15, <3>1
  <2>2. CASE i = at
    <3>1. contents'[i] = line BY <1>13, <2>0, <2>2
    <3> QED BY <1>3, <3>1
  <2>3. CASE i > at
    <3>1. i - 1 \in DOMAIN c /\ contents'[i] = c[i - 1]
      BY <1>12, <1>13, <2>0, <2>3
    <3> QED BY <1>2, <1>15, <3>1
  <2> QED BY <1>12, <1>13, <2>1, <2>2, <2>3
<1>16. TypeInv'
  <2>1. user' \in Seq(UserLines)' BY <1>1, <1>11 DEF UserLines
  <2>2. edits' \in 0..MaxEdits BY <1>1, <1>2, BoundsAssumption
  <2> QED BY <1>0, <1>1, <1>6, <1>15, <2>1, <2>2 DEF TypeInv
<1>17. Restorable' BY <1>10, <1>11 DEF Restorable
<1>18. Settled' BY <1>1 DEF Settled
<1> QED BY <1>14, <1>16, <1>17, <1>18 DEF IInv

(* A new topology or name server keeps the invariant: what was marked or   *)
(* added for the old one can still be taken back.                          *)
LEMMA ReconfigureInv == IInv /\ Reconfigure => IInv'
<1> SUFFICES ASSUME IInv, Reconfigure PROVE IInv' OBVIOUS
<1>0. TypeInv /\ Anchored /\ Restorable BY DEF IInv
<1>1. /\ file' = file /\ contents' = contents /\ user' = user /\ fresh' = FALSE
      /\ edits' = edits + 1 /\ edits < MaxEdits
      /\ \/ file = "hosts" /\ ip' \in Topologies /\ ns' = ns
         \/ file = "resolv" /\ ns' \in Addresses /\ ip' = ip
  BY DEF Reconfigure, UserEdits
<1>2. TypeInv'
  <2>1. user' \in Seq(UserLines)' BY <1>0, <1>1 DEF UserLines, TypeInv
  <2>2. edits' \in 0..MaxEdits BY <1>0, <1>1, BoundsAssumption DEF TypeInv
  <2>3. /\ ip' \in IF file' = "hosts" THEN Topologies ELSE {<<>>}
        /\ IF file' = "resolv" THEN ns' \in Addresses ELSE ns' = "none"
    BY <1>0, <1>1 DEF TypeInv
  <2> QED BY <1>0, <1>1, <2>1, <2>2, <2>3 DEF TypeInv
<1>3. Anchored' BY <1>0, <1>1 DEF Anchored
<1>4. Restorable' BY <1>0, <1>1 DEF Restorable
<1>5. Settled' BY <1>1 DEF Settled
<1> QED BY <1>2, <1>3, <1>4, <1>5 DEF IInv

(* So does a step that changes nothing. *)
LEMMA StutterInv == IInv /\ UNCHANGED vars => IInv'
<1> SUFFICES ASSUME IInv, UNCHANGED vars PROVE IInv' OBVIOUS
<1>1. /\ file' = file /\ contents' = contents /\ user' = user /\ ip' = ip
      /\ ns' = ns /\ fresh' = fresh /\ edits' = edits
  BY DEF vars
<1>2. TypeInv /\ Anchored /\ Restorable /\ Settled BY DEF IInv
<1>3. TypeInv' BY <1>1, <1>2 DEF TypeInv, UserLines
<1>4. Anchored' /\ Restorable' BY <1>1, <1>2 DEF Anchored, Restorable
<1>5. Settled'
  <2>1. CASE fresh
    <3> DEFINE k == Theirs(contents)
    <3>1. k # <<>> /\ Mark(k) = k /\ contents = Place(k)
      BY <1>2, <2>1 DEF Settled
    <3>2. Theirs(contents') = k BY <1>1
    <3> HIDE DEF k
    <3> QED BY <1>1, <3>1, <3>2, SettledNext
  <2>2. CASE ~fresh BY <1>1, <2>2 DEF Settled
  <2> QED BY <1>2, <2>1, <2>2 DEF TypeInv
<1> QED BY <1>3, <1>4, <1>5 DEF IInv

(* The invariant always holds. *)
THEOREM Invariant == Spec => []IInv
<1>1. Init => IInv BY InitInv
<1>2. IInv /\ [Next]_vars => IInv'
  BY PrepareInv, CleanInv, AddLineInv, ReconfigureInv, StutterInv DEF Next
<1> QED BY <1>1, <1>2, PTL DEF Spec

-----------------------------------------------------------------------------
(* Types, and the way back *)

(* Every line of the file is one that this tool has added or one of the    *)
(* user's with at most one mark.                                           *)
LEMMA LineKnown ==
  ASSUME IInv, NEW i \in DOMAIN contents
  PROVE  LET line == contents[i]
         IN  \/ line.new /\ line.old = 0
             \/ line.old \in 0..1 /\ [line EXCEPT !.old = 0] \in Lines
<1> DEFINE c == contents
           line == c[i]
           a == Theirs(c)
<1>1. c \in Seq(Line) /\ (c[i].new => c[i].old = 0) /\ i \in DOMAIN c
  BY DEF IInv, TypeInv
<1>2. user = UnmarkAll(a) /\ user \in Seq(UserLines)
  BY DEF IInv, TypeInv, Restorable
<1>3. line \in Line BY <1>1
<1>4. a \in Seq(Line) BY <1>1, TheirsType
<1> HIDE DEF c
<1>5. CASE ~line.new
  <2>1. PICK j \in DOMAIN a : a[j] = line BY <1>1, <1>5, TheirsType
  <2> HIDE DEF a, line
  <2>2. j \in 1..Len(a) /\ Len(user) = Len(a) /\ user[j] = Unmark(line)
    BY <1>2, <1>4, <2>1, UnmarkAllFacts
  <2>3. Unmark(line) \in Lines
    <3>1. user[j] \in UserLines BY <1>2, <2>2
    <3> QED BY <2>2, <3>1, UserLinesFacts
  <2>4. /\ line = [old |-> line.old, new |-> line.new,
                   first |-> line.first, rest |-> line.rest]
        /\ line.old \in 0..1
    BY <1>3, LineShape
  <2>5. Unmark(line) = [line EXCEPT !.old = 0] BY <2>4 DEF Unmark
  <2> QED BY <2>3, <2>4, <2>5 DEF line, c
<1> QED BY <1>1, <1>5 DEF c

(* The variables always have their types; in particular no line is         *)
(* commented out twice and no added one ever is, whatever the order of     *)
(* prepares, cleans and edits.                                             *)
THEOREM TypeCorrect == Spec => []TypeOK
<1>1. IInv => TypeOK
  <2> SUFFICES ASSUME IInv PROVE TypeOK OBVIOUS
  <2>1. TypeInv BY DEF IInv
  <2>2. \A line \in ToSet(user) : line \in Lines
    <3>1. \A i \in DOMAIN user : user[i] \in Lines
      <4>1. user \in Seq(UserLines) BY <2>1 DEF TypeInv
      <4> QED BY <4>1, UserLinesFacts
    <3> QED BY <3>1 DEF ToSet
  <2>3. \A line \in ToSet(contents) :
          \/ line.new /\ line.old = 0
          \/ line.old \in 0..1 /\ [line EXCEPT !.old = 0] \in Lines
    <3> SUFFICES ASSUME NEW line \in ToSet(contents)
                 PROVE  \/ line.new /\ line.old = 0
                        \/ line.old \in 0..1 /\ [line EXCEPT !.old = 0] \in Lines
      OBVIOUS
    <3>1. PICK i \in DOMAIN contents : line = contents[i] BY DEF ToSet
    <3> QED BY <3>1, LineKnown
  <2>4. /\ file \in {"hosts", "resolv"} /\ fresh \in BOOLEAN
        /\ edits \in 0..MaxEdits
        /\ ip \in Topologies \union {<<>>} /\ ns \in Addresses \union {"none"}
    BY <2>1 DEF TypeInv
  <2> QED BY <2>2, <2>3, <2>4 DEF TypeOK
<1> QED BY <1>1, Invariant, PTL

(* A text of one blank line is not cut. *)
LEMMA SplitBlank == Split(<<Blank>>) = <<Blank>>
<1>1. <<Blank>> \in Seq({Blank}) /\ Len(<<Blank>>) = 1 OBVIOUS
<1>2. Trimmed(<<Blank>>, 1) BY <1>1 DEF Trimmed
<1>3. Split(<<Blank>>) = SubSeq(<<Blank>>, 1, 1) BY <1>1, <1>2, SplitIs
<1>4. SubSeq(<<Blank>>, 1, 1) = <<Blank>> BY <1>1, SubSeqFull
<1> QED BY <1>3, <1>4

(* At any time clean gives the user's file back, line for line and in      *)
(* order, but for blank lines at the end (RevertConfigInfo, cleanup.go).   *)
THEOREM UserFileRestored == Spec => []Revertible
<1>1. IInv => Revertible
  <2> SUFFICES ASSUME IInv PROVE Revertible OBVIOUS
  <2> DEFINE c == contents
             a == Theirs(c)
  <2>1. /\ c \in Seq(Line) /\ HasAnchor(c) /\ user = UnmarkAll(a)
    BY DEF IInv, TypeInv, Anchored, Restorable
  <2>2. RevertConfigInfo(contents) = UnmarkAll(Kept(c)) BY DEF RevertConfigInfo
  <2> HIDE DEF c
  <2>3. a \in Seq(Line) BY <2>1, TheirsType
  <2>4. CASE c = <<>>
    <3>1. a = <<>>
      <4>1. \A i \in DOMAIN c : c[i].new BY <2>4
      <4> QED BY <2>1, <4>1, TheirsNone
    <3>2. user = <<>>
      <4>1. user \in Seq(Line) /\ Len(user) = Len(a)
        BY <2>1, <2>3, UnmarkAllFacts
      <4> QED BY <3>1, <4>1, EmptySeq
    <3>3. UnmarkAll(Kept(c)) = <<Blank>> BY <2>1, <2>4, KeptFacts, BlankLine
    <3> QED BY <2>2, <3>2, <3>3, SplitEmpty, SplitBlank DEF Revertible
  <2>5. CASE c # <<>>
    <3>1. PICK n \in 1..Len(a) : /\ Kept(c) = SubSeq(a, 1, n)
                                 /\ \A i \in (n + 1)..Len(a) : a[i] = Blank
      BY <2>1, <2>5, KeptFacts
    <3> HIDE DEF a
    <3>2. UnmarkAll(Kept(c)) = SubSeq(user, 1, n)
      BY <2>1, <2>3, <3>1, UnmarkPrefix
    <3>3. /\ user \in Seq(Line) /\ Len(user) = Len(a)
          /\ \A i \in 1..Len(a) : user[i] = Unmark(a[i])
      BY <2>1, <2>3, UnmarkAllFacts
    <3>4. Unmark(Blank) = Blank BY UserLinesFacts, LinesFacts, UnmarkFacts
    <3>5. Len(a) \in Nat BY <2>3
    <3>6. \A i \in (n + 1)..Len(user) : user[i] = Blank
      <4> TAKE i \in (n + 1)..Len(user)
      <4>1. i \in 1..Len(a) /\ i \in (n + 1)..Len(a) BY <3>1, <3>3, <3>5
      <4> QED BY <3>1, <3>3, <3>4, <4>1
    <3>7. Split(SubSeq(user, 1, n)) = Split(user)
      BY <3>1, <3>3, <3>6, SplitPrefix
    <3> QED BY <2>2, <3>2, <3>7 DEF Revertible
  <2> QED BY <2>4, <2>5
<1> QED BY <1>1, Invariant, PTL

-----------------------------------------------------------------------------
(* prepare after prepare *)

(* A blank line names no node. *)
LEMMA BlankUnmatched ==
  ASSUME TypeInv, file = "hosts"
  PROVE  MatchingNodes(Blank) = {}
<1> SUFFICES ASSUME NEW n \in MatchingNodes(Blank) PROVE FALSE OBVIOUS
<1>1. n \in DOMAIN ip /\ HasWord(Blank, n) BY DEF MatchingNodes
<1>2. n \in Names BY <1>1, TopologyFacts DEF TypeInv
<1>3. Words(Blank) = {""} BY BlankFacts DEF Words
<1>4. PICK w \in Words(Blank) : w = n \/ <<n, w>> \in Within
  BY <1>1, Zenon DEF HasWord
<1>5. n # "" BY <1>2, NameOrderAssumption
<1>6. <<n, "">> \notin Within BY WithinAssumption
<1>7. w = "" BY <1>3, <1>4
<1> QED BY <1>4, <1>5, <1>6, <1>7

(* A text that ends in an added line is not cut. *)
LEMMA LastNew ==
  ASSUME NEW s \in Seq(Line), s # <<>>, s[Len(s)].new
  PROVE  Split(s) = s
<1>1. Len(s) \in 1..Len(s) /\ Len(s) \in Nat BY EmptySeq
<1>2. s[Len(s)] # Blank BY BlankFacts
<1>3. Trimmed(s, Len(s)) BY <1>1, <1>2 DEF Trimmed
<1> QED BY <1>3, SplitIs, SubSeqFull

(* In a text that Mark leaves alone nothing is in the way, and no name     *)
(* server after the first is the cluster's.                                *)
LEMMA MarkedFacts ==
  ASSUME TypeInv, NEW k, Own(k), Mark(k) = k
  PROVE  /\ file = "hosts" => \A i \in DOMAIN k : ~InTheWay(k[i])
         /\ file = "resolv" =>
              \A i \in Servers(k) : i # FirstServer(k) => ~HasWord(k[i], ns)
<1>0. file \in {"hosts", "resolv"} BY DEF TypeInv
<1>1. PICK S \in SUBSET DOMAIN k :
        /\ Mark(k) = Marks(k, S) /\ \A i \in S : k[i].old = 0
        /\ file = "hosts" => S = {i \in DOMAIN k : InTheWay(k[i])}
        /\ file = "resolv" =>
             S = {i \in Servers(k) :
                    i # FirstServer(k) /\ HasWord(k[i], ns)}
  BY <1>0, MarkIs
<1>2. S = {}
  <2> SUFFICES ASSUME NEW i \in S PROVE FALSE OBVIOUS
  <2>1. k = Marks(k, S) BY <1>1, Zenon
  <2>2. Marks(k, S)[i] = CommentOut(k[i]) BY <1>1 DEF Marks
  <2>3. k[i] \in Line /\ k[i].old = 0
    <3>1. k \in Seq(Line) BY DEF Own
    <3>2. i \in DOMAIN k /\ k[i].old = 0 BY <1>1
    <3> QED BY <3>1, <3>2
  <2>4. CommentOut(k[i]).old = 1 BY <2>3, CommentOutFacts
  <2>5. k[i] = CommentOut(k[i]) BY ONLY <2>1, <2>2, Zenon
  <2> QED BY <2>3, <2>4, <2>5
<1> QED BY <1>1, <1>2

(* Blank lines at the end make no difference to what is marked or added. *)
LEMMA PrefixFacts ==
  ASSUME TypeInv, NEW k, Own(k), NEW n \in 1..Len(k),
         \A i \in (n + 1)..Len(k) : k[i] = Blank
  PROVE  LET p == SubSeq(k, 1, n)
         IN  /\ Own(p) /\ Len(p) = n /\ \A i \in 1..n : p[i] = k[i]
             /\ Servers(p) = Servers(k)
             /\ file = "hosts" => Entries(p) = Entries(k)
             /\ Mark(k) = k => Mark(p) = p
<1> DEFINE p == SubSeq(k, 1, n)
<1>1. /\ k \in Seq(Line) /\ Len(k) \in Nat /\ DOMAIN k = 1..Len(k)
      /\ \A i \in 1..Len(k) : k[i] \in Line /\ ~k[i].new
  BY DEF Own
<1>2. /\ p \in Seq(Line) /\ Len(p) = n
      /\ (\A i \in 1..n : p[i] = k[i]) /\ DOMAIN p = 1..n
  BY <1>1
<1> HIDE DEF p
<1>3. \A i \in 1..n : i \in 1..Len(k) BY <1>1
<1>4. Own(p) BY <1>1, <1>2, <1>3 DEF Own
<1>5. \A i \in 1..Len(k) : i \in 1..n \/ k[i] = Blank BY <1>1
<1>6. Servers(p) = Servers(k)
  <2>1. ~IsNameServer(Blank) BY BlankFacts DEF IsNameServer
  <2>2. Servers(p) = {i \in 1..n : IsNameServer(p[i])} BY <1>2 DEF Servers
  <2>3. Servers(k) = {i \in 1..Len(k) : IsNameServer(k[i])} BY <1>1 DEF Servers
  <2>4. ASSUME NEW i \in Servers(p) PROVE i \in Servers(k)
    BY <1>2, <1>3, <2>2, <2>3, <2>4
  <2>5. ASSUME NEW i \in Servers(k) PROVE i \in Servers(p)
    BY <1>2, <1>5, <2>1, <2>2, <2>3, <2>5
  <2> QED BY <2>4, <2>5
<1>7. ASSUME file = "hosts" PROVE Entries(p) = Entries(k)
  <2>1. MatchingNodes(Blank) = {} BY <1>7, BlankUnmatched
  <2>2. ASSUME NEW l \in Proper(p) PROVE l \in Proper(k)
    <3>1. PICK i \in 1..n : l = p[i] BY <1>2, <2>2 DEF Proper, ToSet
    <3>2. l = k[i] /\ i \in DOMAIN k BY <1>1, <1>2, <1>3, <3>1
    <3> QED BY <2>2, <3>2 DEF Proper, ToSet
  <2>3. ASSUME NEW l \in Proper(k) PROVE l \in Proper(p)
    <3>1. PICK i \in 1..Len(k) : l = k[i] BY <1>1, <2>3 DEF Proper, ToSet
    <3>2. l # Blank BY <2>1, <2>3 DEF Proper
    <3>3. l = p[i] /\ i \in DOMAIN p BY <1>2, <1>5, <3>1, <3>2
    <3> QED BY <2>3, <3>3 DEF Proper, ToSet
  <2>4. Proper(p) = Proper(k) BY <2>2, <2>3
  <2>5. SeenNodes(p) = {MatchingNode(line) : line \in Proper(p)}
    BY DEF SeenNodes, Proper
  <2>6. SeenNodes(k) = {MatchingNode(line) : line \in Proper(k)}
    BY DEF SeenNodes, Proper
  <2>7. SeenNodes(p) = SeenNodes(k) BY <2>4, <2>5, <2>6
  <2> QED BY <2>7 DEF Entries
<1>8. ASSUME Mark(k) = k PROVE Mark(p) = p
  <2>0. file \in {"hosts", "resolv"} BY DEF TypeInv
  <2>3. PICK T \in SUBSET DOMAIN p :
          /\ Mark(p) = Marks(p, T)
          /\ file = "hosts" => T = {i \in DOMAIN p : InTheWay(p[i])}
          /\ file = "resolv" =>
               T = {i \in Servers(p) :
                      i # FirstServer(p) /\ HasWord(p[i], ns)}
    BY <1>4, <2>0, MarkIs
  <2>4. T = {}
    <3> SUFFICES ASSUME NEW i \in T PROVE FALSE OBVIOUS
    <3>1. i \in 1..n /\ i \in DOMAIN k /\ p[i] = k[i] BY <1>1, <1>2, <1>3, <2>3
    <3>2. CASE file = "hosts"
      <4>1. InTheWay(p[i]) BY <2>3, <3>2
      <4> QED BY <1>8, <3>1, <3>2, <4>1, MarkedFacts
    <3>3. CASE file = "resolv"
      <4>1. i \in Servers(p) /\ i # FirstServer(p) /\ HasWord(p[i], ns)
        BY <2>3, <3>3
      <4>2. FirstServer(p) = FirstServer(k) BY <1>6 DEF FirstServer
      <4>3. i \in Servers(k) /\ i # FirstServer(k) /\ HasWord(k[i], ns)
        BY <1>6, <3>1, <4>1, <4>2
      <4> QED BY <1>8, <3>3, <4>3, MarkedFacts
    <3> QED BY <2>0, <3>2, <3>3
  <2>5. Marks(p, {}) = p BY <1>2 DEF Marks
  <2> QED BY <2>3, <2>4, <2>5
<1> QED BY <1>2, <1>4, <1>6, <1>7, <1>8 DEF p

(* Nor do they, but for themselves, to the file that prepare leaves. *)
LEMMA PlacePrefix ==
  ASSUME TypeInv, NEW k, Own(k), k # <<>>, NEW n \in 1..Len(k),
         \A i \in (n + 1)..Len(k) : k[i] = Blank,
         Split(Place(k)) = Place(k) => n = Len(k)
  PROVE  Split(Place(SubSeq(k, 1, n))) = Split(Place(k))
<1> DEFINE p == SubSeq(k, 1, n)
           c == Place(k)
<1>1. /\ k \in Seq(Line) /\ Len(k) \in Nat /\ DOMAIN k = 1..Len(k)
  BY DEF Own
<1>2. /\ Own(p) /\ Len(p) = n /\ (\A i \in 1..n : p[i] = k[i])
      /\ Servers(p) = Servers(k)
      /\ file = "hosts" => Entries(p) = Entries(k)
  BY PrefixFacts
<1>3. ASSUME n = Len(k) PROVE Split(Place(p)) = Split(c)
  <2>1. p = k BY <1>1, <1>3, SubSeqFull
  <2> QED BY <2>1
<1>4. ASSUME Place(p) = p, c = k PROVE Split(Place(p)) = Split(c)
  BY <1>1, <1>4, SplitPrefix
<1>5. ASSUME NEW e \in Seq(Line), e # <<>>, \A i \in DOMAIN e : e[i].new,
             c = k \o e
      PROVE  n = Len(k)
  <2>0. /\ Len(e) \in Nat /\ Len(e) >= 1
        /\ Len(e) \in DOMAIN e /\ Len(e) \in 1..Len(e)
    BY <1>5, EmptySeq
  <2>1. /\ k \o e \in Seq(Line) /\ Len(k \o e) = Len(k) + Len(e)
        /\ \A i \in 1..Len(e) : (k \o e)[Len(k) + i] = e[i]
    <3>1. k \in Seq(Line) /\ e \in Seq(Line) BY <1>1, <1>5
    <3> QED BY ONLY <3>1, ConcatFacts
  <2>2. (k \o e)[Len(k \o e)] = e[Len(e)] BY <2>0, <2>1
  <2>3. (k \o e)[Len(k \o e)].new BY <1>5, <2>0, <2>2
  <2>4. k \o e # <<>>
    <3>1. Len(k \o e) # 0
      <4>1. Len(k) \in Nat BY <1>1
      <4>2. Len(k \o e) = Len(k) + Len(e) BY <2>1
      <4> QED BY ONLY <2>0, <4>1, <4>2
    <3>2. k \o e \in Seq(Line) BY <2>1
    <3> QED BY ONLY <3>1, <3>2
  <2>5. Split(k \o e) = k \o e BY <2>1, <2>3, <2>4, LastNew
  <2> QED BY <1>5, <2>5
<1>6. CASE file = "hosts"
  <2>1. c = k \o Entries(k) /\ Place(p) = p \o Entries(k)
    BY <1>2, <1>6 DEF Place
  <2>2. /\ Entries(k) \in Seq(Line)
        /\ \A i \in DOMAIN Entries(k) : Entries(k)[i].new
    BY <1>6, EntriesFacts
  <2> HIDE DEF p, c
  <2>3. CASE Entries(k) = <<>>
    <3>1. p \in Seq(Line) BY <1>2 DEF Own
    <3>2. c = k /\ Place(p) = p BY <1>1, <2>1, <2>3, <3>1, ConcatEmptySeq
    <3> QED BY <1>4, <3>2 DEF p, c
  <2>4. CASE Entries(k) # <<>>
    <3>1. n = Len(k) BY <1>5, <2>1, <2>2, <2>4
    <3> QED BY <1>3, <3>1 DEF p, c
  <2> QED BY <2>3, <2>4 DEF p, c
<1>7. CASE file = "resolv"
  <2> DEFINE entry == Added("nameserver", ns)
             f == FirstServer(k)
  <2>1. entry \in Line /\ entry.new BY <1>7, NameServerLine
  <2>2. c = AddNameServer(k) /\ Place(p) = AddNameServer(p) BY <1>7 DEF Place
  <2>3. FirstServer(p) = f BY <1>2 DEF FirstServer
  <2> HIDE DEF entry, f, p, c
  <2>4. CASE Servers(k) = {}
    <3>1. c = Append(k, entry) BY <2>2, <2>4 DEF AddNameServer, entry
    <3>2. c = k \o <<entry>> BY <1>1, <2>1, <3>1, AppendIsConcat
    <3>3. /\ <<entry>> \in Seq(Line) /\ <<entry>> # <<>>
          /\ \A i \in DOMAIN <<entry>> : <<entry>>[i].new
      <4>1. /\ <<entry>> \in Seq(Line) /\ <<entry>> # <<>>
            /\ \A i \in DOMAIN <<entry>> : <<entry>>[i] = entry
        BY <2>1
      <4> QED BY <2>1, <4>1, Zenon
    <3> DEFINE e == <<entry>>
    <3> HIDE DEF e
    <3>4. n = Len(k) BY <1>5, <3>2, <3>3 DEF e
    <3> QED BY <1>3, <3>4 DEF p, c
  <2>5. CASE Servers(k) # {}
    <3>1. f \in Servers(k) /\ f \in Servers(p)
      BY <1>2, <2>5, FirstServerFacts DEF f
    <3>2. f \in 1..n /\ f \in 1..Len(k)
      <4>1. p \in Seq(Line) /\ Len(p) = n BY <1>2 DEF Own
      <4>2. f \in DOMAIN p /\ f \in DOMAIN k BY <3>1 DEF Servers
      <4>3. DOMAIN p = 1..n BY <4>1
      <4> QED BY <1>1, <4>2, <4>3
    <3>3. p[f] = k[f] BY <1>2, <3>2
    <3>4. CASE HasWord(k[f], ns)
      <4>1. c = k BY <2>2, <2>5, <3>4 DEF AddNameServer, f
      <4>2. Place(p) = p
        BY <1>2, <2>2, <2>3, <2>5, <3>3, <3>4 DEF AddNameServer
      <4> QED BY <1>4, <4>1, <4>2 DEF p, c
    <3>5. CASE ~HasWord(k[f], ns)
      <4> DEFINE r == Place(p)
                 m == n + 1
      <4>1. c = InsertAt(k, f, entry)
        BY <2>2, <2>5, <3>5 DEF AddNameServer, f, entry
      <4>2. r = InsertAt(p, f, entry)
        BY <1>2, <2>2, <2>3, <2>5, <3>3, <3>5 DEF AddNameServer, entry
      <4>3. p \in Seq(Line) /\ f \in 1..(Len(k) + 1) /\ f \in 1..(Len(p) + 1)
        <5>1. p \in Seq(Line) /\ Len(p) = n BY <1>2 DEF Own
        <5>2. f \in 1..(Len(k) + 1) /\ f \in 1..(n + 1)
          <6>1. Len(k) \in Nat BY <1>1
          <6>2. n \in 1..Len(k) OBVIOUS
          <6> QED BY ONLY <3>2, <6>1, <6>2
        <5> QED BY <5>1, <5>2
      <4>4. Inserted(c, k, f, entry, Line)
        BY <1>1, <2>1, <4>1, <4>3, InsertFacts
      <4>5. Inserted(r, p, f, entry, Line) BY <2>1, <4>2, <4>3, InsertFacts
      <4>6. /\ c \in Seq(Line) /\ Len(c) = Len(k) + 1
            /\ \A i \in 1..(Len(k) + 1) :
                 c[i] = IF i < f THEN k[i] ELSE IF i = f THEN entry ELSE k[i - 1]
        BY <4>4 DEF Inserted
      <4>7. /\ r \in Seq(Line) /\ Len(r) = m
            /\ \A i \in 1..m :
                 r[i] = IF i < f THEN p[i] ELSE IF i = f THEN entry ELSE p[i - 1]
        BY <1>2, <4>5 DEF Inserted
      <4> HIDE DEF r
      <4>8. /\ m \in 1..Len(c) /\ \A i \in 1..m : i \in 1..(Len(k) + 1)
            /\ \A i \in (m + 1)..Len(c) :
                 i \in 1..(Len(k) + 1) /\ i > f /\ i - 1 \in (n + 1)..Len(k)
        <5>1. Len(c) = Len(k) + 1 BY <4>6
        <5>2. Len(k) \in Nat /\ n \in 1..Len(k) /\ f \in 1..n BY <1>1, <3>2
        <5> QED BY ONLY <5>1, <5>2
      <4>9. \A i \in 1..m : r[i] = c[i]
        <5> TAKE i \in 1..m
        <5>1. i \in 1..(Len(k) + 1) BY <4>8
        <5>2. CASE i < f
          <6>1. i \in 1..n BY <3>2, <5>2
          <6>2. r[i] = p[i] /\ c[i] = k[i] BY <4>6, <4>7, <5>1, <5>2
          <6> QED BY <1>2, <6>1, <6>2
        <5>3. CASE i = f
          <6>1. ~(i < f) BY <3>2, <5>3
          <6> QED BY <4>6, <4>7, <5>1, <5>3, <6>1
        <5>4. CASE i > f
          <6>1. i - 1 \in 1..n /\ ~(i < f) /\ i # f BY <3>2, <5>4
          <6>2. r[i] = p[i - 1] /\ c[i] = k[i - 1] BY <4>6, <4>7, <5>1, <6>1
          <6> QED BY <1>2, <6>1, <6>2
        <5> QED BY <3>2, <5>2, <5>3, <5>4
      <4>10. SubSeq(c, 1, m) = r
        <5>1. /\ SubSeq(c, 1, m) \in Seq(Line) /\ Len(SubSeq(c, 1, m)) = m
              /\ \A i \in 1..m : SubSeq(c, 1, m)[i] = c[i]
          BY <4>6, <4>8
        <5> QED BY <4>7, <4>9, <5>1, SeqEqual
      <4>11. \A i \in (m + 1)..Len(c) : c[i] = Blank
        <5> TAKE i \in (m + 1)..Len(c)
        <5>1. i \in 1..(Len(k) + 1) /\ ~(i < f) /\ i # f BY <3>2, <4>8
        <5>2. c[i] = k[i - 1] BY <4>6, <5>1
        <5>3. i - 1 \in (n + 1)..Len(k) BY <4>8
        <5> QED BY <5>2, <5>3
      <4> HIDE DEF m
      <4>12. Split(r) = Split(c) BY <4>6, <4>8, <4>10, <4>11, SplitPrefix
      <4> QED BY <4>12 DEF r, p, c
    <3> QED BY <3>4, <3>5
  <2> QED BY <2>4, <2>5
<1> QED BY <1>6, <1>7 DEF TypeInv

(* A prepare after a prepare changes nothing but blank lines at the end    *)
(* (prepare.go:181 and 254: "prepare was previousy run, filter out         *)
(* additions").                                                            *)
THEOREM PrepareTwice == Spec => []PrepareIsIdempotent
<1>1. IInv => PrepareIsIdempotent
  <2> SUFFICES ASSUME IInv, fresh
               PROVE  Split(Updated(contents)) = Split(contents)
    BY DEF PrepareIsIdempotent
  <2> DEFINE k == Theirs(contents)
  <2>1. TypeInv /\ Anchored /\ contents \in Seq(Line) /\ HasAnchor(contents)
    BY DEF IInv, TypeInv, Anchored
  <2>2. k # <<>> /\ Mark(k) = k /\ contents = Place(k) BY DEF IInv, Settled
  <2>3. Own(k) BY <2>1, TheirsType DEF Own
  <2>4. contents # <<>>
    <3>1. ASSUME contents = <<>> PROVE FALSE
      <4>1. \A i \in DOMAIN contents : contents[i].new BY <3>1
      <4> QED BY <2>1, <2>2, <4>1, TheirsNone
    <3> QED BY <3>1
  <2>5. PICK n \in 1..Len(k) : /\ Kept(contents) = SubSeq(k, 1, n)
                               /\ \A i \in (n + 1)..Len(k) : k[i] = Blank
    BY <2>1, <2>4, KeptFacts
  <2>6. Updated(contents) = Place(Mark(SubSeq(k, 1, n)))
    BY <2>1, <2>5, UpdatedIs
  <2>7. ASSUME Split(contents) = contents PROVE n = Len(k)
    <3>1. Kept(contents) = k BY <2>7 DEF Kept
    <3>2. k \in Seq(Line) BY <2>3 DEF Own
    <3> HIDE DEF k
    <3>3. Len(SubSeq(k, 1, n)) = n BY <3>2
    <3> QED BY <2>5, <3>1, <3>3
  <2> HIDE DEF k
  <2>8. Mark(SubSeq(k, 1, n)) = SubSeq(k, 1, n)
    BY <2>1, <2>2, <2>3, <2>5, PrefixFacts
  <2>9. Split(Place(SubSeq(k, 1, n))) = Split(Place(k))
    BY <2>1, <2>2, <2>3, <2>5, <2>7, PlacePrefix
  <2> QED BY <2>2, <2>6, <2>8, <2>9
<1> QED BY <1>1, Invariant, PTL

-----------------------------------------------------------------------------
(* What the files say after prepare *)

(* A name server of the user is the cluster's, as the code sees it by      *)
(* looking for a substring, only if its address is the same.               *)
LEMMA UserServer ==
  ASSUME IInv, file = "resolv", \A a \in Addresses : <<ns, a>> \notin Within,
         NEW k, k = Theirs(contents), NEW i \in Servers(k)
  PROVE  HasWord(k[i], ns) <=> k[i].rest = {ns}
<1>1. /\ contents \in Seq(Line) /\ user = UnmarkAll(k)
      /\ user \in Seq(UserLines)
      /\ ns \in Addresses
  BY DEF IInv, TypeInv, Restorable
<1>2. k \in Seq(Line) BY <1>1, TheirsType
<1>3. /\ i \in 1..Len(k) /\ k[i] \in Line
      /\ k[i].old = 0 /\ k[i].first = "nameserver"
  BY <1>2 DEF Servers, IsNameServer
<1>4. user[i] = k[i]
  <2>1. user[i] = Unmark(k[i]) BY <1>1, <1>2, <1>3, UnmarkAllFacts
  <2> QED BY <1>3, <2>1, UnmarkFacts
<1>5. k[i] \in UserLines
  <2>1. Len(user) = Len(k) BY <1>1, <1>2, UnmarkAllFacts
  <2>2. i \in DOMAIN user BY <1>1, <1>3, <2>1
  <2> QED BY <1>1, <1>4, <2>2
<1>6. k[i] # Blank BY <1>3, BlankFacts
<1>7. k[i] \in UserResolv BY <1>5, <1>6 DEF UserLines
<1>8. PICK a \in Addresses : k[i].rest = {a} BY <1>3, <1>7, UserAssumption
<1>9. Words(k[i]) = {"nameserver", a} BY <1>3, <1>8 DEF Words
<1>10. "nameserver" # ns BY <1>1, AddressesAssumption
<1>11. <<ns, "nameserver">> \notin Within /\ <<ns, a>> \notin Within
  BY WithinAssumption
<1>12. HasWord(k[i], ns) => a = ns
  <2> SUFFICES ASSUME HasWord(k[i], ns) PROVE a = ns OBVIOUS
  <2>1. PICK w \in Words(k[i]) : w = ns \/ <<ns, w>> \in Within
    BY Zenon DEF HasWord
  <2> QED BY <1>9, <1>10, <1>11, <2>1
<1>13. a = ns => HasWord(k[i], ns) BY <1>9 DEF HasWord
<1>14. k[i].rest = {ns} <=> a = ns BY <1>8
<1> QED BY <1>12, <1>13, <1>14

(* After prepare the first name server of resolv.conf is the cluster's and *)
(* no later one is (UpdateResolvConfInfo, prepare.go).                     *)
THEOREM ClusterNameServer == Spec => []NameServerFirst
<1>1. IInv => NameServerFirst
  <2> SUFFICES ASSUME IInv, fresh, file = "resolv",
                      \A a \in Addresses : <<ns, a>> \notin Within
               PROVE  \E i \in Servers(contents) :
                        /\ contents[i].rest = {ns}
                        /\ \A j \in Servers(contents) \ {i} :
                             j > i /\ contents[j].rest # {ns}
    BY DEF NameServerFirst
  <2> DEFINE k == Theirs(contents)
             entry == Added("nameserver", ns)
             f == FirstServer(k)
  <2>1. TypeInv /\ contents \in Seq(Line) BY DEF IInv, TypeInv
  <2>2. Mark(k) = k /\ contents = Place(k) BY DEF IInv, Settled
  <2>3. Own(k) /\ k \in Seq(Line) BY <2>1, TheirsType DEF Own
  <2>4. \A i \in Servers(k) : HasWord(k[i], ns) <=> k[i].rest = {ns}
    <3> TAKE i \in Servers(k)
    <3> QED BY UserServer
  <2>5. \A i \in Servers(k) : i # f => ~HasWord(k[i], ns)
    BY <2>1, <2>2, <2>3, MarkedFacts
  <2>6. entry \in Line /\ IsNameServer(entry) /\ entry.rest = {ns}
    BY <2>1, NameServerLine DEF IsNameServer
  <2>7. contents = AddNameServer(k) BY <2>2 DEF Place
  <2>8. Len(k) \in Nat /\ DOMAIN k = 1..Len(k) BY <2>3
  <2> DEFINE c == contents
  <2> SUFFICES \E i \in Servers(c) :
                 /\ c[i].rest = {ns}
                 /\ \A j \in Servers(c) \ {i} : j > i /\ c[j].rest # {ns}
    OBVIOUS
  <2>9. CASE Servers(k) = {}
    <3> DEFINE n == Len(k) + 1
    <3>1. c = Append(k, entry) BY <2>7, <2>9 DEF AddNameServer
    <3> HIDE DEF k, entry, c
    <3>2. /\ DOMAIN c = 1..n /\ c[n] = entry
          /\ \A j \in 1..Len(k) : c[j] = k[j]
      BY <2>3, <2>6, <2>8, <3>1, AppendProperties
    <3>3. n \in Servers(c) /\ c[n].rest = {ns} BY <2>6, <2>8, <3>2 DEF Servers
    <3>4. ASSUME NEW j \in Servers(c) \ {n} PROVE FALSE
      <4>1. j \in 1..n /\ IsNameServer(c[j]) BY <3>2 DEF Servers
      <4>2. j \in 1..Len(k) BY <2>8, <4>1
      <4>3. j \in Servers(k) BY <2>8, <3>2, <4>1, <4>2 DEF Servers
      <4> QED BY <2>9, <4>3
    <3> QED BY <3>3, <3>4
  <2>10. CASE Servers(k) # {} /\ HasWord(k[f], ns)
    <3>1. c = k BY <2>7, <2>10 DEF AddNameServer
    <3>2. f \in Servers(k) /\ \A j \in Servers(k) : f <= j
      BY <2>3, <2>10, FirstServerFacts
    <3> HIDE DEF k, c, f
    <3>3. k[f].rest = {ns} BY <2>4, <2>10, <3>2
    <3>4. ASSUME NEW j \in Servers(k) \ {f} PROVE j > f /\ k[j].rest # {ns}
      <4>1. j \in Nat /\ f \in Nat BY <2>8, <3>2 DEF Servers
      <4>2. f <= j /\ j # f BY <3>2
      <4>3. k[j].rest # {ns} BY <2>4, <2>5
      <4> QED BY <4>1, <4>2, <4>3
    <3> QED BY <3>1, <3>2, <3>3, <3>4
  <2>11. CASE Servers(k) # {} /\ ~HasWord(k[f], ns)
    <3>1. c = InsertAt(k, f, entry) BY <2>7, <2>11 DEF AddNameServer
    <3>2. f \in Servers(k) /\ \A j \in Servers(k) : f <= j
      BY <2>3, <2>11, FirstServerFacts
    <3> HIDE DEF k, c, f, entry
    <3>3. f \in 1..Len(k) /\ f \in 1..(Len(k) + 1) BY <2>8, <3>2 DEF Servers
    <3>4. Inserted(c, k, f, entry, Line) BY <2>3, <2>6, <3>1, <3>3, InsertFacts
    <3>5. /\ c \in Seq(Line) /\ Len(c) = Len(k) + 1
          /\ \A i \in 1..(Len(k) + 1) :
               c[i] = IF i < f THEN k[i] ELSE IF i = f THEN entry ELSE k[i - 1]
      BY <3>4 DEF Inserted
    <3>6. DOMAIN c = 1..(Len(k) + 1) BY <3>5
    <3>7. ~(f < f) BY <3>3
    <3>8. c[f] = entry BY <3>3, <3>5, <3>7
    <3>9. f \in Servers(c) /\ c[f].rest = {ns}
      BY <2>6, <3>3, <3>6, <3>8 DEF Servers
    <3>10. ASSUME NEW j \in Servers(c) \ {f} PROVE j > f /\ c[j].rest # {ns}
      <4>1. j \in 1..(Len(k) + 1) /\ IsNameServer(c[j]) BY <3>6 DEF Servers
      <4>2. ASSUME j < f PROVE FALSE
        <5>1. c[j] = k[j] BY <3>5, <4>1, <4>2
        <5>2. j \in DOMAIN k BY <2>8, <3>3, <4>1, <4>2
        <5>3. j \in Servers(k) BY <4>1, <5>1, <5>2 DEF Servers
        <5>4. f <= j BY <3>2, <5>3
        <5> QED BY <3>3, <4>1, <4>2, <5>4
      <4>3. j > f BY <3>3, <4>1, <4>2
      <4>4. c[j].rest # {ns}
        <5>1. ~(j < f) /\ j # f /\ j - 1 \in 1..Len(k)
          BY <2>8, <3>3, <4>1, <4>3
        <5>2. c[j] = k[j - 1] BY <3>5, <4>1, <5>1
        <5>3. j - 1 \in Servers(k) BY <2>8, <4>1, <5>1, <5>2 DEF Servers
        <5>4. ~HasWord(k[j - 1], ns) BY <2>5, <2>11, <5>3
        <5> QED BY <2>4, <5>2, <5>3, <5>4
      <4> QED BY <4>3, <4>4
    <3> QED BY <3>9, <3>10
  <2> QED BY <2>9, <2>10, <2>11
<1> QED BY <1>1, Invariant, PTL

(* The node that the code takes a line for is named in it. *)
LEMMA MatchingNodeFacts ==
  ASSUME TypeInv, file = "hosts", NEW l, MatchingNodes(l) # {}
  PROVE  MatchingNode(l) \in MatchingNodes(l)
<1> DEFINE I == {i \in DOMAIN NodeInfo : NodeInfo[i] \in MatchingNodes(l)}
<1>1. NodeInfo \in Seq(DOMAIN ip) /\ ToSet(NodeInfo) = DOMAIN ip
  <2>1. /\ Only(NodeInfo, DOMAIN ip \ {}) \in Seq(DOMAIN ip)
        /\ NodeInfo \in Seq(DOMAIN ip) /\ ToSet(NodeInfo) = DOMAIN ip
    BY MissingFacts
  <2> QED BY <2>1
<1>2. DOMAIN NodeInfo = 1..Len(NodeInfo) /\ Len(NodeInfo) \in Nat BY <1>1
<1>3. I # {}
  <2>1. PICK n \in DOMAIN ip : n \in MatchingNodes(l) BY DEF MatchingNodes
  <2>2. PICK i \in DOMAIN NodeInfo : NodeInfo[i] = n BY <1>1, <2>1 DEF ToSet
  <2> QED BY <2>1, <2>2
<1>4. I \subseteq Nat BY <1>2
<1> HIDE DEF I
<1>5. PICK i \in I : \A j \in I : i <= j BY <1>3, <1>4, Smallest
<1>6. /\ i \in DOMAIN NodeInfo /\ NodeInfo[i] \in MatchingNodes(l)
      /\ \A j \in 1..(i - 1) : NodeInfo[j] \notin MatchingNodes(l)
  <2>1. i \in 1..Len(NodeInfo) /\ NodeInfo[i] \in MatchingNodes(l)
    BY <1>2 DEF I
  <2>2. ASSUME NEW j \in 1..(i - 1), NodeInfo[j] \in MatchingNodes(l) PROVE FALSE
    <3>1. j \in 1..Len(NodeInfo) /\ j < i BY <1>2, <2>1
    <3>2. j \in I BY <1>2, <2>2, <3>1 DEF I
    <3>3. i <= j BY <1>5, <3>2
    <3> QED BY <1>4, <3>1, <3>3
  <2> QED BY <1>2, <2>1, <2>2
<1> QED BY <1>6 DEF MatchingNode


(* In a settled file, a line of the user that names a node, and is no      *)
(* comment, has the node's management address.                             *)
LEMMA UserEntry ==
  ASSUME IInv, file = "hosts", Unambiguous,
         NEW k, k = Theirs(contents), Mark(k) = k,
         NEW n \in DOMAIN ip, NEW i \in DOMAIN k,
         ~Commented(k[i]), HasWord(k[i], n)
  PROVE  n \in k[i].rest /\ k[i].first = ip[n] /\ n \in SeenNodes(k)
<1>1. /\ TypeInv /\ contents \in Seq(Line) /\ user = UnmarkAll(k)
  BY DEF IInv, TypeInv, Restorable
<1>2. k \in Seq(Line) /\ Own(k) BY <1>1, TheirsType DEF Own
<1>3. i \in 1..Len(k) /\ k[i] \in Line BY <1>2
<1>4. k[i].old = 0
  <2>1. k[i].old \in 0..1 /\ ~(k[i].old > 0) BY <1>3, LineShape DEF Commented
  <2> QED BY <2>1
<1>5. k[i] \in ToSet(user)
  <2>1. user[i] = Unmark(k[i]) /\ Len(user) = Len(k) /\ user \in Seq(Line)
    BY <1>1, <1>2, <1>3, UnmarkAllFacts
  <2>2. user[i] = k[i] BY <1>3, <1>4, <2>1, UnmarkFacts
  <2>3. i \in DOMAIN user BY <1>3, <2>1
  <2> QED BY <2>2, <2>3 DEF ToSet
<1>6. /\ n \in k[i].rest /\ \A m \in DOMAIN ip \ {n} : ~HasWord(k[i], m)
      /\ HasWord(k[i], ip[n]) => k[i].first = ip[n]
  BY <1>5 DEF Unambiguous
<1>7. MatchingNodes(k[i]) = {n} BY <1>6 DEF MatchingNodes
<1>8. MatchingNode(k[i]) = n
  <2>1. MatchingNode(k[i]) \in MatchingNodes(k[i])
    BY <1>1, <1>7, MatchingNodeFacts
  <2> QED BY <1>7, <2>1
<1>9. ~InTheWay(k[i]) BY <1>1, <1>2, MarkedFacts
<1>10. HasWord(k[i], ip[n]) BY <1>7, <1>8, <1>9 DEF InTheWay
<1>11. n \in SeenNodes(k)
  <2>1. k[i] \in ToSet(k) BY DEF ToSet
  <2>2. MatchingNodes(k[i]) # {} BY <1>7
  <2> QED BY <1>8, <1>9, <2>1, <2>2 DEF SeenNodes
<1> QED BY <1>6, <1>10, <1>11

(* A node that the code finds an entry for is named in a line that is no   *)
(* comment.                                                                *)
LEMMA SeenEntry ==
  ASSUME TypeInv, file = "hosts", NEW k, NEW n \in SeenNodes(k)
  PROVE  \E i \in DOMAIN k : ~Commented(k[i]) /\ HasWord(k[i], n)
<1>1. PICK l \in ToSet(k) : MatchingNodes(l) # {} /\ n = MatchingNode(l)
  BY DEF SeenNodes
<1>2. n \in MatchingNodes(l) BY <1>1, MatchingNodeFacts
<1>3. ~Commented(l) /\ HasWord(l, n) BY <1>2 DEF MatchingNodes
<1>4. PICK i \in DOMAIN k : l = k[i] BY <1>1 DEF ToSet
<1> QED BY <1>3, <1>4

(* An added entry is no comment and has the address of its node. *)
LEMMA AddedEntry ==
  ASSUME TypeInv, file = "hosts", NEW n \in DOMAIN ip
  PROVE  LET line == Added(ip[n], n)
         IN  ~Commented(line) /\ line.first = ip[n] /\ line.rest = {n}
<1>1. n \in Names /\ ip[n] \in Addresses BY TopologyFacts DEF TypeInv
<1>2. /\ Added(ip[n], n).old = 0 /\ Added(ip[n], n).first = ip[n]
      /\ Added(ip[n], n).rest = {n}
  BY <1>1, AddedFacts
<1>3. ip[n] # "#" BY <1>1, AddressesAssumption
<1> QED BY <1>2, <1>3 DEF Commented

(* After prepare every node's name leads to its management address, for a  *)
(* file without ambiguous lines (UpdateHostsInfo, prepare.go).             *)
THEOREM NamesLeadToNodes == Spec => []NodesResolve
<1>1. IInv => NodesResolve
  <2> SUFFICES ASSUME IInv, fresh, Unambiguous, NEW n \in DOMAIN ip
               PROVE  ResolvesTo(n, ip[n])
    BY DEF NodesResolve
  <2> DEFINE k == Theirs(contents)
             c == contents
             e == Entries(k)
  <2>1. TypeInv /\ c \in Seq(Line) BY DEF IInv, TypeInv
  <2>2. file = "hosts"
    <3>1. ip # <<>> OBVIOUS
    <3> QED BY <2>1, <3>1 DEF TypeInv
  <2>3. k \in Seq(Line) BY <2>1, TheirsType
  <2>4. Mark(k) = k /\ c = k \o e BY <2>2 DEF IInv, Settled, Place
  <2>5. /\ e \in Seq(Line)
        /\ \A i \in DOMAIN e : \E m \in DOMAIN ip : e[i] = Added(ip[m], m)
        /\ n \notin SeenNodes(k) => \E i \in DOMAIN e : e[i] = Added(ip[n], n)
    BY <2>1, <2>2, EntriesFacts
  <2>6. \A i \in DOMAIN k : ~Commented(k[i]) /\ HasWord(k[i], n) =>
          n \in k[i].rest /\ k[i].first = ip[n]
    BY <2>2, <2>4, UserEntry
  <2>7. n \in SeenNodes(k) =>
          \E i \in DOMAIN k : ~Commented(k[i]) /\ HasWord(k[i], n)
    BY <2>1, <2>2, SeenEntry
  <2>8. \A m \in DOMAIN ip : /\ ~Commented(Added(ip[m], m))
                             /\ Added(ip[m], m).first = ip[m]
                             /\ Added(ip[m], m).rest = {m}
    BY <2>1, <2>2, AddedEntry
  <2> HIDE DEF k, e, c
  <2>9. /\ Len(k) \in Nat /\ Len(e) \in Nat /\ DOMAIN k = 1..Len(k)
        /\ DOMAIN e = 1..Len(e) /\ DOMAIN c = 1..(Len(k) + Len(e))
        /\ \A i \in 1..Len(k) : c[i] = k[i]
        /\ \A i \in 1..Len(e) : c[Len(k) + i] = e[i]
    <3>1. /\ k \o e \in Seq(Line) /\ Len(k \o e) = Len(k) + Len(e)
          /\ \A i \in 1..Len(k) : (k \o e)[i] = k[i]
          /\ \A i \in 1..Len(e) : (k \o e)[Len(k) + i] = e[i]
      BY ONLY <2>3, <2>5, ConcatFacts
    <3> QED BY <2>3, <2>4, <2>5, <3>1
  <2> DEFINE entries == {i \in DOMAIN c : ~Commented(c[i]) /\ n \in c[i].rest}
  <2>10. \A i \in entries : c[i].first = ip[n]
    <3> TAKE i \in entries
    <3>1. i \in 1..(Len(k) + Len(e)) /\ ~Commented(c[i]) /\ n \in c[i].rest
      BY <2>9
    <3>2. CASE i <= Len(k)
      <4>1. i \in DOMAIN k /\ c[i] = k[i] BY <2>9, <3>1, <3>2
      <4>2. HasWord(k[i], n) BY <3>1, <4>1 DEF HasWord, Words
      <4> QED BY <2>6, <3>1, <4>1, <4>2
    <3>3. CASE i > Len(k)
      <4>1. i - Len(k) \in 1..Len(e) /\ Len(k) + (i - Len(k)) = i
        BY <2>9, <3>1, <3>3
      <4>2. c[i] = e[i - Len(k)] BY <2>9, <4>1
      <4>3. PICK m \in DOMAIN ip : c[i] = Added(ip[m], m)
        BY <2>5, <2>9, <4>1, <4>2
      <4>4. m = n BY <2>8, <3>1, <4>3
      <4> QED BY <2>8, <4>3, <4>4
    <3> QED BY <2>9, <3>1, <3>2, <3>3
  <2>11. entries # {}
    <3>1. CASE n \in SeenNodes(k)
      <4>1. PICK i \in DOMAIN k : ~Commented(k[i]) /\ HasWord(k[i], n)
        BY <2>7, <3>1
      <4>2. n \in k[i].rest BY <2>6, <4>1
      <4>3. i \in DOMAIN c /\ c[i] = k[i] BY <2>9
      <4>4. i \in entries BY <4>1, <4>2, <4>3
      <4> QED BY <4>4
    <3>2. CASE n \notin SeenNodes(k)
      <4>1. PICK i \in 1..Len(e) : e[i] = Added(ip[n], n) BY <2>5, <2>9, <3>2
      <4>2. Len(k) + i \in DOMAIN c /\ c[Len(k) + i] = Added(ip[n], n)
        BY <2>9, <4>1
      <4>3. Len(k) + i \in entries BY <2>8, <4>2
      <4> QED BY <4>3
    <3> QED BY <3>1, <3>2
  <2>12. entries \subseteq Nat BY <2>9
  <2> HIDE DEF entries
  <2>13. PICK i \in entries : \A j \in entries : i <= j
    BY <2>11, <2>12, Smallest
  <2>14. \E a \in entries : c[a].first = ip[n] /\ \A j \in entries : a <= j
    BY <2>10, <2>13
  <2> QED BY <2>14 DEF ResolvesTo, entries, c
<1> QED BY <1>1, Invariant, PTL

=============================================================================
