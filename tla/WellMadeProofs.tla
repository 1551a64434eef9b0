--------------------------- MODULE WellMadeProofs ---------------------------
(* The programs that WellMade describes compile to code with one shape of    *)
(* the stack at each place, and so run well (ShapedCodeRunsWell). A shape is *)
(* laid along the code as it is generated; the calls that the visitor has    *)
(* pending lead from the shape that the code leaves now to a bare stack.     *)
EXTENDS CsuaProofs, WellMade

-----------------------------------------------------------------------------
(* What the pending calls of the visitor do to the stack that the code so    *)
(* far leaves, and to the visitor's modes. A stage is the shape of that      *)
(* stack, the modes and, for each open if statement, the blocks that were    *)
(* open when it was entered.                                                 *)

With(a, s) == [blocks |-> a.blocks, tags |-> a.tags \o s]
Number(e)  == NumberOf(Tag(e.type))
Entry(e)   == IF e.kind = "function" THEN FunctionOf(e.n) ELSE Number(e)
Pushed(e)  == [i \in DOMAIN e.kids |-> Entry(e.kids[i])]
Ints(n)    == [i \in 1 .. n |-> NumberOf("int")]

Modes == [vi : {"VISIT_NORMAL", "VISIT_NOMAL_ASSIGN"}, vf : {"VISIT_F_NO", "VISIT_F_CALL"}, depth : UInt16]
Mode(i, f, d) == [vi |-> i, vf |-> f, depth |-> d]
Resting == Mode("VISIT_NORMAL", "VISIT_F_NO", 0)

\* What the handlers of calls and assignments make of the modes.
Called(m)    == Mode(m.vi, "VISIT_F_CALL", m.depth)
Silent(m)    == Mode(m.vi, "VISIT_F_NO", m.depth)
Deeper(m)    == Mode(m.vi, m.vf, (m.depth + 1) % 65536)
Targeting(m) == Mode("VISIT_NOMAL_ASSIGN", m.vf, m.depth)
Shallow(m)   == Mode(m.vi, m.vf, 0)
Assigned(m)  == IF m.vf = "VISIT_F_CALL" THEN Mode("VISIT_NORMAL", m.vf, 0)
                ELSE Mode(m.vi, m.vf, (m.depth - 1) % 65536)
Wanted(m)    == m.depth > 1 \/ m.vf = "VISIT_F_CALL"

Stages == [shape : Shapes, modes : Modes, ifs : Seq(Nat)]
Stage(a, m, s) == [shape |-> a, modes |-> m, ifs |-> s]
Rest(u) == Stage(Bare(u.blocks), Resting, u.ifs)

\* An expression pushes its value, and leaves the modes as its place allows.
Yields(g, e, m, n) ==
  /\ m.vi = "VISIT_NORMAL"
  /\ \/ (e \in g.plain \/ NativeNode(e)) /\ n = m
     \/ e \in g.calling /\ n = Silent(m)
     \/ /\ e \in g.chain /\ m.vf = "VISIT_F_NO" /\ 1 <= m.depth /\ m.depth + g.nest[e] <= UINT16_MAX
        /\ n = Targeting(m)
     \/ e \in g.arg /\ m.vf = "VISIT_F_CALL" /\ n = Shallow(m)
     \/ e \in g.busy /\ m.vf = "VISIT_F_NO" /\ n = Shallow(m)
Evaluates(g, e, s, t) ==
  /\ Clear(s.shape) /\ Yields(g, e, s.modes, t.modes)
  /\ t.shape = With(s.shape, <<Entry(e)>>) /\ t.ifs = s.ifs
\* A target takes the value from the stack, and puts it back if it is wanted.
Targeted(p, e, s, t) ==
  /\ Variable(p, e) /\ s.modes.vi = "VISIT_NOMAL_ASSIGN" /\ t.modes = s.modes /\ t.ifs = s.ifs
  /\ \E a \in Shapes : /\ Clear(a) /\ s.shape = With(a, <<Number(e)>>)
                       /\ t.shape = IF Wanted(s.modes) THEN s.shape ELSE a
\* An assignment that is a statement.
Commits(g, p, e, s, t) ==
  /\ Stores(g, e) /\ TypedNode(p, e)
  /\ s.modes = Resting /\ Clear(s.shape) /\ t.shape = s.shape /\ t.ifs = s.ifs
  /\ t.modes = Mode("VISIT_NOMAL_ASSIGN", "VISIT_F_NO", IF e.kids[2] \in g.busy THEN UINT16_MAX ELSE 0)
Performs(g, p, e, s, t) ==
  \E u, v \in Levels : s = Rest(u) /\ t = Rest(v) /\ Raises(e, u, v) /\ WellPut(g, p, e)
Begins(g, p, e, s, t) ==
  Evaluates(g, e, s, t) \/ Targeted(p, e, s, t) \/ Commits(g, p, e, s, t) \/ Performs(g, p, e, s, t)

Notifies(p, e, s, t) ==
  /\ TypedNode(p, e) /\ t.modes = Targeting(s.modes) /\ t.ifs = s.ifs
  /\ \/ e.kind = "assign" /\ t.shape = s.shape
     \/ /\ e.kind # "assign"
        /\ \E a \in Shapes : Clear(a) /\ s.shape = With(a, Ints(2)) /\ t.shape = With(a, Ints(1))

Operates(p, e, s, t) ==
  /\ (e.kind \in OperatorKinds \cup {"call"} /\ TypedNode(p, e)) \/ NativeNode(e)
  /\ s.modes.vi = "VISIT_NORMAL" \/ e.kind \in UnaryKinds
  /\ t.modes = IF e.kind = "call" THEN Silent(s.modes) ELSE s.modes
  /\ t.ifs = s.ifs
  /\ \A i \in DOMAIN e.kids : e.kids[i].kind = "function" => e.kind = "call" /\ i = Len(e.kids)
  /\ \E a \in Shapes : Clear(a) /\ s.shape = With(a, Pushed(e)) /\ t.shape = With(a, <<Entry(e)>>)
Closes(e, s, t) ==
  e.kind \in AssignKinds /\ t.shape = s.shape /\ t.modes = Assigned(s.modes) /\ t.ifs = s.ifs
Concludes(g, p, e, s, t) ==
  \E u, v \in Levels :
    /\ Raises(e, u, v) /\ WellPut(g, p, e) /\ t = Rest(v) /\ s.ifs = u.ifs
    /\ \/ e.kids = <<>> /\ s = Rest(u)
       \/ e.kids # <<>> /\ s.modes = Resting /\ s.shape = With(Bare(u.blocks), <<Number(e.kids[1])>>)
       \/ /\ e.kind = "exprstmt" /\ s.shape = Bare(u.blocks)
          /\ s.modes.vi = "VISIT_NOMAL_ASSIGN" /\ s.modes.vf = "VISIT_F_NO"
Finishes(g, p, e, s, t) ==
  Operates(p, e, s, t) \/ Targeted(p, e, s, t) \/ Closes(e, s, t) \/ Concludes(g, p, e, s, t)

Takes(g, p, c, s, t) ==
  \/ c.at = "enter" /\ Begins(g, p, c.node, s, t)
  \/ c.at = "notify" /\ Notifies(p, c.node, s, t)
  \/ c.at = "leave" /\ Finishes(g, p, c.node, s, t)
Course(g, p) == {c \in Pending \X Stages \X Stages : Takes(g, p, c[1], c[2], c[3])}

\* The stage that entering a node makes of another.
Inside(e, s) ==
  Stage(IF e.kind \in AssignKinds \ {"assign"} THEN With(s.shape, Ints(1)) ELSE s.shape,
        IF e.kind \in AssignKinds THEN Deeper(s.modes)
        ELSE IF e.kind = "call" THEN Called(s.modes) ELSE s.modes,
        s.ifs)
\* Where the calls of its children, and then its leaving, lead from there.
Passed(g, p, e, s, t) ==
  \E k \in Stages : Leads(Course(g, p), Children(e), Inside(e, s), k) /\ <<Call("leave", e), k, t>> \in Course(g, p)

LEMMA CourseIn ==
  ASSUME NEW g, NEW p, NEW c, NEW s, NEW t
  PROVE  <<c, s, t>> \in Course(g, p) <=>
           c \in Pending /\ s \in Stages /\ t \in Stages /\ Takes(g, p, c, s, t)
BY DEF Course

LEMMA StageTyped ==
  ASSUME NEW a \in Shapes, NEW m \in Modes, NEW s \in Seq(Nat)
  PROVE  /\ Stage(a, m, s) \in Stages /\ Stage(a, m, s).shape = a /\ Stage(a, m, s).modes = m
         /\ Stage(a, m, s).ifs = s
BY DEF Stage, Stages

LEMMA StageParts ==
  ASSUME NEW s \in Stages
  PROVE  s.shape \in Shapes /\ s.modes \in Modes /\ s.ifs \in Seq(Nat) /\ s = Stage(s.shape, s.modes, s.ifs)
BY DEF Stage, Stages

LEMMA UInt16Is == \A n : n \in UInt16 <=> n \in Nat /\ n <= 65535
<1> DEFINE k == UINT16_MAX
<1>1. k = 65535
  BY DEF UINT16_MAX
<1>2. k \in Nat
  BY <1>1
<1>3. UInt16 = 0 .. k
  BY DEF UInt16
<1> HIDE DEF k
<1>4. \A n : n \in UInt16 <=> n \in Nat /\ n <= k
  BY <1>2, <1>3
<1>5. QED
  BY <1>1, <1>4

LEMMA ModeTyped ==
  ASSUME NEW i \in {"VISIT_NORMAL", "VISIT_NOMAL_ASSIGN"}, NEW f \in {"VISIT_F_NO", "VISIT_F_CALL"},
         NEW d \in UInt16
  PROVE  Mode(i, f, d) \in Modes /\ Mode(i, f, d).vi = i /\ Mode(i, f, d).vf = f /\ Mode(i, f, d).depth = d
<1> HIDE DEF UInt16
<1>1. QED
  BY DEF Mode, Modes

LEMMA ModeParts ==
  ASSUME NEW m \in Modes
  PROVE  /\ m.vi \in {"VISIT_NORMAL", "VISIT_NOMAL_ASSIGN"} /\ m.vf \in {"VISIT_F_NO", "VISIT_F_CALL"}
         /\ m.depth \in UInt16 /\ m.depth \in Nat /\ m.depth <= 65535 /\ m = Mode(m.vi, m.vf, m.depth)
<1>1. m.depth \in UInt16 /\ m.vi \in {"VISIT_NORMAL", "VISIT_NOMAL_ASSIGN"} /\ m.vf \in {"VISIT_F_NO", "VISIT_F_CALL"}
      /\ m = Mode(m.vi, m.vf, m.depth)
  BY DEF Mode, Modes
<1>2. QED
  BY <1>1, UInt16Is

LEMMA ModesMade ==
  ASSUME NEW m \in Modes
  PROVE  /\ Called(m) \in Modes /\ Called(m).vi = m.vi /\ Called(m).vf = "VISIT_F_CALL" /\ Called(m).depth = m.depth
         /\ Silent(m) \in Modes /\ Silent(m).vi = m.vi /\ Silent(m).vf = "VISIT_F_NO" /\ Silent(m).depth = m.depth
         /\ Deeper(m) \in Modes /\ Deeper(m).vi = m.vi /\ Deeper(m).vf = m.vf /\ Deeper(m).depth = (m.depth + 1) % 65536
         /\ Targeting(m) \in Modes /\ Targeting(m).vi = "VISIT_NOMAL_ASSIGN" /\ Targeting(m).vf = m.vf
         /\ Targeting(m).depth = m.depth
         /\ Shallow(m) \in Modes /\ Shallow(m).vi = m.vi /\ Shallow(m).vf = m.vf /\ Shallow(m).depth = 0
         /\ Assigned(m) \in Modes
<1>1. /\ m.vi \in {"VISIT_NORMAL", "VISIT_NOMAL_ASSIGN"} /\ m.vf \in {"VISIT_F_NO", "VISIT_F_CALL"}
      /\ m.depth \in UInt16 /\ m.depth \in Nat
  BY ModeParts
<1>2. 0 \in UInt16 /\ (m.depth + 1) % 65536 \in UInt16 /\ (m.depth - 1) % 65536 \in UInt16
  BY <1>1, Depths
<1>3. Called(m) \in Modes /\ Called(m).vi = m.vi /\ Called(m).vf = "VISIT_F_CALL" /\ Called(m).depth = m.depth
  BY <1>1, ModeTyped DEF Called
<1>4. Silent(m) \in Modes /\ Silent(m).vi = m.vi /\ Silent(m).vf = "VISIT_F_NO" /\ Silent(m).depth = m.depth
  BY <1>1, ModeTyped DEF Silent
<1>5. Deeper(m) \in Modes /\ Deeper(m).vi = m.vi /\ Deeper(m).vf = m.vf /\ Deeper(m).depth = (m.depth + 1) % 65536
  BY <1>1, <1>2, ModeTyped DEF Deeper
<1>6. Targeting(m) \in Modes /\ Targeting(m).vi = "VISIT_NOMAL_ASSIGN" /\ Targeting(m).vf = m.vf /\ Targeting(m).depth = m.depth
  BY <1>1, ModeTyped DEF Targeting
<1>7. Shallow(m) \in Modes /\ Shallow(m).vi = m.vi /\ Shallow(m).vf = m.vf /\ Shallow(m).depth = 0
  BY <1>1, <1>2, ModeTyped DEF Shallow
<1>8. Assigned(m) \in Modes
  BY <1>1, <1>2, ModeTyped DEF Assigned
<1>9. QED
  BY <1>3, <1>4, <1>5, <1>6, <1>7, <1>8

LEMMA RestingTyped ==
  Resting \in Modes /\ Resting.vi = "VISIT_NORMAL" /\ Resting.vf = "VISIT_F_NO" /\ Resting.depth = 0
BY ModeTyped, Depths DEF Resting

LEMMA LevelTyped ==
  ASSUME NEW u \in Levels
  PROVE  /\ u.blocks \in Nat /\ u.ifs \in Seq(Nat) /\ Rest(u) \in Stages
         /\ Rest(u).shape = Bare(u.blocks) /\ Rest(u).modes = Resting /\ Rest(u).ifs = u.ifs
<1>1. u.blocks \in Nat /\ u.ifs \in Seq(Nat)
  BY DEF Levels
<1>2. QED
  BY <1>1, BareShape, RestingTyped, StageTyped DEF Rest

LEMMA NumberTyped ==
  ASSUME NEW e \in Nodes
  PROVE  /\ Tag(e.type) \in {"int", "double"}
         /\ Number(e) \in Members /\ Number(e).t = Tag(e.type) /\ Number(e).f < 0
         /\ Entry(e) \in Members /\ (e.kind # "function" => Entry(e) = Number(e))
         /\ e.kind = "function" => Entry(e) = FunctionOf(e.n)
<1>1. e.n \in Int
  BY NodesAssumption
<1>2. QED
  BY <1>1 DEF Entry, Number, NumberOf, FunctionOf, Members, Tag

LEMMA WithTyped ==
  ASSUME NEW a \in Shapes, NEW s \in Seq(Members)
  PROVE  /\ With(a, s) \in Shapes /\ With(a, s).blocks = a.blocks /\ With(a, s).tags = a.tags \o s
         /\ Len(With(a, s).tags) = Len(a.tags) + Len(s)
         /\ Clear(a) /\ (\A i \in DOMAIN s : s[i].f < 0) => Clear(With(a, s))
<1>1. a.blocks \in Nat /\ a.tags \in Seq(Members)
  BY DEF Shapes
<1>2. With(a, s) \in Shapes /\ With(a, s).blocks = a.blocks /\ With(a, s).tags = a.tags \o s
  BY <1>1 DEF With, Shapes
<1>3. Len(a.tags \o s) = Len(a.tags) + Len(s)
  BY <1>1
<1>4. ASSUME Clear(a), \A i \in DOMAIN s : s[i].f < 0
      PROVE  Clear(With(a, s))
  <2>1. ASSUME NEW k \in DOMAIN (a.tags \o s) PROVE (a.tags \o s)[k].f < 0
    <3>1. k \in 1 .. Len(a.tags) + Len(s)
      BY <1>1, <1>3, <2>1
    <3>2. CASE k <= Len(a.tags)
      <4>1. k \in DOMAIN a.tags /\ (a.tags \o s)[k] = a.tags[k]
        BY <1>1, <3>1, <3>2
      <4>2. QED
        BY <1>4, <4>1 DEF Clear
    <3>3. CASE ~(k <= Len(a.tags))
      <4>1. k - Len(a.tags) \in DOMAIN s /\ (a.tags \o s)[k] = s[k - Len(a.tags)]
        BY <1>1, <3>1, <3>3
      <4>2. QED
        BY <1>4, <4>1
    <3>4. QED
      BY <3>2, <3>3
  <2>2. QED
    BY <1>2, <2>1 DEF Clear
<1>5. QED
  BY <1>2, <1>3, <1>4

LEMMA WithWith ==
  ASSUME NEW a \in Shapes, NEW s \in Seq(Members), NEW r \in Seq(Members)
  PROVE  With(With(a, s), r) = With(a, s \o r)
<1>1. a.tags \in Seq(Members) /\ s \in Seq(Members) /\ r \in Seq(Members)
  BY DEF Shapes
<1>2. \A t \in Seq(Members) : (t \o s) \o r = t \o (s \o r)
  BY ConcatAssociative
<1>3. (a.tags \o s) \o r = a.tags \o (s \o r)
  BY <1>1, <1>2
<1>4. QED
  BY <1>3 DEF With

LEMMA WithNothing ==
  ASSUME NEW a \in Shapes
  PROVE  With(a, <<>>) = a
<1>1. a = [blocks |-> a.blocks, tags |-> a.tags] /\ a.tags \in Seq(Members)
  BY DEF Shapes
<1>2. a.tags \o <<>> = a.tags
  BY <1>1
<1>3. QED
  BY <1>1, <1>2 DEF With

LEMMA IntsTyped ==
  /\ Ints(1) \in Seq(Members) /\ Ints(1) = <<NumberOf("int")>>
  /\ Ints(2) \in Seq(Members) /\ Ints(2) = <<NumberOf("int"), NumberOf("int")>>
  /\ Ints(2) = Ints(1) \o Ints(1)
  /\ \A n \in {1, 2} : Len(Ints(n)) = n /\ \A i \in DOMAIN Ints(n) : Ints(n)[i].f < 0 /\ Ints(n)[i].t = "int"
  /\ NumberOf("int") \in Members /\ NumberOf("double") \in Members
<1> DEFINE v == NumberOf("int")
<1>1. v \in Members /\ v.f < 0 /\ v.t = "int" /\ NumberOf("double") \in Members
  BY DEF NumberOf, Members
<1> HIDE DEF v
<1>2. Ints(1) = <<v>> /\ Ints(2) = <<v, v>>
  BY DEF Ints, v
<1>3. <<v>> \in Seq(Members) /\ <<v, v>> \in Seq(Members) /\ <<v, v>> = <<v>> \o <<v>>
  BY <1>1
<1>4. ASSUME NEW n \in {1, 2}
      PROVE  Len(Ints(n)) = n /\ \A i \in DOMAIN Ints(n) : Ints(n)[i].f < 0 /\ Ints(n)[i].t = "int"
  <2>1. DOMAIN Ints(n) = 1 .. n /\ \A i \in 1 .. n : Ints(n)[i] = v
    BY DEF Ints, v
  <2>2. n = 1 \/ n = 2
    OBVIOUS
  <2>3. Len(<<v>>) = 1 /\ Len(<<v, v>>) = 2
    OBVIOUS
  <2>4. Len(Ints(n)) = n
    BY <1>2, <2>2, <2>3
  <2>5. QED
    BY <1>1, <2>1, <2>4
<1>5. Ints(1) \in Seq(Members) /\ Ints(2) \in Seq(Members) /\ Ints(2) = Ints(1) \o Ints(1)
  BY <1>2, <1>3
<1>6. QED
  BY <1>1, <1>2, <1>4, <1>5 DEF v

LEMMA ValuesTyped ==
  ASSUME NEW e \in Nodes
  PROVE  /\ Pushed(e) \in Seq(Members) /\ Len(Pushed(e)) = Len(e.kids) /\ DOMAIN e.kids = 1 .. Len(e.kids)
         /\ Len(e.kids) \in Nat
         /\ \A i \in DOMAIN e.kids : e.kids[i] \in Nodes /\ Pushed(e)[i] = Entry(e.kids[i])
<1>1. e.kids \in Seq(Nodes)
  BY NodesAssumption
<1>2. \A i \in DOMAIN e.kids : e.kids[i] \in Nodes /\ Entry(e.kids[i]) \in Members
  BY <1>1, NumberTyped
<1>3. DOMAIN e.kids = 1 .. Len(e.kids) /\ Len(e.kids) \in Nat
  BY <1>1
<1>4. Pushed(e) \in Seq(Members) /\ Len(Pushed(e)) = Len(e.kids)
  BY <1>2, <1>3 DEF Pushed
<1>5. QED
  BY <1>2, <1>3, <1>4 DEF Pushed

LEMMA Prefixes ==
  ASSUME NEW S, NEW v \in Seq(S)
  PROVE  /\ SubSeq(v, 1, 0) = <<>> /\ SubSeq(v, 1, Len(v)) = v
         /\ \A i \in 0 .. Len(v) : SubSeq(v, 1, i) \in Seq(S) /\ Len(SubSeq(v, 1, i)) = i
                                   /\ \A j \in 1 .. i : SubSeq(v, 1, i)[j] = v[j]
         /\ \A i \in 1 .. Len(v) : SubSeq(v, 1, i) = SubSeq(v, 1, i - 1) \o <<v[i]>>
<1>1. Len(v) \in Nat
  OBVIOUS
<1>2. SubSeq(v, 1, 0) = <<>> /\ SubSeq(v, 1, Len(v)) = v
  OBVIOUS
<1>3. ASSUME NEW i \in 0 .. Len(v)
      PROVE  SubSeq(v, 1, i) \in Seq(S) /\ Len(SubSeq(v, 1, i)) = i /\ \A j \in 1 .. i : SubSeq(v, 1, i)[j] = v[j]
  BY <1>1
<1>4. ASSUME NEW i \in 1 .. Len(v) PROVE SubSeq(v, 1, i) = SubSeq(v, 1, i - 1) \o <<v[i]>>
  BY <1>1
<1>5. QED
  BY <1>2, <1>3, <1>4

\* Children that push their values, one after the other.
LEMMA ChildrenPath ==
  ASSUME NEW g, NEW p, NEW e \in Nodes, e.kind \notin AssignKinds, NEW a \in Shapes, Clear(a),
         NEW s \in Seq(Nat), NEW ms, \A i \in 1 .. Len(e.kids) + 1 : ms[i] \in Modes,
         \A i \in DOMAIN e.kids : Yields(g, e.kids[i], ms[i], ms[i + 1]),
         \A i \in DOMAIN e.kids : e.kids[i].kind = "function" => i = Len(e.kids)
  PROVE  /\ Leads(Course(g, p), Children(e), Stage(a, ms[1], s),
                  Stage(With(a, Pushed(e)), ms[Len(e.kids) + 1], s))
         /\ Stage(With(a, Pushed(e)), ms[Len(e.kids) + 1], s) \in Stages
<1> DEFINE n == Len(e.kids)
           v == Pushed(e)
           up(i) == With(a, SubSeq(v, 1, i))
           sh == [i \in 1 .. n + 1 |-> Stage(up(i - 1), ms[i], s)]
           td == Children(e)
<1>1. /\ v \in Seq(Members) /\ Len(v) = n /\ DOMAIN e.kids = 1 .. n /\ n \in Nat
      /\ \A i \in 1 .. n : e.kids[i] \in Nodes /\ v[i] = Entry(e.kids[i])
  BY ValuesTyped
<1>2. td = [i \in 1 .. n |-> Call("enter", e.kids[i])]
  BY <1>1 DEF Children
<1>3. Len(td) = n /\ \A i \in 1 .. n : td[i] = Call("enter", e.kids[i])
  BY <1>1, <1>2
<1> HIDE DEF v, td
<1>4. /\ SubSeq(v, 1, 0) = <<>> /\ SubSeq(v, 1, n) = v
      /\ \A i \in 0 .. n : SubSeq(v, 1, i) \in Seq(Members) /\ Len(SubSeq(v, 1, i)) = i
                                   /\ \A j \in 1 .. i : SubSeq(v, 1, i)[j] = v[j]
      /\ \A i \in 1 .. n : SubSeq(v, 1, i) = SubSeq(v, 1, i - 1) \o <<v[i]>>
  BY <1>1, Prefixes
<1>5. \A i \in 0 .. n : up(i) \in Shapes
  BY <1>4, WithTyped
<1>6. \A i \in 1 .. n + 1 : i - 1 \in 0 .. n
  BY <1>1
<1>7. \A i \in 1 .. n + 1 : /\ sh[i] = Stage(up(i - 1), ms[i], s) /\ sh[i] \in Stages
                            /\ sh[i].shape = up(i - 1) /\ sh[i].modes = ms[i] /\ sh[i].ifs = s
  <2> TAKE i \in 1 .. n + 1
  <2>1. up(i - 1) \in Shapes /\ ms[i] \in Modes /\ s \in Seq(Nat)
    BY <1>5, <1>6
  <2>2. sh[i] = Stage(up(i - 1), ms[i], s)
    OBVIOUS
  <2> HIDE DEF up, sh
  <2>3. QED
    BY <2>1, <2>2, StageTyped
<1>8. ASSUME NEW i \in 1 .. n PROVE up(i) = With(up(i - 1), <<v[i]>>) /\ Clear(up(i - 1))
  <2>1. i - 1 \in 0 .. n /\ i \in DOMAIN v /\ v[i] \in Members
    BY <1>1
  <2>2. SubSeq(v, 1, i - 1) \in Seq(Members) /\ <<v[i]>> \in Seq(Members)
    BY <1>4, <2>1
  <2>3. up(i) = With(up(i - 1), <<v[i]>>)
    BY <1>4, <2>2, WithWith
  <2>4. DOMAIN SubSeq(v, 1, i - 1) = 1 .. i - 1
    BY <1>4, <2>1
  <2>5. ASSUME NEW j \in 1 .. i - 1 PROVE SubSeq(v, 1, i - 1)[j].f < 0
    <3>1. j \in 1 .. n /\ j # n
      BY <1>1
    <3>2. SubSeq(v, 1, i - 1)[j] = Entry(e.kids[j])
      BY <1>1, <1>4, <2>1, <3>1
    <3>3. e.kids[j] \in Nodes /\ e.kids[j].kind # "function"
      BY <1>1, <3>1
    <3>4. QED
      BY <3>2, <3>3, NumberTyped
  <2>6. Clear(up(i - 1))
    BY <2>2, <2>4, <2>5, WithTyped
  <2>7. QED
    BY <2>3, <2>6
<1> HIDE DEF sh, up
<1>9. ASSUME NEW i \in 1 .. n PROVE <<td[i], sh[i], sh[i + 1]>> \in Course(g, p)
  <2>1. i \in 1 .. n + 1 /\ i + 1 \in 1 .. n + 1 /\ (i + 1) - 1 = i
    BY <1>1
  <2>2. Call("enter", e.kids[i]) \in Pending /\ Call("enter", e.kids[i]).at = "enter"
        /\ Call("enter", e.kids[i]).node = e.kids[i]
    BY <1>1 DEF Call, Pending
  <2>3. sh[i + 1].shape = With(sh[i].shape, <<Entry(e.kids[i])>>) /\ Clear(sh[i].shape) /\ sh[i + 1].ifs = sh[i].ifs
    BY <1>1, <1>7, <1>8, <2>1
  <2>4. Yields(g, e.kids[i], sh[i].modes, sh[i + 1].modes)
    BY <1>1, <1>7, <2>1
  <2>5. Evaluates(g, e.kids[i], sh[i], sh[i + 1])
    BY <2>3, <2>4 DEF Evaluates
  <2>6. Takes(g, p, Call("enter", e.kids[i]), sh[i], sh[i + 1])
    BY <2>2, <2>5 DEF Takes, Begins
  <2>7. QED
    BY <1>3, <1>7, <2>1, <2>2, <2>6, CourseIn
<1>10. DOMAIN sh = 1 .. n + 1
  BY DEF sh
<1>11. Along(Course(g, p), td, sh)
  BY <1>3, <1>9, <1>10 DEF Along
<1>12. sh[1] = Stage(a, ms[1], s) /\ sh[n + 1] = Stage(With(a, v), ms[n + 1], s) /\ sh[n + 1] \in Stages
  <2>1. 1 \in 1 .. n + 1 /\ n + 1 \in 1 .. n + 1 /\ 1 - 1 = 0 /\ (n + 1) - 1 = n
    BY <1>1
  <2>2. up(0) = a /\ up(n) = With(a, v)
    BY <1>4, WithNothing DEF up
  <2>3. QED
    BY <1>7, <2>1, <2>2
<1>13. Leads(Course(g, p), td, Stage(a, ms[1], s), Stage(With(a, v), ms[n + 1], s))
  BY <1>3, <1>11, <1>12 DEF Leads
<1>14. QED
  BY <1>12, <1>13 DEF td, v, n

\* A node whose handler takes its children's values for its own.
LEMMA OperatorPassed ==
  ASSUME NEW g, NEW p, NEW e \in Nodes, NEW a \in Shapes, Clear(a), NEW m \in Modes, NEW s \in Seq(Nat), NEW ms,
         (e.kind \in OperatorKinds \cup {"call"} /\ TypedNode(p, e)) \/ NativeNode(e),
         \A i \in 1 .. Len(e.kids) + 1 : ms[i] \in Modes,
         \A i \in DOMAIN e.kids : Yields(g, e.kids[i], ms[i], ms[i + 1]),
         \A i \in DOMAIN e.kids : e.kids[i].kind = "function" => e.kind = "call" /\ i = Len(e.kids),
         ms[1] = (IF e.kind = "call" THEN Called(m) ELSE m),
         ms[Len(e.kids) + 1].vi = "VISIT_NORMAL" \/ e.kind \in UnaryKinds,
         NEW n, n = IF e.kind = "call" THEN Silent(ms[Len(e.kids) + 1]) ELSE ms[Len(e.kids) + 1]
  PROVE  Passed(g, p, e, Stage(a, m, s), Stage(With(a, <<Entry(e)>>), n, s))
<1> DEFINE k == Stage(With(a, Pushed(e)), ms[Len(e.kids) + 1], s)
           s1 == Stage(a, m, s)
           t == Stage(With(a, <<Entry(e)>>), n, s)
           z == ms[Len(e.kids) + 1]
<1>1. e.kind \notin AssignKinds
  BY DEF NativeNode, OperatorKinds, AssignKinds, CompoundOf, Leaves1, UnaryKinds, BinaryOps
<1>2. Leads(Course(g, p), Children(e), Stage(a, ms[1], s), k) /\ k \in Stages
  BY <1>1, ChildrenPath
<1>3. s1.shape = a /\ s1.modes = m /\ s1.ifs = s
  BY StageTyped
<1>4. Inside(e, s1) = Stage(a, ms[1], s)
  BY <1>1, <1>3 DEF Inside
<1>5. z \in Modes /\ n \in Modes /\ Len(e.kids) \in Nat
  <2>1. Len(e.kids) \in Nat
    BY ValuesTyped
  <2>2. z \in Modes
    BY <2>1
  <2>3. QED
    BY <2>1, <2>2, ModesMade
<1>6. Pushed(e) \in Seq(Members) /\ <<Entry(e)>> \in Seq(Members)
  BY ValuesTyped, NumberTyped
<1>7. With(a, Pushed(e)) \in Shapes /\ With(a, <<Entry(e)>>) \in Shapes
  BY <1>6, WithTyped
<1>8. k.shape = With(a, Pushed(e)) /\ k.modes = z /\ k.ifs = s
  BY <1>5, <1>7, StageTyped
<1>9. t \in Stages /\ t.shape = With(a, <<Entry(e)>>) /\ t.modes = n /\ t.ifs = s
  BY <1>5, <1>7, StageTyped
<1>10. Call("leave", e) \in Pending /\ Call("leave", e).at = "leave" /\ Call("leave", e).node = e
  BY DEF Call, Pending
<1> HIDE DEF k, t, s1
<1>11. Operates(p, e, k, t)
  BY <1>8, <1>9 DEF Operates
<1>12. <<Call("leave", e), k, t>> \in Course(g, p)
  BY <1>2, <1>9, <1>10, <1>11, CourseIn DEF Takes, Finishes
<1>13. Passed(g, p, e, s1, t)
  BY <1>2, <1>4, <1>12 DEF Passed
<1>14. QED
  BY <1>13 DEF s1, t

LEMMA KindsApart ==
  /\ UnaryKinds \subseteq OperatorKinds /\ "call" \notin OperatorKinds /\ "function" \notin OperatorKinds
  /\ "call" \notin AssignKinds /\ "function" \notin AssignKinds /\ AssignKinds \cap OperatorKinds = {}
  /\ "call" \notin UnaryKinds
  /\ StatementKinds \cap (OperatorKinds \cup AssignKinds \cup {"call", "function"}) = {}
BY DEF OperatorKinds, AssignKinds, CompoundOf, Leaves1, UnaryKinds, BinaryOps, StatementKinds

LEMMA ExpressionKinds ==
  ASSUME NEW g, NEW p, Sorts(g, p), NEW e \in Expressions(g)
  PROVE  /\ TypedNode(p, e) /\ e.kind # "function" /\ e.kind \notin StatementKinds
         /\ e.kind \in OperatorKinds \cup {"call"} \cup AssignKinds
<1>1. TypedNode(p, e)
  BY DEF Sorts
<1>2. e.kind \in OperatorKinds \cup {"call"} \cup AssignKinds
  <2>1. CASE e \in g.plain
    BY <2>1 DEF Sorts, PlainNode
  <2>2. CASE e \in g.calling
    BY <2>2 DEF Sorts, CallingNode
  <2>3. CASE e \in g.chain
    BY <2>3, KindsApart DEF Sorts, ChainNode
  <2>4. CASE e \in g.arg
    BY <2>4, KindsApart DEF Sorts, ArgNode
  <2>5. CASE e \in g.busy
    BY <2>5, KindsApart DEF Sorts, BusyNode
  <2>6. QED
    BY <2>1, <2>2, <2>3, <2>4, <2>5 DEF Expressions
<1>3. QED
  BY <1>1, <1>2, KindsApart

LEMMA UnaryOne ==
  ASSUME NEW p, NEW e, e.kind \in UnaryKinds, TypedNode(p, e)
  PROVE  Len(e.kids) = 1
<1>1. \A t : KidTags(e, <<t>>) => Len(e.kids) = 1
  BY DEF KidTags
<1>2. QED
  BY <1>1 DEF TypedNode, UnaryKinds

LEMMA UnaryPassed ==
  ASSUME NEW g, NEW p, NEW e \in Nodes, NEW a \in Shapes, Clear(a), NEW m \in Modes, NEW s \in Seq(Nat),
         e.kind \in UnaryKinds, TypedNode(p, e), NEW n \in Modes,
         Yields(g, e.kids[1], m, n), e.kids[1].kind # "function"
  PROVE  Passed(g, p, e, Stage(a, m, s), Stage(With(a, <<Entry(e)>>), n, s))
<1> DEFINE ms == [i \in 1 .. 2 |-> IF i = 1 THEN m ELSE n]
<1>1. Len(e.kids) = 1 /\ DOMAIN e.kids = 1 .. 1
  BY UnaryOne, ValuesTyped
<1>2. ms[1] = m /\ ms[2] = n /\ \A i \in 1 .. 2 : ms[i] \in Modes
  OBVIOUS
<1> HIDE DEF ms
<1>3. \A i \in 1 .. Len(e.kids) + 1 : ms[i] \in Modes
  BY <1>1, <1>2
<1>4. \A i \in DOMAIN e.kids : Yields(g, e.kids[i], ms[i], ms[i + 1]) /\ e.kids[i].kind # "function"
  <2> SUFFICES ASSUME NEW i \in DOMAIN e.kids
               PROVE  Yields(g, e.kids[i], ms[i], ms[i + 1]) /\ e.kids[i].kind # "function"
    OBVIOUS
  <2>1. i = 1 /\ i + 1 = 2
    BY <1>1
  <2>2. QED
    BY <1>2, <2>1
<1>5. e.kind \in OperatorKinds \cup {"call"} /\ e.kind # "call"
  BY KindsApart
<1>6. ms[Len(e.kids) + 1] = n
  BY <1>1, <1>2
<1>7. QED
  BY <1>2, <1>3, <1>4, <1>5, <1>6, OperatorPassed

\* Nodes in which nothing changes.
LEMMA ConstantPassed ==
  ASSUME NEW g, NEW p, NEW e \in Nodes, NEW a \in Shapes, Clear(a), NEW m \in Modes, NEW s \in Seq(Nat),
         (e.kind \in OperatorKinds /\ TypedNode(p, e)) \/ NativeNode(e), m.vi = "VISIT_NORMAL",
         \A i \in DOMAIN e.kids : Yields(g, e.kids[i], m, m) /\ e.kids[i].kind # "function"
  PROVE  Passed(g, p, e, Stage(a, m, s), Stage(With(a, <<Entry(e)>>), m, s))
<1> DEFINE ms == [i \in 1 .. Len(e.kids) + 1 |-> m]
<1>1. Len(e.kids) \in Nat /\ DOMAIN e.kids = 1 .. Len(e.kids)
  BY ValuesTyped
<1>2. \A i \in 1 .. Len(e.kids) + 1 : ms[i] = m
  OBVIOUS
<1>3. 1 \in 1 .. Len(e.kids) + 1 /\ Len(e.kids) + 1 \in 1 .. Len(e.kids) + 1
      /\ \A i \in DOMAIN e.kids : i \in 1 .. Len(e.kids) + 1 /\ i + 1 \in 1 .. Len(e.kids) + 1
  BY <1>1
<1> HIDE DEF ms
<1>4. e.kind # "call"
  BY KindsApart DEF NativeNode
<1>5. ms[1] = m /\ ms[Len(e.kids) + 1] = m
  BY <1>2, <1>3
<1>6. \A i \in DOMAIN e.kids : Yields(g, e.kids[i], ms[i], ms[i + 1])
  BY <1>2, <1>3
<1>7. \A i \in 1 .. Len(e.kids) + 1 : ms[i] \in Modes
  BY <1>2
<1>8. QED
  BY <1>4, <1>5, <1>6, <1>7, OperatorPassed

\* A function's children are its arguments and, behind them, the function.
LEMMA CallKids ==
  ASSUME NEW g, NEW p, NEW e \in Nodes, e.kind = "call", TypedNode(p, e)
  PROVE  /\ Len(e.kids) \in Nat /\ Len(e.kids) > 1 /\ DOMAIN e.kids = 1 .. Len(e.kids)
         /\ NativeNode(e.kids[Len(e.kids)])
         /\ \A i \in DOMAIN e.kids : i # Len(e.kids) => e.kids[i] \in Args(e)
<1>1. Len(e.kids) \in Nat /\ DOMAIN e.kids = 1 .. Len(e.kids)
  BY ValuesTyped
<1>2. Len(e.kids) > 1 /\ NativeNode(e.kids[Len(e.kids)])
  BY DEF TypedNode, FunctionIn
<1>3. \A i \in DOMAIN e.kids : i # Len(e.kids) => i \in 1 .. Len(e.kids) - 1
  BY <1>1
<1>4. QED
  BY <1>1, <1>2, <1>3 DEF Args

LEMMA SilentTwice ==
  ASSUME NEW m \in Modes
  PROVE  /\ Silent(Silent(m)) = Silent(m) /\ Silent(Called(m)) = Silent(m)
         /\ Silent(Shallow(m)) = Shallow(Silent(m)) /\ Shallow(Shallow(m)) = Shallow(m)
         /\ (m.vf = "VISIT_F_NO" => Silent(m) = m /\ Silent(Shallow(Called(m))) = Shallow(m))
<1>1. m = Mode(m.vi, m.vf, m.depth)
  BY ModeParts
<1>2. \A i, f, d : Mode(i, f, d).vi = i /\ Mode(i, f, d).vf = f /\ Mode(i, f, d).depth = d
  BY DEF Mode
<1>3. QED
  BY <1>1, <1>2 DEF Silent, Called, Shallow

\* Once a child has called, the flag of calls is cleared.
LEMMA CallingPassed ==
  ASSUME NEW g, NEW p, Sorts(g, p), NEW e \in Nodes, e \in g.calling, NEW a \in Shapes, Clear(a),
         NEW m \in Modes, m.vi = "VISIT_NORMAL", NEW s \in Seq(Nat)
  PROVE  Passed(g, p, e, Stage(a, m, s), Stage(With(a, <<Entry(e)>>), Silent(m), s))
<1> DEFINE n == Len(e.kids)
           m1 == IF e.kind = "call" THEN Called(m) ELSE m
           met(i) == \E j \in 1 .. n : j < i /\ e.kids[j] \in g.calling
           ms == [i \in 1 .. n + 1 |-> IF met(i) THEN Silent(m1) ELSE m1]
<1>1. n \in Nat /\ DOMAIN e.kids = 1 .. n /\ \A i \in 1 .. n : e.kids[i] \in Nodes
  BY ValuesTyped
<1>2. CallingNode(g, e) /\ TypedNode(p, e) /\ (e.kind \in OperatorKinds \/ e.kind = "call")
  BY DEF Sorts, Expressions, CallingNode
<1>3. m1 \in Modes /\ Silent(m1) \in Modes /\ m1.vi = "VISIT_NORMAL" /\ Silent(m1).vi = "VISIT_NORMAL"
      /\ Silent(Silent(m1)) = Silent(m1) /\ Silent(m1) = Silent(m)
  <2>1. Called(m) \in Modes /\ Called(m).vi = "VISIT_NORMAL" /\ Silent(Called(m)) = Silent(m)
    <3>1. Called(m) \in Modes /\ Called(m).vi = m.vi
      BY ModesMade
    <3>2. Silent(Called(m)) = Silent(m)
      BY SilentTwice
    <3>3. QED
      BY <3>1, <3>2
  <2>2. m1 \in Modes /\ m1.vi = "VISIT_NORMAL" /\ Silent(m1) = Silent(m)
    BY <2>1
  <2> HIDE DEF m1
  <2>3. Silent(m1) \in Modes /\ Silent(m1).vi = m1.vi
    BY <2>2, ModesMade
  <2>4. Silent(Silent(m1)) = Silent(m1)
    BY <2>2, SilentTwice
  <2>5. QED
    BY <2>2, <2>3, <2>4
<1>0. \A k \in Unassigning(g) : k.kind # "function"
  <2>1. Unassigning(g) \subseteq Expressions(g)
    BY DEF Unassigning, Expressions
  <2>2. QED
    BY <2>1, ExpressionKinds
<1>4. ASSUME NEW i \in 1 .. n
      PROVE  \/ e.kids[i] \in Unassigning(g) /\ e.kids[i].kind # "function"
             \/ e.kind = "call" /\ i = n /\ NativeNode(e.kids[i])
  <2>1. CASE e.kind = "call"
    <3>1. NativeNode(e.kids[n]) /\ (i # n => e.kids[i] \in Args(e))
      BY <1>1, <1>2, <2>1, CallKids
    <3>2. Args(e) \subseteq Unassigning(g)
      BY <1>2, <2>1, KindsApart DEF CallingNode
    <3>3. CASE i = n
      BY <2>1, <3>1, <3>3
    <3>4. CASE i # n
      <4>1. e.kids[i] \in Unassigning(g)
        BY <3>1, <3>2, <3>4
      <4>2. QED
        BY <1>0, <4>1
    <3>5. QED
      BY <3>3, <3>4
  <2>2. CASE e.kind # "call"
    <3>1. Kids(e) \subseteq Unassigning(g) /\ e.kids[i] \in Kids(e)
      BY <1>1, <1>2, <2>2 DEF CallingNode, Kids
    <3>2. QED
      BY <1>0, <3>1
  <2>3. QED
    BY <2>1, <2>2
<1>5. \A i \in 1 .. n + 1 : ms[i] = (IF met(i) THEN Silent(m1) ELSE m1)
  OBVIOUS
<1>6. ~met(1) /\ (e.kind # "call" => met(n + 1))
  <2>1. ~met(1)
    OBVIOUS
  <2>2. ASSUME e.kind # "call" PROVE met(n + 1)
    <3>1. Kids(e) \cap g.calling # {}
      BY <1>2, <2>2 DEF CallingNode
    <3>2. PICK j \in DOMAIN e.kids : e.kids[j] \in g.calling
      BY <3>1 DEF Kids
    <3>3. j \in 1 .. n /\ j < n + 1
      BY <1>1, <3>2
    <3>4. QED
      BY <3>2, <3>3
  <2>3. QED
    BY <2>1, <2>2
<1>7. ASSUME NEW i \in 1 .. n
      PROVE  met(i + 1) <=> met(i) \/ e.kids[i] \in g.calling
  BY <1>1
<1> HIDE DEF ms, met, m1
<1>8. 1 \in 1 .. n + 1 /\ n + 1 \in 1 .. n + 1 /\ \A i \in 1 .. n : i \in 1 .. n + 1 /\ i + 1 \in 1 .. n + 1
  BY <1>1
<1>9. ASSUME NEW i \in 1 .. n PROVE Yields(g, e.kids[i], ms[i], ms[i + 1])
  <2>1. ms[i] \in {m1, Silent(m1)} /\ ms[i].vi = "VISIT_NORMAL" /\ Silent(ms[i]) = Silent(m1)
    BY <1>3, <1>5, <1>8
  <2>2. CASE e.kids[i] \in g.calling
    <3>1. ms[i + 1] = Silent(m1)
      BY <1>5, <1>7, <1>8, <2>2
    <3>2. QED
      BY <2>1, <2>2, <3>1 DEF Yields
  <2>3. CASE e.kids[i] \notin g.calling
    <3>1. ms[i + 1] = ms[i]
      BY <1>5, <1>7, <1>8, <2>3
    <3>2. e.kids[i] \in g.plain \/ NativeNode(e.kids[i])
      BY <1>4, <2>3 DEF Unassigning
    <3>3. QED
      BY <2>1, <3>1, <3>2 DEF Yields
  <2>4. QED
    BY <2>2, <2>3
<1>10. \A i \in 1 .. n + 1 : ms[i] \in Modes /\ ms[i].vi = "VISIT_NORMAL"
  BY <1>3, <1>5
<1>11. ms[1] = m1 /\ Silent(ms[n + 1]) = Silent(m) /\ (e.kind # "call" => ms[n + 1] = Silent(m))
  BY <1>3, <1>5, <1>6, <1>8
<1>12. \A i \in DOMAIN e.kids : e.kids[i].kind = "function" => e.kind = "call" /\ i = Len(e.kids)
  BY <1>1, <1>4
<1>13. /\ \A i \in 1 .. Len(e.kids) + 1 : ms[i] \in Modes
       /\ \A i \in DOMAIN e.kids : Yields(g, e.kids[i], ms[i], ms[i + 1])
       /\ ms[Len(e.kids) + 1].vi = "VISIT_NORMAL"
       /\ ms[1] = (IF e.kind = "call" THEN Called(m) ELSE m)
       /\ Silent(m) = IF e.kind = "call" THEN Silent(ms[Len(e.kids) + 1]) ELSE ms[Len(e.kids) + 1]
  BY <1>1, <1>8, <1>9, <1>10, <1>11 DEF n, m1
<1> HIDE DEF n
<1>14. QED
  BY <1>2, <1>12, <1>13, OperatorPassed

LEMMA AssignSides ==
  ASSUME NEW p, NEW e \in Nodes, e.kind \in AssignKinds, TypedNode(p, e)
  PROVE  /\ Number(e.kids[1]) = Number(e) /\ Number(e.kids[2]) = Number(e) /\ Variable(p, e.kids[1])
         /\ (e.kind # "assign" => Number(e) = NumberOf("int") /\ Tag(e.kids[2].type) = "int")
         /\ e.kids[1] \in Nodes /\ e.kids[2] \in Nodes
<1>1. e.kids[1] \in Nodes /\ e.kids[2] \in Nodes
  BY KidsTyped
<1>2. KidTags(e, <<Tag(e.type), Tag(e.type)>>) /\ Variable(p, e.kids[1]) /\ (e.kind # "assign" => Tag(e.type) = "int")
  BY DEF TypedNode
<1>3. \A t : KidTags(e, <<t, t>>) => Tag(e.kids[1].type) = t /\ Tag(e.kids[2].type) = t
  BY DEF KidTags
<1>4. QED
  BY <1>1, <1>2, <1>3 DEF Number

LEMMA AssignPassed ==
  ASSUME NEW g, NEW p, NEW e \in Nodes, e.kind \in AssignKinds, TypedNode(p, e), e.kids[2].kind # "function",
         NEW a \in Shapes, Clear(a), NEW m \in Modes, NEW s \in Seq(Nat),
         NEW n \in Modes, Yields(g, e.kids[2], Deeper(m), n), NEW q, q = Targeting(n)
  PROVE  Passed(g, p, e, Stage(a, m, s),
                Stage(IF Wanted(q) THEN With(a, <<Number(e)>>) ELSE a, Assigned(q), s))
<1> DEFINE v == Number(e)
           compound == e.kind # "assign"
           a1 == IF compound THEN With(a, Ints(1)) ELSE a
           a2 == With(a1, <<v>>)
           a3 == With(a, <<v>>)
           a4 == IF Wanted(q) THEN a3 ELSE a
           s0 == Stage(a, m, s)
           s1 == Stage(a1, Deeper(m), s)
           s2 == Stage(a2, n, s)
           s3 == Stage(a3, q, s)
           s4 == Stage(a4, q, s)
           t == Stage(a4, Assigned(q), s)
<1>1. /\ Number(e.kids[1]) = v /\ Number(e.kids[2]) = v /\ Variable(p, e.kids[1])
      /\ (compound => v = NumberOf("int"))
      /\ e.kids[1] \in Nodes /\ e.kids[2] \in Nodes /\ Entry(e.kids[2]) = v
  <2>1. e.kids[2] \in Nodes /\ Number(e.kids[2]) = v
    BY AssignSides
  <2>2. Entry(e.kids[2]) = v
    BY <2>1 DEF Entry
  <2>3. QED
    BY <2>1, <2>2, AssignSides
<1>2. Deeper(m) \in Modes /\ q \in Modes /\ Assigned(q) \in Modes /\ q.vi = "VISIT_NOMAL_ASSIGN"
  <2>1. Deeper(m) \in Modes /\ q \in Modes /\ q.vi = "VISIT_NOMAL_ASSIGN"
    BY ModesMade
  <2>2. QED
    BY <2>1, ModesMade
<1>3. v \in Members /\ v.f < 0 /\ <<v>> \in Seq(Members) /\ \A i \in DOMAIN <<v>> : <<v>>[i].f < 0
  <2>1. v \in Members /\ v.f < 0
    BY NumberTyped
  <2> HIDE DEF v
  <2>2. QED
    BY <2>1
<1>4. a1 \in Shapes /\ Clear(a1)
  BY IntsTyped, WithTyped
<1>5. compound => a2 = With(a, Ints(2)) /\ a3 = With(a, Ints(1))
  <2>1. ASSUME compound PROVE With(With(a, Ints(1)), Ints(1)) = With(a, Ints(1) \o Ints(1))
    BY IntsTyped, WithWith
  <2>2. compound => <<v>> = Ints(1)
    BY <1>1, IntsTyped
  <2>3. QED
    BY <2>1, <2>2, IntsTyped
<1>6. ~compound => a2 = a3
  OBVIOUS
<1>7. Inside(e, s0) = s1
  <2>1. s0.shape = a /\ s0.modes = m /\ s0.ifs = s
    BY StageTyped
  <2>2. e.kind \in AssignKinds \ {"assign"} <=> compound
    OBVIOUS
  <2>3. QED
    BY <2>1, <2>2 DEF Inside
<1> HIDE DEF a1, v
<1>8. a2 \in Shapes /\ a3 \in Shapes /\ a4 \in Shapes
  BY <1>3, <1>4, WithTyped
<1>9. /\ s1 \in Stages /\ s1.shape = a1 /\ s1.modes = Deeper(m) /\ s1.ifs = s
      /\ s2 \in Stages /\ s2.shape = a2 /\ s2.modes = n /\ s2.ifs = s
      /\ s3 \in Stages /\ s3.shape = a3 /\ s3.modes = q /\ s3.ifs = s
      /\ s4 \in Stages /\ s4.shape = a4 /\ s4.modes = q /\ s4.ifs = s
      /\ t \in Stages /\ t.shape = a4 /\ t.modes = Assigned(q) /\ t.ifs = s
  <2> HIDE DEF a2, a3, a4
  <2>1. QED
    BY <1>2, <1>4, <1>8, StageTyped
<1> HIDE DEF s1, s2, s3, s4, t, s0
<1>10. \A k \in Nodes : /\ Call("enter", k) \in Pending /\ Call("enter", k).at = "enter" /\ Call("enter", k).node = k
                        /\ Call("leave", k) \in Pending /\ Call("leave", k).at = "leave" /\ Call("leave", k).node = k
  BY DEF Call, Pending
<1>11. Call("notify", e) \in Pending /\ Call("notify", e).at = "notify" /\ Call("notify", e).node = e
  BY DEF Call, Pending
<1>12. <<Call("enter", e.kids[2]), s1, s2>> \in Course(g, p)
  <2>1. Evaluates(g, e.kids[2], s1, s2)
    BY <1>1, <1>4, <1>9 DEF Evaluates
  <2>2. QED
    BY <1>1, <1>9, <1>10, <2>1, CourseIn DEF Takes, Begins
<1>13. <<Call("notify", e), s2, s3>> \in Course(g, p)
  <2>1. CASE compound
    <3>1. s2.shape = With(a, Ints(2)) /\ s3.shape = With(a, Ints(1))
      BY <1>5, <1>9, <2>1
    <3>2. Notifies(p, e, s2, s3)
      BY <1>9, <2>1, <3>1 DEF Notifies
    <3>3. QED
      BY <1>9, <1>11, <3>2, CourseIn DEF Takes
  <2>2. CASE ~compound
    <3>1. Notifies(p, e, s2, s3)
      BY <1>6, <1>9, <2>2 DEF Notifies
    <3>2. QED
      BY <1>9, <1>11, <3>1, CourseIn DEF Takes
  <2>3. QED
    BY <2>1, <2>2
<1>14. <<Call("enter", e.kids[1]), s3, s4>> \in Course(g, p)
  <2>1. Targeted(p, e.kids[1], s3, s4)
    BY <1>1, <1>2, <1>9 DEF Targeted
  <2>2. QED
    BY <1>1, <1>9, <1>10, <2>1, CourseIn DEF Takes, Begins
<1>15. <<Call("leave", e), s4, t>> \in Course(g, p)
  <2>1. Closes(e, s4, t)
    BY <1>9 DEF Closes
  <2>2. QED
    BY <1>9, <1>10, <2>1, CourseIn DEF Takes, Finishes
<1>16. Leads(Course(g, p), Children(e), s1, s4)
  BY <1>12, <1>13, <1>14, ChildrenAssign
<1>17. Passed(g, p, e, s0, t)
  BY <1>7, <1>9, <1>15, <1>16 DEF Passed
<1>18. QED
  BY <1>17 DEF s0, t, v

-----------------------------------------------------------------------------
(* The modes of an assignment, by where it stands.                           *)

LEMMA ModeEquals ==
  ASSUME NEW m \in Modes, NEW n \in Modes, m.vi = n.vi, m.vf = n.vf, m.depth = n.depth
  PROVE  m = n
BY ModeParts

LEMMA AssignedModes ==
  ASSUME NEW m \in Modes
  PROVE  /\ Assigned(m).vi = (IF m.vf = "VISIT_F_CALL" THEN "VISIT_NORMAL" ELSE m.vi)
         /\ Assigned(m).vf = m.vf
         /\ Assigned(m).depth = (IF m.vf = "VISIT_F_CALL" THEN 0 ELSE (m.depth - 1) % 65536)
BY DEF Assigned, Mode

LEMMA ChainModes ==
  ASSUME NEW m \in Modes, m.vf = "VISIT_F_NO", NEW n \in Modes, n.vf = "VISIT_F_NO", n.depth = Deeper(m).depth,
         1 <= m.depth, m.depth + 1 <= 65535
  PROVE  /\ Deeper(m).depth = m.depth + 1
         /\ Wanted(Targeting(n)) /\ (n.vi = m.vi \/ n.vi = "VISIT_NOMAL_ASSIGN" => Assigned(Targeting(n)) = Targeting(m))
<1>1. m.depth \in Nat /\ m.depth <= 65535
  BY ModeParts
<1>2. Deeper(m).depth = (m.depth + 1) % 65536
  BY ModesMade
<1>3. (m.depth + 1) % 65536 = m.depth + 1 /\ ((m.depth + 1) - 1) % 65536 = m.depth
  BY <1>1
<1> DEFINE q == Targeting(n)
<1>4. q \in Modes /\ q.vi = "VISIT_NOMAL_ASSIGN" /\ q.vf = "VISIT_F_NO" /\ q.depth = m.depth + 1
  BY <1>2, <1>3, ModesMade
<1>5. Targeting(m) \in Modes /\ Targeting(m).vi = "VISIT_NOMAL_ASSIGN" /\ Targeting(m).vf = "VISIT_F_NO"
      /\ Targeting(m).depth = m.depth
  BY ModesMade
<1> HIDE DEF q
<1>6. Assigned(q) \in Modes
  BY <1>4, ModesMade
<1>7. Assigned(q).vi = "VISIT_NOMAL_ASSIGN" /\ Assigned(q).vf = "VISIT_F_NO" /\ Assigned(q).depth = m.depth
  BY <1>3, <1>4, AssignedModes
<1>8. Assigned(q) = Targeting(m)
  BY <1>5, <1>6, <1>7, ModeEquals
<1>9. Wanted(q)
  BY <1>1, <1>4 DEF Wanted
<1>10. QED
  BY <1>2, <1>3, <1>8, <1>9 DEF q

LEMMA ArgModes ==
  ASSUME NEW m \in Modes, m.vf = "VISIT_F_CALL", m.vi = "VISIT_NORMAL", NEW n \in Modes, n.vf = "VISIT_F_CALL"
  PROVE  Wanted(Targeting(n)) /\ Assigned(Targeting(n)) = Shallow(m)
<1> DEFINE q == Targeting(n)
<1>1. q \in Modes /\ q.vf = "VISIT_F_CALL"
  BY ModesMade
<1>2. Shallow(m) \in Modes /\ Shallow(m).vi = "VISIT_NORMAL" /\ Shallow(m).vf = "VISIT_F_CALL" /\ Shallow(m).depth = 0
  BY ModesMade
<1> HIDE DEF q
<1>3. Assigned(q) \in Modes
  BY <1>1, ModesMade
<1>4. Assigned(q).vi = "VISIT_NORMAL" /\ Assigned(q).vf = "VISIT_F_CALL" /\ Assigned(q).depth = 0
  BY <1>1, AssignedModes
<1>5. Assigned(q) = Shallow(m)
  BY <1>2, <1>3, <1>4, ModeEquals
<1>6. QED
  BY <1>1, <1>5 DEF q, Wanted

\* An assignment that is a statement does not want its value.
LEMMA StoreModes ==
  ASSUME NEW n \in Modes, n.vf = "VISIT_F_NO", n.depth \in {0, 1}
  PROVE  /\ ~Wanted(Targeting(n))
         /\ Assigned(Targeting(n)) =
              Mode("VISIT_NOMAL_ASSIGN", "VISIT_F_NO", IF n.depth = 0 THEN UINT16_MAX ELSE 0)
<1> DEFINE q == Targeting(n)
           d == IF n.depth = 0 THEN UINT16_MAX ELSE 0
<1>1. q \in Modes /\ q.vf = "VISIT_F_NO" /\ q.depth = n.depth /\ q.vi = "VISIT_NOMAL_ASSIGN"
  BY ModesMade
<1>2. UINT16_MAX = 65535
  BY DEF UINT16_MAX
<1>3. d = (n.depth - 1) % 65536
  <2> DEFINE k == n.depth - 1
  <2>1. \A i \in Int : i < 0 /\ i >= -65536 => i % 65536 = i + 65536
    OBVIOUS
  <2>2. k \in Int /\ (n.depth = 0 => k < 0 /\ k >= -65536 /\ k + 65536 = 65535)
    OBVIOUS
  <2>3. n.depth = 1 => k = 0
    OBVIOUS
  <2>4. 0 % 65536 = 0
    OBVIOUS
  <2> HIDE DEF k
  <2>5. n.depth = 0 => k % 65536 = 65535
    BY <2>1, <2>2
  <2>6. k % 65536 = d
    BY <1>2, <2>3, <2>4, <2>5
  <2>7. QED
    BY <2>6 DEF k
<1> HIDE DEF q, d
<1>4. Assigned(q) = Mode("VISIT_NOMAL_ASSIGN", "VISIT_F_NO", d)
  BY <1>1, <1>3 DEF Assigned
<1>5. ~Wanted(q)
  BY <1>1 DEF Wanted
<1>6. QED
  BY <1>4, <1>5 DEF q, d

LEMMA UInt16Max == UINT16_MAX = 65535
BY DEF UINT16_MAX

LEMMA SortedKinds ==
  ASSUME NEW g, NEW p, Sorts(g, p), NEW e \in Nodes, e \in Expressions(g)
  PROVE  TypedNode(p, e) /\ e.kind # "function" /\ Entry(e) = Number(e)
BY ExpressionKinds DEF Entry

LEMMA PlainPassed ==
  ASSUME NEW g, NEW p, Sorts(g, p), NEW e \in Nodes, e \in g.plain \/ NativeNode(e), NEW a \in Shapes, Clear(a),
         NEW m \in Modes, m.vi = "VISIT_NORMAL", NEW s \in Seq(Nat)
  PROVE  Passed(g, p, e, Stage(a, m, s), Stage(With(a, <<Entry(e)>>), m, s))
<1>1. CASE e \in g.plain
  <2>1. e.kind \in OperatorKinds /\ Kids(e) \subseteq g.plain /\ TypedNode(p, e)
    BY <1>1 DEF Sorts, PlainNode, Expressions
  <2>2. ASSUME NEW i \in DOMAIN e.kids
        PROVE  Yields(g, e.kids[i], m, m) /\ e.kids[i].kind # "function"
    <3>1. e.kids[i] \in g.plain
      BY <2>1 DEF Kids
    <3>2. e.kids[i].kind # "function"
      BY <3>1, ExpressionKinds DEF Expressions
    <3>3. QED
      BY <3>1, <3>2 DEF Yields
  <2>3. QED
    BY <2>1, <2>2, ConstantPassed
<1>2. CASE NativeNode(e)
  <2>1. DOMAIN e.kids = {}
    BY <1>2 DEF NativeNode
  <2>2. QED
    BY <1>2, <2>1, ConstantPassed
<1>3. QED
  BY <1>1, <1>2

LEMMA ChainPassed ==
  ASSUME NEW g, NEW p, Sorts(g, p), NEW e \in Nodes, e \in g.chain, NEW a \in Shapes, Clear(a),
         NEW m \in Modes, m.vi = "VISIT_NORMAL", m.vf = "VISIT_F_NO", 1 <= m.depth,
         m.depth + g.nest[e] <= UINT16_MAX, NEW s \in Seq(Nat)
  PROVE  Passed(g, p, e, Stage(a, m, s), Stage(With(a, <<Entry(e)>>), Targeting(m), s))
<1>1. ChainNode(g, e) /\ TypedNode(p, e) /\ e.kind # "function" /\ Entry(e) = Number(e)
  <2>1. e \in Expressions(g) /\ ChainNode(g, e)
    BY DEF Expressions, Sorts
  <2>2. QED
    BY <2>1, SortedKinds
<1>2. \A k \in g.chain : g.nest[k] \in Nat /\ 1 <= g.nest[k]
  <2>1. \A k \in g.chain : g.nest[k] \in 1 .. UINT16_MAX
    BY DEF Sorts, ChainNode
  <2>2. QED
    BY <2>1
<1>3. m.depth \in Nat
  BY ModeParts
<1>4. Targeting(m) \in Modes
  BY ModesMade
<1>5. \A k \in Expressions(g) : k.kind # "function"
  BY ExpressionKinds
<1>6. CASE e.kind \in UnaryKinds
  <2>1. e.kids[1] \in g.chain /\ g.nest[e.kids[1]] <= g.nest[e]
    BY <1>1, <1>6, KindsApart DEF ChainNode
  <2>2. m.depth + g.nest[e.kids[1]] <= UINT16_MAX
    BY <1>2, <1>3, <2>1, UInt16Max
  <2>3. Yields(g, e.kids[1], m, Targeting(m))
    BY <2>1, <2>2 DEF Yields
  <2>4. e.kids[1].kind # "function"
    BY <1>5, <2>1 DEF Expressions
  <2>5. QED
    BY <1>1, <1>4, <1>6, <2>3, <2>4, UnaryPassed
<1>7. CASE e.kind \in AssignKinds
  <2>1. m.depth + 1 <= 65535
    BY <1>2, <1>3, UInt16Max
  <2>2. Deeper(m) \in Modes /\ Deeper(m).vi = "VISIT_NORMAL" /\ Deeper(m).vf = "VISIT_F_NO"
    BY ModesMade
  <2>3. Deeper(m).depth = m.depth + 1
    BY <2>1, <2>2, ChainModes
  <2>4. \/ e.kids[2] \in Unassigning(g)
        \/ e.kids[2] \in g.chain /\ g.nest[e.kids[2]] < g.nest[e]
    BY <1>1, <1>7, KindsApart DEF ChainNode
  <2>5. e.kids[2].kind # "function"
    BY <1>5, <2>4 DEF Expressions, Unassigning
  <2>6. PICK n \in Modes : /\ Yields(g, e.kids[2], Deeper(m), n) /\ n.vf = "VISIT_F_NO" /\ n.depth = Deeper(m).depth
                           /\ n.vi = m.vi \/ n.vi = "VISIT_NOMAL_ASSIGN"
    <3>1. CASE e.kids[2] \in Unassigning(g)
      <4>1. Silent(Deeper(m)) = Deeper(m)
        BY <2>2, SilentTwice
      <4>2. Yields(g, e.kids[2], Deeper(m), Deeper(m))
        BY <2>2, <3>1, <4>1 DEF Yields, Unassigning
      <4>3. QED
        BY <2>2, <4>2
    <3>2. CASE e.kids[2] \in g.chain /\ g.nest[e.kids[2]] < g.nest[e]
      <4>1. Deeper(m).depth + g.nest[e.kids[2]] <= UINT16_MAX /\ 1 <= Deeper(m).depth
        BY <1>2, <1>3, <2>3, <3>2, UInt16Max
      <4>2. Yields(g, e.kids[2], Deeper(m), Targeting(Deeper(m)))
        BY <2>2, <3>2, <4>1 DEF Yields
      <4>3. /\ Targeting(Deeper(m)) \in Modes /\ Targeting(Deeper(m)).vf = "VISIT_F_NO"
            /\ Targeting(Deeper(m)).depth = Deeper(m).depth /\ Targeting(Deeper(m)).vi = "VISIT_NOMAL_ASSIGN"
        BY <2>2, ModesMade
      <4>4. QED
        BY <4>2, <4>3
    <3>3. QED
      BY <2>4, <3>1, <3>2
  <2>7. Wanted(Targeting(n)) /\ Assigned(Targeting(n)) = Targeting(m)
    BY <2>1, <2>6, ChainModes
  <2>8. Passed(g, p, e, Stage(a, m, s),
               Stage(IF Wanted(Targeting(n)) THEN With(a, <<Number(e)>>) ELSE a, Assigned(Targeting(n)), s))
    BY <1>1, <1>7, <2>5, <2>6, AssignPassed
  <2>9. QED
    BY <1>1, <2>7, <2>8
<1>8. QED
  BY <1>1, <1>6, <1>7 DEF ChainNode

LEMMA ArgPassed ==
  ASSUME NEW g, NEW p, Sorts(g, p), NEW e \in Nodes, e \in g.arg, NEW a \in Shapes, Clear(a),
         NEW m \in Modes, m.vi = "VISIT_NORMAL", m.vf = "VISIT_F_CALL", NEW s \in Seq(Nat)
  PROVE  Passed(g, p, e, Stage(a, m, s), Stage(With(a, <<Entry(e)>>), Shallow(m), s))
<1>1. ArgNode(g, e) /\ TypedNode(p, e) /\ e.kind # "function" /\ Entry(e) = Number(e)
  <2>1. e \in Expressions(g) /\ ArgNode(g, e)
    BY DEF Expressions, Sorts
  <2>2. QED
    BY <2>1, SortedKinds
<1>2. Shallow(m) \in Modes
  BY ModesMade
<1>3. \A k \in Expressions(g) : k.kind # "function"
  BY ExpressionKinds
<1>4. CASE e.kind \in UnaryKinds
  <2>1. e.kids[1] \in g.arg
    BY <1>1, <1>4, KindsApart DEF ArgNode
  <2>2. Yields(g, e.kids[1], m, Shallow(m))
    BY <2>1 DEF Yields
  <2>3. e.kids[1].kind # "function"
    BY <1>3, <2>1 DEF Expressions
  <2>4. QED
    BY <1>1, <1>2, <1>4, <2>2, <2>3, UnaryPassed
<1>5. CASE e.kind \in AssignKinds
  <2>1. Deeper(m) \in Modes /\ Deeper(m).vi = "VISIT_NORMAL" /\ Deeper(m).vf = "VISIT_F_CALL"
    BY ModesMade
  <2>2. e.kids[2] \in g.plain \cup g.arg
    BY <1>1, <1>5, KindsApart DEF ArgNode
  <2>3. e.kids[2].kind # "function"
    BY <1>3, <2>2 DEF Expressions
  <2>4. PICK n \in Modes : Yields(g, e.kids[2], Deeper(m), n) /\ n.vf = "VISIT_F_CALL"
    <3>1. CASE e.kids[2] \in g.plain
      <4>1. Yields(g, e.kids[2], Deeper(m), Deeper(m))
        BY <2>1, <3>1 DEF Yields
      <4>2. QED
        BY <2>1, <4>1
    <3>2. CASE e.kids[2] \in g.arg
      <4>1. Yields(g, e.kids[2], Deeper(m), Shallow(Deeper(m)))
        BY <2>1, <3>2 DEF Yields
      <4>2. Shallow(Deeper(m)) \in Modes /\ Shallow(Deeper(m)).vf = "VISIT_F_CALL"
        BY <2>1, ModesMade
      <4>3. QED
        BY <4>1, <4>2
    <3>3. QED
      BY <2>2, <3>1, <3>2
  <2>5. Wanted(Targeting(n)) /\ Assigned(Targeting(n)) = Shallow(m)
    BY <2>4, ArgModes
  <2>6. Passed(g, p, e, Stage(a, m, s),
               Stage(IF Wanted(Targeting(n)) THEN With(a, <<Number(e)>>) ELSE a, Assigned(Targeting(n)), s))
    BY <1>1, <1>5, <2>3, <2>4, AssignPassed
  <2>7. QED
    BY <1>1, <2>5, <2>6
<1>6. QED
  BY <1>1, <1>4, <1>5 DEF ArgNode

\* The arguments that assign set the depth to 0, and a call among those behind
\* them clears the flag of calls.
LEMMA BusyPassed ==
  ASSUME NEW g, NEW p, Sorts(g, p), NEW e \in Nodes, e \in g.busy, NEW a \in Shapes, Clear(a),
         NEW m \in Modes, m.vi = "VISIT_NORMAL", m.vf = "VISIT_F_NO", NEW s \in Seq(Nat)
  PROVE  Passed(g, p, e, Stage(a, m, s), Stage(With(a, <<Entry(e)>>), Shallow(m), s))
<1>1. BusyNode(g, e) /\ TypedNode(p, e) /\ e.kind # "function"
  <2>1. e \in Expressions(g) /\ BusyNode(g, e)
    BY DEF Expressions, Sorts
  <2>2. QED
    BY <2>1, SortedKinds
<1>2. Shallow(m) \in Modes
  BY ModesMade
<1>3. \A k \in Expressions(g) : k.kind # "function"
  BY ExpressionKinds
<1>4. CASE e.kind \in UnaryKinds
  <2>1. e.kids[1] \in g.busy
    BY <1>1, <1>4, KindsApart DEF BusyNode
  <2>2. Yields(g, e.kids[1], m, Shallow(m))
    BY <2>1 DEF Yields
  <2>3. e.kids[1].kind # "function"
    BY <1>3, <2>1 DEF Expressions
  <2>4. QED
    BY <1>1, <1>2, <1>4, <2>2, <2>3, UnaryPassed
<1>5. CASE e.kind = "call"
  <2> DEFINE n == Len(e.kids)
             m1 == Called(m)
             m2 == Shallow(m1)
             m3 == Silent(m2)
  <2>1. /\ n \in Nat /\ n > 1 /\ DOMAIN e.kids = 1 .. n /\ NativeNode(e.kids[n])
    BY <1>1, <1>5, CallKids
  <2>2. PICK k \in 1 .. n - 1 : /\ e.kids[k] \in g.arg
                                /\ \A i \in 1 .. k - 1 : e.kids[i] \in g.plain \cup g.arg
                                /\ \A i \in k + 1 .. n - 1 : e.kids[i] \in Unassigning(g)
    BY <1>1, <1>5, KindsApart DEF BusyNode
  <2>3. k \in Nat /\ 1 <= k /\ k < n
    BY <2>1
  <2> DEFINE reset(i) == \E j \in 1 .. k : j < i /\ e.kids[j] \in g.arg
             met(i) == \E j \in k + 1 .. n : j < i /\ e.kids[j] \in g.calling
             ms == [i \in 1 .. n + 1 |-> IF met(i) THEN m3 ELSE IF reset(i) THEN m2 ELSE m1]
  <2>4. /\ m1 \in Modes /\ m1.vi = "VISIT_NORMAL" /\ m1.vf = "VISIT_F_CALL"
        /\ m2 \in Modes /\ m2.vi = "VISIT_NORMAL" /\ m2.vf = "VISIT_F_CALL"
        /\ m3 \in Modes /\ m3.vi = "VISIT_NORMAL"
    <3>1. m1 \in Modes /\ m1.vi = "VISIT_NORMAL" /\ m1.vf = "VISIT_F_CALL"
      BY ModesMade
    <3> HIDE DEF m1
    <3>2. m2 \in Modes /\ m2.vi = "VISIT_NORMAL" /\ m2.vf = "VISIT_F_CALL"
      BY <3>1, ModesMade
    <3> HIDE DEF m2
    <3>3. m3 \in Modes /\ m3.vi = "VISIT_NORMAL"
      BY <3>2, ModesMade
    <3>4. QED
      BY <3>1, <3>2, <3>3
  <2>5. Shallow(m2) = m2 /\ Silent(m2) = m3 /\ Silent(m3) = m3 /\ m3 = Shallow(m) /\ Shallow(m1) = m2
    <3>1. Silent(Shallow(Called(m))) = Shallow(m)
      BY SilentTwice
    <3>2. Shallow(m2) = m2
      BY <2>4, SilentTwice
    <3>3. Silent(m3) = m3
      BY <2>4, SilentTwice
    <3>4. QED
      BY <3>1, <3>2, <3>3
  <2>6. \A i \in 1 .. n + 1 : ms[i] = (IF met(i) THEN m3 ELSE IF reset(i) THEN m2 ELSE m1)
    OBVIOUS
  <2>7. ASSUME NEW i \in 1 .. n
        PROVE  /\ i <= k => (reset(i + 1) <=> reset(i) \/ e.kids[i] \in g.arg)
               /\ i > k => (met(i + 1) <=> met(i) \/ e.kids[i] \in g.calling)
               /\ i <= k => ~met(i) /\ ~met(i + 1)
               /\ i > k => reset(i) /\ reset(i + 1)
    BY <2>1, <2>2, <2>3
  <2>8. ~reset(1) /\ ~met(1) /\ reset(n + 1)
    <3>1. ~reset(1) /\ ~met(1)
      BY <2>3
    <3>2. k \in 1 .. k /\ k < n + 1
      BY <2>1, <2>3
    <3>3. reset(n + 1)
      BY <2>2, <3>2
    <3>4. QED
      BY <3>1, <3>3
  <2> HIDE DEF ms, met, reset, m1, m2, m3
  <2>9. 1 \in 1 .. n + 1 /\ n + 1 \in 1 .. n + 1 /\ \A i \in 1 .. n : i \in 1 .. n + 1 /\ i + 1 \in 1 .. n + 1
    BY <2>1
  <2>10. ASSUME NEW i \in 1 .. n PROVE Yields(g, e.kids[i], ms[i], ms[i + 1])
    <3>1. CASE i <= k
      <4>1. ms[i] = (IF reset(i) THEN m2 ELSE m1) /\ ms[i + 1] = (IF reset(i + 1) THEN m2 ELSE m1)
        BY <2>6, <2>7, <2>9, <3>1
      <4>2. e.kids[i] \in g.plain \cup g.arg
        <5>1. i = k \/ i \in 1 .. k - 1
          BY <2>3, <3>1
        <5>2. QED
          BY <2>2, <5>1
      <4>3. ms[i].vi = "VISIT_NORMAL" /\ ms[i].vf = "VISIT_F_CALL" /\ Shallow(ms[i]) = m2
        BY <2>4, <2>5, <4>1
      <4>4. CASE e.kids[i] \in g.arg
        <5>1. ms[i + 1] = m2
          BY <2>7, <3>1, <4>1, <4>4
        <5>2. QED
          BY <4>3, <4>4, <5>1 DEF Yields
      <4>5. CASE e.kids[i] \notin g.arg
        <5>1. ms[i + 1] = ms[i]
          BY <2>7, <3>1, <4>1, <4>5
        <5>2. QED
          BY <4>2, <4>3, <4>5, <5>1 DEF Yields
      <4>6. QED
        BY <4>4, <4>5
    <3>2. CASE i > k
      <4>1. ms[i] = (IF met(i) THEN m3 ELSE m2) /\ ms[i + 1] = (IF met(i + 1) THEN m3 ELSE m2)
        BY <2>6, <2>7, <2>9, <3>2
      <4>2. e.kids[i] \in Unassigning(g) \/ NativeNode(e.kids[i])
        <5>1. i = n \/ i \in k + 1 .. n - 1
          BY <2>1, <2>3, <3>2
        <5>2. QED
          BY <2>1, <2>2, <5>1
      <4>3. ms[i].vi = "VISIT_NORMAL" /\ Silent(ms[i]) = m3
        BY <2>4, <2>5, <4>1
      <4>4. CASE e.kids[i] \in g.calling
        <5>1. ms[i + 1] = m3
          BY <2>7, <3>2, <4>1, <4>4
        <5>2. QED
          BY <4>3, <4>4, <5>1 DEF Yields
      <4>5. CASE e.kids[i] \notin g.calling
        <5>1. ms[i + 1] = ms[i]
          BY <2>7, <3>2, <4>1, <4>5
        <5>2. QED
          BY <4>2, <4>3, <4>5, <5>1 DEF Yields, Unassigning
      <4>6. QED
        BY <4>4, <4>5
    <3>3. QED
      BY <2>3, <3>1, <3>2
  <2>11. \A i \in 1 .. n + 1 : ms[i] \in Modes /\ ms[i].vi = "VISIT_NORMAL"
    BY <2>4, <2>6
  <2>12. ms[1] = m1 /\ Silent(ms[n + 1]) = m3
    <3>1. ms[1] = m1
      BY <2>6, <2>8, <2>9
    <3>2. ms[n + 1] = m3 \/ ms[n + 1] = m2
      BY <2>6, <2>8, <2>9
    <3>3. QED
      BY <2>5, <3>1, <3>2
  <2>13. ASSUME NEW i \in DOMAIN e.kids, e.kids[i].kind = "function" PROVE e.kind = "call" /\ i = Len(e.kids)
    <3>1. i # n => e.kids[i] \in Expressions(g)
      <4>1. i # n => i = k \/ i \in 1 .. k - 1 \/ i \in k + 1 .. n - 1
        BY <2>1, <2>3
      <4>2. QED
        BY <2>2, <4>1 DEF Expressions, Unassigning
    <3>2. QED
      BY <1>3, <1>5, <2>13, <3>1
  <2>14. /\ \A i \in 1 .. Len(e.kids) + 1 : ms[i] \in Modes
         /\ \A i \in DOMAIN e.kids : Yields(g, e.kids[i], ms[i], ms[i + 1])
         /\ ms[Len(e.kids) + 1].vi = "VISIT_NORMAL"
         /\ ms[1] = (IF e.kind = "call" THEN Called(m) ELSE m)
         /\ Shallow(m) = IF e.kind = "call" THEN Silent(ms[Len(e.kids) + 1]) ELSE ms[Len(e.kids) + 1]
    BY <1>5, <2>1, <2>5, <2>9, <2>10, <2>11, <2>12 DEF m1
  <2> HIDE DEF n
  <2>15. QED
    BY <1>1, <1>5, <2>13, <2>14, OperatorPassed
<1>6. QED
  BY <1>1, <1>4, <1>5 DEF BusyNode

LEMMA EvaluatesPassed ==
  ASSUME NEW g, NEW p, Sorts(g, p), NEW e \in Nodes, NEW s \in Stages, NEW t \in Stages, Evaluates(g, e, s, t)
  PROVE  Passed(g, p, e, s, t)
<1> DEFINE a == s.shape
           m == s.modes
           n == t.modes
           f == s.ifs
<1>1. a \in Shapes /\ m \in Modes /\ n \in Modes /\ f \in Seq(Nat) /\ s = Stage(a, m, f)
      /\ Clear(a) /\ Yields(g, e, m, n)
  BY StageParts DEF Evaluates
<1>2. t = Stage(With(a, <<Entry(e)>>), n, f)
  BY StageParts DEF Evaluates
<1> HIDE DEF a, m, n, f
<1>3. m.vi = "VISIT_NORMAL"
  BY <1>1 DEF Yields
<1>4. CASE (e \in g.plain \/ NativeNode(e)) /\ n = m
  BY <1>1, <1>2, <1>3, <1>4, PlainPassed
<1>5. CASE e \in g.calling /\ n = Silent(m)
  BY <1>1, <1>2, <1>3, <1>5, CallingPassed
<1>6. CASE /\ e \in g.chain /\ m.vf = "VISIT_F_NO" /\ 1 <= m.depth /\ m.depth + g.nest[e] <= UINT16_MAX
           /\ n = Targeting(m)
  BY <1>1, <1>2, <1>3, <1>6, ChainPassed
<1>7. CASE e \in g.arg /\ m.vf = "VISIT_F_CALL" /\ n = Shallow(m)
  BY <1>1, <1>2, <1>3, <1>7, ArgPassed
<1>8. CASE e \in g.busy /\ m.vf = "VISIT_F_NO" /\ n = Shallow(m)
  BY <1>1, <1>2, <1>3, <1>8, BusyPassed
<1>9. QED
  BY <1>1, <1>4, <1>5, <1>6, <1>7, <1>8 DEF Yields

LEMMA CommitsPassed ==
  ASSUME NEW g, NEW p, Sorts(g, p), NEW e \in Nodes, NEW s \in Stages, NEW t \in Stages, Commits(g, p, e, s, t)
  PROVE  Passed(g, p, e, s, t) /\ e.kind \in AssignKinds
<1> DEFINE a == s.shape
           f == s.ifs
           k == e.kids[2]
           m == Resting
<1>1. a \in Shapes /\ f \in Seq(Nat) /\ s = Stage(a, m, f) /\ Clear(a) /\ e.kind \in AssignKinds /\ TypedNode(p, e)
      /\ Stores(g, e)
  BY StageParts DEF Commits, Stores
<1>2. t = Stage(a, Mode("VISIT_NOMAL_ASSIGN", "VISIT_F_NO", IF k \in g.busy THEN UINT16_MAX ELSE 0), f)
  BY StageParts DEF Commits
<1> HIDE DEF a, f
<1>3. m \in Modes /\ m.vi = "VISIT_NORMAL" /\ m.vf = "VISIT_F_NO" /\ m.depth = 0
  BY RestingTyped
<1>4. Deeper(m) \in Modes /\ Deeper(m).vi = "VISIT_NORMAL" /\ Deeper(m).vf = "VISIT_F_NO" /\ Deeper(m).depth = 1
  <2>1. Deeper(m).depth = (0 + 1) % 65536 /\ (0 + 1) % 65536 = 1
    <3>1. Deeper(m).depth = (m.depth + 1) % 65536
      BY <1>3, ModesMade
    <3>2. (0 + 1) % 65536 = 1
      OBVIOUS
    <3>3. QED
      BY <1>3, <3>1, <3>2
  <2>2. Deeper(m) \in Modes /\ Deeper(m).vi = m.vi /\ Deeper(m).vf = m.vf
    BY <1>3, ModesMade
  <2>3. QED
    BY <1>3, <2>1, <2>2
<1>5. k.kind # "function"
  <2>1. k \in Expressions(g)
    BY <1>1 DEF Stores, Unassigning, Expressions
  <2>2. QED
    BY <2>1, ExpressionKinds
<1>6. PICK n \in Modes : /\ Yields(g, k, Deeper(m), n) /\ n.vf = "VISIT_F_NO"
                         /\ n.depth = IF k \in g.busy THEN 0 ELSE 1
  <2>1. CASE k \in g.busy
    <3>1. Yields(g, k, Deeper(m), Shallow(Deeper(m)))
      BY <1>4, <2>1 DEF Yields
    <3>2. Shallow(Deeper(m)) \in Modes /\ Shallow(Deeper(m)).vf = "VISIT_F_NO" /\ Shallow(Deeper(m)).depth = 0
      BY <1>4, ModesMade
    <3>3. QED
      BY <2>1, <3>1, <3>2
  <2>2. CASE k \notin g.busy /\ k \in Unassigning(g)
    <3>1. Silent(Deeper(m)) = Deeper(m)
      BY <1>4, SilentTwice
    <3>2. Yields(g, k, Deeper(m), Deeper(m))
      BY <1>4, <2>2, <3>1 DEF Yields, Unassigning
    <3>3. QED
      BY <1>4, <2>2, <3>2
  <2>3. CASE k \notin g.busy /\ k \in g.chain /\ g.nest[k] < UINT16_MAX
    <3>1. g.nest[k] \in 1 .. UINT16_MAX
      BY <2>3 DEF Sorts, ChainNode
    <3>2. g.nest[k] \in Int
      BY <3>1
    <3>3. 1 + g.nest[k] <= UINT16_MAX
      BY <2>3, <3>2, UInt16Max
    <3>4. Yields(g, k, Deeper(m), Targeting(Deeper(m)))
      BY <1>4, <2>3, <3>3 DEF Yields
    <3>5. Targeting(Deeper(m)) \in Modes /\ Targeting(Deeper(m)).vf = "VISIT_F_NO" /\ Targeting(Deeper(m)).depth = 1
      BY <1>4, ModesMade
    <3>6. QED
      BY <2>3, <3>4, <3>5
  <2>4. QED
    BY <1>1, <2>1, <2>2, <2>3 DEF Stores
<1>7. ~Wanted(Targeting(n))
      /\ Assigned(Targeting(n)) = Mode("VISIT_NOMAL_ASSIGN", "VISIT_F_NO", IF n.depth = 0 THEN UINT16_MAX ELSE 0)
  <2>1. n.depth \in {0, 1} /\ n.vf = "VISIT_F_NO"
    BY <1>6
  <2>2. QED
    BY <2>1, StoreModes
<1>8. Passed(g, p, e, Stage(a, m, f),
             Stage(IF Wanted(Targeting(n)) THEN With(a, <<Number(e)>>) ELSE a, Assigned(Targeting(n)), f))
  BY <1>1, <1>3, <1>5, <1>6, AssignPassed
<1>9. QED
  <2>1. (n.depth = 0) = (k \in g.busy)
    BY <1>6
  <2>2. QED
    BY <1>1, <1>2, <1>7, <1>8, <2>1

LEMMA TargetedPassed ==
  ASSUME NEW g, NEW p, NEW e \in Nodes, NEW s \in Stages, NEW t \in Stages, Targeted(p, e, s, t)
  PROVE  Passed(g, p, e, s, t) /\ e.kind \notin AssignKinds
<1>1. e.kind = "ident" /\ e.kids = <<>>
  BY DEF Targeted, Variable
<1>2. e.kind \notin AssignKinds /\ e.kind # "call"
  BY <1>1 DEF AssignKinds, CompoundOf
<1>3. Inside(e, s) = s
  BY <1>2, StageParts DEF Inside
<1>4. Children(e) = <<>>
  BY <1>1, <1>2 DEF Children
<1>5. Leads(Course(g, p), Children(e), s, s)
  BY <1>4, LeadsNowhere
<1>6. Call("leave", e) \in Pending /\ Call("leave", e).at = "leave" /\ Call("leave", e).node = e
  BY DEF Call, Pending
<1>7. <<Call("leave", e), s, t>> \in Course(g, p)
  BY <1>6, CourseIn DEF Takes, Finishes
<1>8. QED
  BY <1>2, <1>3, <1>5, <1>7 DEF Passed

LEMMA RestingStays == Silent(Resting) = Resting /\ Shallow(Resting) = Resting
BY RestingTyped DEF Silent, Shallow, Resting, Mode

LEMMA PerformsPassed ==
  ASSUME NEW g, NEW p, Sorts(g, p), NEW e \in Nodes, NEW s \in Stages, NEW t \in Stages, Performs(g, p, e, s, t)
  PROVE  Passed(g, p, e, s, t) /\ e.kind \in StatementKinds /\ e.kind \notin AssignKinds
<1>1. PICK u \in Levels, v \in Levels : s = Rest(u) /\ t = Rest(v) /\ Raises(e, u, v) /\ WellPut(g, p, e)
  BY DEF Performs
<1>2. e.kind \in StatementKinds /\ e.kind \notin AssignKinds /\ e.kind # "call"
  <2>1. e.kind \in StatementKinds
    BY <1>1 DEF Raises, StatementKinds
  <2>2. QED
    BY <2>1, KindsApart
<1>3. /\ u.blocks \in Nat /\ u.ifs \in Seq(Nat) /\ s.shape = Bare(u.blocks) /\ s.modes = Resting /\ s.ifs = u.ifs
      /\ Bare(u.blocks) \in Shapes /\ Clear(Bare(u.blocks)) /\ Bare(u.blocks).blocks = u.blocks
  BY <1>1, LevelTyped, BareShape
<1>4. Inside(e, s) = s
  BY <1>2, StageParts DEF Inside
<1>5. Call("leave", e) \in Pending /\ Call("leave", e).at = "leave" /\ Call("leave", e).node = e
  BY DEF Call, Pending
<1>6. ASSUME NEW k \in Stages, Leads(Course(g, p), Children(e), s, k), Concludes(g, p, e, k, t)
      PROVE  Passed(g, p, e, s, t)
  <2>1. <<Call("leave", e), k, t>> \in Course(g, p)
    BY <1>5, <1>6, CourseIn DEF Takes, Finishes
  <2>2. QED
    BY <1>4, <1>6, <2>1 DEF Passed
<1>7. CASE e.kids = <<>>
  <2>1. Children(e) = <<>>
    BY <1>2, <1>7 DEF Children
  <2>2. Leads(Course(g, p), Children(e), s, s)
    BY <2>1, LeadsNowhere
  <2>3. Concludes(g, p, e, s, t)
    BY <1>1, <1>3, <1>7 DEF Concludes
  <2>4. QED
    BY <1>2, <1>6, <2>2, <2>3
<1>8. CASE e.kids # <<>>
  <2> DEFINE e1 == e.kids[1]
  <2>1. e.kind \in {"exprstmt", "ifenter", "declstmt"} /\ Len(e.kids) = 1
    BY <1>1, <1>2, <1>8 DEF WellPut, StatementKinds
  <2>2. \/ e1 \in Unassigning(g)
        \/ e.kind = "exprstmt" /\ (e1 \in g.busy \/ (Stores(g, e1) /\ TypedNode(p, e1)))
    BY <1>1, <1>8, <2>1 DEF WellPut
  <2>3. e1 \in Nodes /\ e.kids \in Seq(Nodes) /\ DOMAIN e.kids = 1 .. 1
    BY <2>1, ValuesTyped, KidsTyped
  <2>4. Children(e) = <<Call("enter", e1)>>
    BY <1>2, <2>3 DEF Children
  <2>5. Call("enter", e1) \in Pending /\ Call("enter", e1).at = "enter" /\ Call("enter", e1).node = e1
    BY <2>3 DEF Call, Pending
  <2>6. ASSUME NEW k \in Stages, Begins(g, p, e1, s, k)
        PROVE  Leads(Course(g, p), Children(e), s, k)
    <3>1. <<Call("enter", e1), s, k>> \in Course(g, p)
      BY <2>5, <2>6, CourseIn DEF Takes
    <3>2. QED
      BY <2>4, <3>1, LeadsOne
  <2> HIDE DEF e1
  <2>7. CASE e1 \in Unassigning(g) \cup g.busy
    <3> DEFINE b == With(Bare(u.blocks), <<Number(e1)>>)
               k == Stage(b, Resting, u.ifs)
    <3>1. e1.kind # "function" /\ Entry(e1) = Number(e1)
      <4>1. e1 \in Expressions(g)
        BY <2>7 DEF Unassigning, Expressions
      <4>2. QED
        BY <2>3, <4>1, SortedKinds
    <3>2. <<Number(e1)>> \in Seq(Members)
      BY <2>3, NumberTyped
    <3>3. b \in Shapes
      BY <1>3, <3>2, WithTyped
    <3>4. k \in Stages /\ k.shape = b /\ k.modes = Resting /\ k.ifs = u.ifs
      BY <1>3, <3>3, RestingTyped, StageTyped
    <3> HIDE DEF b, k
    <3>5. Yields(g, e1, Resting, Resting)
      BY <2>7, RestingTyped, RestingStays DEF Yields, Unassigning
    <3>6. Evaluates(g, e1, s, k)
      BY <1>3, <3>1, <3>4, <3>5 DEF Evaluates, b
    <3>7. Leads(Course(g, p), Children(e), s, k)
      BY <2>6, <3>4, <3>6 DEF Begins
    <3>8. Concludes(g, p, e, k, t)
      BY <1>1, <1>8, <3>4 DEF Concludes, b, e1
    <3>9. QED
      BY <1>2, <1>6, <3>4, <3>7, <3>8
  <2>8. CASE e.kind = "exprstmt" /\ Stores(g, e1) /\ TypedNode(p, e1)
    <3> DEFINE m == Mode("VISIT_NOMAL_ASSIGN", "VISIT_F_NO", IF e1.kids[2] \in g.busy THEN UINT16_MAX ELSE 0)
               k == Stage(Bare(u.blocks), m, u.ifs)
    <3>1. m \in Modes /\ m.vi = "VISIT_NOMAL_ASSIGN" /\ m.vf = "VISIT_F_NO"
      <4>1. (IF e1.kids[2] \in g.busy THEN UINT16_MAX ELSE 0) \in UInt16
        BY UInt16Max, UInt16Is
      <4>2. QED
        BY <4>1, ModeTyped
    <3>2. k \in Stages /\ k.shape = Bare(u.blocks) /\ k.modes = m /\ k.ifs = u.ifs
      <4> HIDE DEF m
      <4>1. QED
        BY <1>3, <3>1, StageTyped
    <3> HIDE DEF k
    <3>3. Commits(g, p, e1, s, k)
      BY <1>3, <2>8, <3>2 DEF Commits
    <3> HIDE DEF m
    <3>4. Leads(Course(g, p), Children(e), s, k)
      BY <2>6, <3>2, <3>3 DEF Begins
    <3>5. Concludes(g, p, e, k, t)
      BY <1>1, <2>8, <3>1, <3>2 DEF Concludes
    <3>6. QED
      BY <1>2, <1>6, <3>2, <3>4, <3>5
  <2>9. QED
    BY <1>2, <2>2, <2>7, <2>8
<1>9. QED
  BY <1>2, <1>7, <1>8

\* Whatever a node that is entered leads to, its children and its leaving lead to.
LEMMA BeginsPassed ==
  ASSUME NEW g, NEW p, Sorts(g, p), NEW e \in Nodes, NEW s \in Stages, NEW t \in Stages, Begins(g, p, e, s, t)
  PROVE  Passed(g, p, e, s, t) /\ (e.kind \in AssignKinds => Clear(s.shape) /\ TypedNode(p, e))
<1>1. CASE Evaluates(g, e, s, t)
  <2>1. e.kind \in AssignKinds => e \in Expressions(g)
    BY <1>1, KindsApart DEF Evaluates, Yields, Expressions, NativeNode
  <2>2. e.kind \in AssignKinds => TypedNode(p, e)
    BY <2>1, ExpressionKinds
  <2>3. QED
    BY <1>1, <2>2, EvaluatesPassed DEF Evaluates
<1>2. CASE Targeted(p, e, s, t)
  BY <1>2, TargetedPassed
<1>3. CASE Commits(g, p, e, s, t)
  BY <1>3, CommitsPassed DEF Commits
<1>4. CASE Performs(g, p, e, s, t)
  BY <1>4, PerformsPassed
<1>5. QED
  BY <1>1, <1>2, <1>3, <1>4 DEF Begins

-----------------------------------------------------------------------------
(* What each instruction is allowed by, and what a handler emits.            *)

LEMMA ReplaceWith ==
  ASSUME NEW a \in Shapes, NEW r \in Seq(Members), NEW new \in Seq(Members)
  PROVE  /\ Replace(With(a, r), Len(r), new) = With(a, new)
         /\ \A k \in 1 .. Len(r) : \A t : TopIs(With(a, r), k, t) <=> r[Len(r) - k + 1].t = t
<1>1. PICK s \in Seq(Members) : s = a.tags
  BY DEF Shapes
<1>2. /\ Len(s) \in Nat /\ Len(r) \in Nat /\ Len(s \o r) = Len(s) + Len(r)
      /\ \A i \in 1 .. Len(r) : (s \o r)[Len(s) + i] = r[i]
  OBVIOUS
<1>3. With(a, r).tags = s \o r /\ With(a, r).blocks = a.blocks
  BY <1>1 DEF With
<1>4. SubSeq(s \o r, 1, Len(s \o r) - Len(r)) = s
  <2>1. Len(s \o r) - Len(r) = Len(s)
    BY <1>2
  <2>2. SubSeq(s \o r, 1, Len(s)) = s
    <3> DEFINE w == SubSeq(s \o r, 1, Len(s))
    <3>1. s \o r \in Seq(Members) /\ Len(s) <= Len(s \o r)
      BY <1>2
    <3>2. w \in Seq(Members) /\ Len(w) = Len(s) /\ \A i \in 1 .. Len(s) : w[i] = (s \o r)[i]
      BY <1>2, <3>1
    <3>3. \A i \in 1 .. Len(s) : (s \o r)[i] = s[i]
      OBVIOUS
    <3> HIDE DEF w
    <3>4. Len(w) = Len(s) /\ \A i \in 1 .. Len(s) : w[i] = s[i]
      BY <3>2, <3>3
    <3>5. w = s
      BY <3>2, <3>4, SeqEqual
    <3>6. QED
      BY <3>5 DEF w
  <2>3. QED
    BY <2>1, <2>2
<1>5. Replace(With(a, r), Len(r), new) = With(a, new)
  BY <1>1, <1>3, <1>4 DEF Replace, With
<1>6. ASSUME NEW k \in 1 .. Len(r), NEW t
      PROVE  TopIs(With(a, r), k, t) <=> r[Len(r) - k + 1].t = t
  <2> DEFINE i == Len(r) - k + 1
  <2>1. i \in 1 .. Len(r) /\ k <= Len(s \o r) /\ Len(s \o r) - k + 1 = Len(s) + i
    BY <1>2
  <2> HIDE DEF i
  <2>2. (s \o r)[Len(s \o r) - k + 1] = r[i]
    BY <1>2, <2>1
  <2>3. QED
    BY <1>3, <2>1, <2>2 DEF TopIs, i
<1>7. QED
  BY <1>5, <1>6

LEMMA OneOn ==
  ASSUME NEW a \in Shapes, NEW x \in Members
  PROVE  /\ With(a, <<x>>) \in Shapes /\ Len(With(a, <<x>>).tags) > 0
         /\ \A t : TopIs(With(a, <<x>>), 1, t) <=> x.t = t
         /\ \A y \in Members : Replace(With(a, <<x>>), 1, <<y>>) = With(a, <<y>>)
                               /\ Replace(a, 0, <<y>>) = With(a, <<y>>)
         /\ Replace(With(a, <<x>>), 1, <<>>) = a
         /\ Clear(a) /\ x.f < 0 => Clear(With(a, <<x>>))
<1>1. /\ <<x>> \in Seq(Members) /\ Len(<<x>>) = 1 /\ <<x>>[1] = x /\ DOMAIN <<x>> = {1}
      /\ <<>> \in Seq(Members) /\ Len(<<>>) = 0 /\ Len(a.tags) \in Nat
  BY DEF Shapes
<1> DEFINE r == <<x>>
<1>2. r \in Seq(Members) /\ Len(r) = 1 /\ r[1] = x /\ DOMAIN r = {1}
  BY <1>1
<1> HIDE DEF r
<1>3. /\ With(a, r) \in Shapes /\ Len(With(a, r).tags) = Len(a.tags) + Len(r)
      /\ (Clear(a) /\ (\A i \in DOMAIN r : r[i].f < 0) => Clear(With(a, r)))
  BY <1>2, WithTyped
<1>4. \A new \in Seq(Members) : Replace(With(a, r), Len(r), new) = With(a, new)
  BY <1>2, ReplaceWith
<1>5. ASSUME NEW t PROVE TopIs(With(a, r), 1, t) <=> x.t = t
  <2>1. \A k \in 1 .. Len(r) : \A u : TopIs(With(a, r), k, u) <=> r[Len(r) - k + 1].t = u
    BY <1>2, <1>1, ReplaceWith
  <2>2. 1 \in 1 .. Len(r) /\ Len(r) - 1 + 1 = 1
    BY <1>2
  <2>3. QED
    BY <1>2, <2>1, <2>2
<1>6. With(a, <<>>) = a
  BY WithNothing
<1>7. Replace(With(a, r), 1, <<>>) = a
  BY <1>1, <1>2, <1>4, <1>6
<1>8. ASSUME NEW y \in Members
      PROVE  Replace(With(a, r), 1, <<y>>) = With(a, <<y>>) /\ Replace(a, 0, <<y>>) = With(a, <<y>>)
  <2>1. <<y>> \in Seq(Members)
    OBVIOUS
  <2>2. Replace(With(a, <<>>), Len(<<>>), <<y>>) = With(a, <<y>>)
    BY <1>1, <2>1, ReplaceWith
  <2>3. QED
    BY <1>1, <1>2, <1>4, <1>6, <2>1, <2>2
<1>9. Len(With(a, r).tags) > 0 /\ (Clear(a) /\ x.f < 0 => Clear(With(a, r)))
  BY <1>1, <1>2, <1>3
<1>10. QED
  BY <1>3, <1>5, <1>7, <1>8, <1>9 DEF r

LEMMA TwoOn ==
  ASSUME NEW a \in Shapes, NEW x \in Members, NEW y \in Members
  PROVE  /\ With(a, <<x, y>>) \in Shapes
         /\ \A t : TopIs(With(a, <<x, y>>), 1, t) <=> y.t = t
         /\ \A t : TopIs(With(a, <<x, y>>), 2, t) <=> x.t = t
         /\ \A z \in Members : Replace(With(a, <<x, y>>), 2, <<z>>) = With(a, <<z>>)
         /\ Clear(a) /\ x.f < 0 /\ y.f < 0 => Clear(With(a, <<x, y>>))
<1> DEFINE r == <<x, y>>
<1>1. r \in Seq(Members) /\ Len(r) = 2 /\ r[1] = x /\ r[2] = y /\ DOMAIN r = {1, 2}
  OBVIOUS
<1> HIDE DEF r
<1>2. /\ With(a, r) \in Shapes
      /\ (Clear(a) /\ (\A i \in DOMAIN r : r[i].f < 0) => Clear(With(a, r)))
  BY <1>1, WithTyped
<1>3. ASSUME NEW z \in Members PROVE Replace(With(a, r), 2, <<z>>) = With(a, <<z>>)
  <2>1. <<z>> \in Seq(Members)
    OBVIOUS
  <2>2. Replace(With(a, r), Len(r), <<z>>) = With(a, <<z>>)
    BY <1>1, <2>1, ReplaceWith
  <2>3. QED
    BY <1>1, <2>2
<1>4. \A k \in 1 .. Len(r) : \A u : TopIs(With(a, r), k, u) <=> r[Len(r) - k + 1].t = u
  <2>1. <<>> \in Seq(Members)
    OBVIOUS
  <2>2. QED
    BY <1>1, <2>1, ReplaceWith
<1>5. 1 \in 1 .. Len(r) /\ 2 \in 1 .. Len(r) /\ Len(r) - 1 + 1 = 2 /\ Len(r) - 2 + 1 = 1
  BY <1>1
<1>6. \A t : TopIs(With(a, r), 1, t) <=> y.t = t
  BY <1>1, <1>4, <1>5
<1>7. \A t : TopIs(With(a, r), 2, t) <=> x.t = t
  BY <1>1, <1>4, <1>5
<1>8. Clear(a) /\ x.f < 0 /\ y.f < 0 => Clear(With(a, r))
  BY <1>1, <1>2
<1>9. QED
  BY <1>2, <1>3, <1>6, <1>7, <1>8 DEF r

\* The same, fact by fact.
LEMMA OneTyped ==
  ASSUME NEW a \in Shapes, NEW x \in Members
  PROVE  With(a, <<x>>) \in Shapes /\ Len(With(a, <<x>>).tags) > 0
BY OneOn

LEMMA OneClear ==
  ASSUME NEW a \in Shapes, NEW x \in Members, Clear(a), x.f < 0
  PROVE  Clear(With(a, <<x>>))
BY OneOn

LEMMA OneTop ==
  ASSUME NEW a \in Shapes, NEW x \in Members
  PROVE  TopIs(With(a, <<x>>), 1, x.t)
BY OneOn

LEMMA OnePut ==
  ASSUME NEW a \in Shapes, NEW y \in Members
  PROVE  Replace(a, 0, <<y>>) = With(a, <<y>>)
BY OneOn

LEMMA OneChanged ==
  ASSUME NEW a \in Shapes, NEW x \in Members, NEW y \in Members
  PROVE  Replace(With(a, <<x>>), 1, <<y>>) = With(a, <<y>>)
BY OneOn

LEMMA OneDropped ==
  ASSUME NEW a \in Shapes, NEW x \in Members
  PROVE  Replace(With(a, <<x>>), 1, <<>>) = a
BY OneOn

LEMMA TwoTyped ==
  ASSUME NEW a \in Shapes, NEW x \in Members, NEW y \in Members
  PROVE  With(a, <<x, y>>) \in Shapes
BY TwoOn

LEMMA TwoClear ==
  ASSUME NEW a \in Shapes, NEW x \in Members, NEW y \in Members, Clear(a), x.f < 0, y.f < 0
  PROVE  Clear(With(a, <<x, y>>))
BY TwoOn

LEMMA TwoTop ==
  ASSUME NEW a \in Shapes, NEW x \in Members, NEW y \in Members
  PROVE  TopIs(With(a, <<x, y>>), 1, y.t) /\ TopIs(With(a, <<x, y>>), 2, x.t)
BY TwoOn

LEMMA TwoChanged ==
  ASSUME NEW a \in Shapes, NEW x \in Members, NEW y \in Members, NEW z \in Members
  PROVE  Replace(With(a, <<x, y>>), 2, <<z>>) = With(a, <<z>>)
BY TwoOn

LEMMA AllowConstant ==
  ASSUME NEW op \in {1, 2}, NEW img, NEW arg, NEW a,
         arg < Len(img.constant_pool), img.constant_pool[arg + 1].t = MemberOf(op)
  PROVE  Allowed(img, op, arg, a)
BY Families, BinaryApart, SMTT(60) DEF Allowed

LEMMA AllowPushStatic ==
  ASSUME NEW op \in {9, 10}, NEW img, NEW arg, NEW a,
         arg < Len(img.types), img.types[arg + 1] = MemberOf(op)
  PROVE  Allowed(img, op, arg, a)
BY Families, BinaryApart, SMTT(60) DEF Allowed

LEMMA AllowPopStatic ==
  ASSUME NEW op \in {11, 12}, NEW img, NEW arg, NEW a,
         arg < Len(img.types), img.types[arg + 1] = MemberOf(op), TopIs(a, 1, MemberOf(op))
  PROVE  Allowed(img, op, arg, a)
BY Families, BinaryApart, SMTT(60) DEF Allowed

LEMMA AllowFunction ==
  ASSUME NEW op, op = 45, NEW img, NEW arg, NEW a
  PROVE  Allowed(img, op, arg, a)
BY Families, BinaryApart, SMTT(60) DEF Allowed

LEMMA AllowBinary ==
  ASSUME NEW op \in Int, op \in BinaryOpcodes, NEW img, NEW arg, NEW a,
         TopIs(a, 1, OperandType(op)), TopIs(a, 2, OperandType(op))
  PROVE  Allowed(img, op, arg, a)
BY Families, BinaryApart, SMTT(60) DEF Allowed

LEMMA AllowLogical ==
  ASSUME NEW op \in {41, 42}, NEW img, NEW arg, NEW a, TopIs(a, 1, "int"), TopIs(a, 2, "int")
  PROVE  Allowed(img, op, arg, a)
BY Families, BinaryApart, SMTT(60) DEF Allowed

LEMMA AllowUnary ==
  ASSUME NEW op \in {23, 24, 25, 26, 27, 28, 43}, NEW img, NEW arg, NEW a, TopIs(a, 1, UnaryFrom(op))
  PROVE  Allowed(img, op, arg, a)
BY Families, BinaryApart, SMTT(60) DEF Allowed

LEMMA AllowPop ==
  ASSUME NEW op, op = 44, NEW img, NEW arg, NEW a, Len(a.tags) > 0
  PROVE  Allowed(img, op, arg, a)
BY Families, BinaryApart, SMTT(60) DEF Allowed

LEMMA AllowGoto ==
  ASSUME NEW op, op = 48, NEW img, NEW arg, NEW a, TopIs(a, 1, "int")
  PROVE  Allowed(img, op, arg, a)
BY Families, BinaryApart, SMTT(60) DEF Allowed

LEMMA AllowLabel ==
  ASSUME NEW op, op = 49, NEW img, NEW arg, NEW a
  PROVE  Allowed(img, op, arg, a)
BY Families, BinaryApart, SMTT(60) DEF Allowed

LEMMA AllowInvoke ==
  ASSUME NEW op, op = 46, NEW img, NEW arg, NEW a, Callable(a)
  PROVE  Allowed(img, op, arg, a)
BY Families, BinaryApart, SMTT(60) DEF Allowed

LEMMA AllowBlock ==
  ASSUME NEW op \in {5, 8}, NEW img, NEW arg, NEW a, a.tags = <<>>, op = 8 => a.blocks > 0
  PROVE  Allowed(img, op, arg, a)
BY Families, BinaryApart, SMTT(60) DEF Allowed

\* The opcodes are numbers, listed, and have an operand or none.
LEMMA OpcodeNumbers ==
  /\ Op.push_int = 1 /\ Op.push_double = 2 /\ Op.push_static_int = 9 /\ Op.push_static_double = 10
  /\ Op.pop_static_int = 11 /\ Op.pop_static_double = 12
  /\ Op.minus_int = 23 /\ Op.minus_double = 24 /\ Op.increment = 25 /\ Op.decrement = 26
  /\ Op.cast_int_to_double = 27 /\ Op.cast_double_to_int = 28 /\ Op.logical_not = 43
  /\ Op.logical_and = 41 /\ Op.logical_or = 42
BY DEF Op

LEMMA UInt16Typed == \A n \in UInt16 : n \in Nat /\ 0 <= n /\ n <= UINT16_MAX
<1>1. UINT16_MAX \in Nat
  BY UInt16Max
<1>2. QED
  BY <1>1 DEF UInt16

LEMMA EmitsIf ==
  ASSUME NEW img, NEW op, NEW operand \in UInt16, NEW a \in Shapes, NEW b \in Shapes, op \in Listed,
         Allowed(img, op, ArgOf(op, operand), a), b = After(op, ArgOf(op, operand), a),
         Clear(a), op # Op.invoke
  PROVE  Emits(img, op, operand, a, b)
<1>1. operand \in Int /\ 0 <= operand /\ operand <= UINT16_MAX
  BY UInt16Typed
<1>2. QED
  BY <1>1 DEF Emits

LEMMA ListedNumbers ==
  /\ \A op \in Int : 1 <= op /\ op <= 49 /\ op # 3 /\ op # 4 /\ op # 6 /\ op # 7 /\ op # 47 => op \in Listed
  /\ \A op \in BinaryOpcodes : op \in Listed /\ op \in Int
<1>1. Op.push_stack_int = 3 /\ Op.push_stack_double = 4 /\ Op.pop_stack_int = 6 /\ Op.pop_stack_double = 7 /\ Op.return = 47
  BY DEF Op
<1>2. Listed = Opcodes \ {3, 4, 6, 7, 47}
  BY <1>1 DEF Listed
<1>3. \A op \in Int : 1 <= op /\ op <= 49 /\ op # 3 /\ op # 4 /\ op # 6 /\ op # 7 /\ op # 47 => op \in Listed
  BY <1>2 DEF Opcodes
<1>4. \A op \in BinaryOpcodes : op \in Int /\ op \in Listed
  BY <1>3 DEF BinaryOpcodes
<1>5. QED
  BY <1>3, <1>4

LEMMA EmitConstant ==
  ASSUME NEW op \in {1, 2}, NEW img, NEW arg \in UInt16, NEW a \in Shapes, Clear(a),
         arg < Len(img.constant_pool), img.constant_pool[arg + 1].t = MemberOf(op)
  PROVE  Emits(img, op, arg, a, With(a, <<NumberOf(MemberOf(op))>>))
<1> DEFINE m == NumberOf(MemberOf(op))
<1>1. op \in Listed /\ op \in Int /\ op # Op.invoke
  BY ListedNumbers, Families
<1>2. ArgOf(op, arg) = arg
  BY DEF ArgOf, WithOperand
<1>3. m \in Members
  BY MembersOf, IntsTyped
<1>4. After(op, arg, a) = Replace(a, 0, <<m>>)
  BY <1>1, AfterPush
<1>5. Allowed(img, op, arg, a)
  BY AllowConstant
<1> HIDE DEF m
<1>6. With(a, <<m>>) \in Shapes /\ Replace(a, 0, <<m>>) = With(a, <<m>>)
  BY <1>3, OneTyped, OnePut
<1>7. Emits(img, op, arg, a, With(a, <<m>>))
  BY <1>1, <1>2, <1>4, <1>5, <1>6, Depths, EmitsIf
<1>8. QED
  BY <1>7 DEF m

LEMMA EmitPushStatic ==
  ASSUME NEW op \in {9, 10}, NEW img, NEW arg \in UInt16, NEW a \in Shapes, Clear(a),
         arg < Len(img.types), img.types[arg + 1] = MemberOf(op)
  PROVE  Emits(img, op, arg, a, With(a, <<NumberOf(MemberOf(op))>>))
<1> DEFINE m == NumberOf(MemberOf(op))
<1>1. op \in Listed /\ op \in Int /\ op # Op.invoke
  BY ListedNumbers, Families
<1>2. ArgOf(op, arg) = arg
  BY DEF ArgOf, WithOperand
<1>3. m \in Members
  BY MembersOf, IntsTyped
<1>4. After(op, arg, a) = Replace(a, 0, <<m>>)
  BY <1>1, AfterPush
<1>5. Allowed(img, op, arg, a)
  BY AllowPushStatic
<1> HIDE DEF m
<1>6. With(a, <<m>>) \in Shapes /\ Replace(a, 0, <<m>>) = With(a, <<m>>)
  BY <1>3, OneTyped, OnePut
<1>7. Emits(img, op, arg, a, With(a, <<m>>))
  BY <1>1, <1>2, <1>4, <1>5, <1>6, Depths, EmitsIf
<1>8. QED
  BY <1>7 DEF m

LEMMA EmitPopStatic ==
  ASSUME NEW op \in {11, 12}, NEW img, NEW arg \in UInt16, NEW a \in Shapes, Clear(a),
         arg < Len(img.types), img.types[arg + 1] = MemberOf(op),
         NEW x \in Members, x.t = MemberOf(op), x.f < 0
  PROVE  Emits(img, op, arg, With(a, <<x>>), a)
<1>1. op \in Listed /\ op \in Int /\ op # Op.invoke
  BY ListedNumbers, Families
<1>2. ArgOf(op, arg) = arg
  BY DEF ArgOf, WithOperand
<1> DEFINE s == With(a, <<x>>)
<1>3. s \in Shapes /\ TopIs(s, 1, MemberOf(op)) /\ Replace(s, 1, <<>>) = a /\ Clear(s)
  <2>1. s \in Shapes /\ Replace(s, 1, <<>>) = a
    BY OneTyped, OneDropped
  <2>2. TopIs(s, 1, x.t)
    BY OneTop
  <2>3. Clear(s)
    BY OneClear
  <2>4. QED
    BY <2>1, <2>2, <2>3
<1> HIDE DEF s
<1>4. After(op, arg, s) = Replace(s, 1, <<>>)
  BY <1>1, AfterPop
<1>5. Allowed(img, op, arg, s)
  BY <1>3, AllowPopStatic
<1>6. Emits(img, op, arg, s, a)
  BY <1>1, <1>2, <1>3, <1>4, <1>5, Depths, EmitsIf
<1>7. QED
  BY <1>6 DEF s

LEMMA EmitFunction ==
  ASSUME NEW img, NEW n \in UInt16, NEW a \in Shapes, Clear(a)
  PROVE  Emits(img, Op.push_function, n, a, With(a, <<FunctionOf(n)>>))
<1> DEFINE m == FunctionOf(n)
           op == Op.push_function
<1>1. op = 45 /\ op \in Listed /\ op \in Int /\ op # Op.invoke
  BY ListedNumbers, Families
<1>2. ArgOf(op, n) = n
  BY <1>1 DEF ArgOf, WithOperand
<1>3. m \in Members
  BY UInt16Typed DEF FunctionOf, Members
<1>4. After(op, n, a) = Replace(a, 0, <<m>>)
  BY <1>1, AfterFunction
<1>5. Allowed(img, op, n, a)
  BY <1>1, AllowFunction
<1> HIDE DEF m, op
<1>6. With(a, <<m>>) \in Shapes /\ Replace(a, 0, <<m>>) = With(a, <<m>>)
  BY <1>3, OneTyped, OnePut
<1>7. Emits(img, op, n, a, With(a, <<m>>))
  BY <1>1, <1>2, <1>4, <1>5, <1>6, Depths, EmitsIf
<1>8. QED
  BY <1>7 DEF m, op

LEMMA EmitBinary ==
  ASSUME NEW op \in BinaryOpcodes, NEW img, NEW a \in Shapes, Clear(a),
         NEW x \in Members, NEW y \in Members, x.t = OperandType(op), y.t = OperandType(op), x.f < 0, y.f < 0
  PROVE  Emits(img, op, 0, With(a, <<x, y>>), With(a, <<NumberOf(BinaryTo(op))>>))
<1> DEFINE m == NumberOf(BinaryTo(op))
           s == With(a, <<x, y>>)
<1>1. op \in Listed /\ op \in Int /\ op # Op.invoke
  BY ListedNumbers, Families, BinaryApart
<1>2. ArgOf(op, 0) = 0
  BY DEF ArgOf
<1>3. m \in Members
  <2>1. BinaryTo(op) \in {"int", "double"}
    BY OperatorOfType DEF BinaryTo
  <2>2. QED
    BY <2>1, IntsTyped
<1>4. After(op, 0, s) = Replace(s, 2, <<m>>)
  BY <1>1, AfterBinary
<1> HIDE DEF m
<1>5. /\ s \in Shapes /\ TopIs(s, 1, OperandType(op)) /\ TopIs(s, 2, OperandType(op)) /\ Clear(s)
      /\ Replace(s, 2, <<m>>) = With(a, <<m>>) /\ With(a, <<m>>) \in Shapes
  <2>1. s \in Shapes /\ Replace(s, 2, <<m>>) = With(a, <<m>>) /\ With(a, <<m>>) \in Shapes
    BY <1>3, TwoTyped, TwoChanged, OneTyped
  <2>2. TopIs(s, 1, y.t) /\ TopIs(s, 2, x.t)
    BY TwoTop
  <2>3. Clear(s)
    BY TwoClear
  <2>4. QED
    BY <2>1, <2>2, <2>3
<1> HIDE DEF s
<1>6. Allowed(img, op, 0, s)
  BY <1>1, <1>5, AllowBinary
<1>7. Emits(img, op, 0, s, With(a, <<m>>))
  BY <1>1, <1>2, <1>4, <1>5, <1>6, Depths, EmitsIf
<1>8. QED
  BY <1>7 DEF m, s

LEMMA EmitLogical ==
  ASSUME NEW op \in {41, 42}, NEW img, NEW a \in Shapes, Clear(a),
         NEW x \in Members, NEW y \in Members, x.t = "int", y.t = "int", x.f < 0, y.f < 0
  PROVE  Emits(img, op, 0, With(a, <<x, y>>), With(a, <<NumberOf("int")>>))
<1> DEFINE m == NumberOf("int")
           s == With(a, <<x, y>>)
<1>1. op \in Listed /\ op \in Int /\ op # Op.invoke
  BY ListedNumbers, Families
<1>2. ArgOf(op, 0) = 0
  BY DEF ArgOf
<1>3. m \in Members
  BY IntsTyped
<1>4. After(op, 0, s) = Replace(s, 2, <<m>>)
  BY <1>1, AfterLogical
<1> HIDE DEF m
<1>5. /\ s \in Shapes /\ TopIs(s, 1, "int") /\ TopIs(s, 2, "int") /\ Clear(s)
      /\ Replace(s, 2, <<m>>) = With(a, <<m>>) /\ With(a, <<m>>) \in Shapes
  <2>1. s \in Shapes /\ Replace(s, 2, <<m>>) = With(a, <<m>>) /\ With(a, <<m>>) \in Shapes
    BY <1>3, TwoTyped, TwoChanged, OneTyped
  <2>2. TopIs(s, 1, y.t) /\ TopIs(s, 2, x.t)
    BY TwoTop
  <2>3. Clear(s)
    BY TwoClear
  <2>4. QED
    BY <2>1, <2>2, <2>3
<1> HIDE DEF s
<1>6. Allowed(img, op, 0, s)
  BY <1>5, AllowLogical
<1>7. Emits(img, op, 0, s, With(a, <<m>>))
  BY <1>1, <1>2, <1>4, <1>5, <1>6, Depths, EmitsIf
<1>8. QED
  BY <1>7 DEF m, s

LEMMA EmitUnary ==
  ASSUME NEW op \in {23, 24, 25, 26, 27, 28, 43}, NEW img, NEW a \in Shapes, Clear(a),
         NEW x \in Members, x.t = UnaryFrom(op), x.f < 0
  PROVE  Emits(img, op, 0, With(a, <<x>>), With(a, <<NumberOf(UnaryTo(op))>>))
<1> DEFINE m == NumberOf(UnaryTo(op))
           s == With(a, <<x>>)
<1>1. op \in Listed /\ op \in Int /\ op # Op.invoke
  BY ListedNumbers, Families
<1>2. ArgOf(op, 0) = 0
  BY DEF ArgOf
<1>3. m \in Members
  BY IntsTyped DEF UnaryTo
<1>4. After(op, 0, s) = Replace(s, 1, <<m>>)
  BY <1>1, AfterUnary
<1> HIDE DEF m
<1>5. /\ s \in Shapes /\ TopIs(s, 1, UnaryFrom(op)) /\ Clear(s)
      /\ Replace(s, 1, <<m>>) = With(a, <<m>>) /\ With(a, <<m>>) \in Shapes
  <2>1. s \in Shapes /\ Replace(s, 1, <<m>>) = With(a, <<m>>) /\ With(a, <<m>>) \in Shapes
    BY <1>3, OneTyped, OneChanged
  <2>2. TopIs(s, 1, x.t)
    BY OneTop
  <2>3. Clear(s)
    BY OneClear
  <2>4. QED
    BY <2>1, <2>2, <2>3
<1> HIDE DEF s
<1>6. Allowed(img, op, 0, s)
  BY <1>5, AllowUnary
<1>7. Emits(img, op, 0, s, With(a, <<m>>))
  BY <1>1, <1>2, <1>4, <1>5, <1>6, Depths, EmitsIf
<1>8. QED
  BY <1>7 DEF m, s

LEMMA EmitPop ==
  ASSUME NEW img, NEW a \in Shapes, Clear(a), NEW x \in Members, x.f < 0
  PROVE  Emits(img, Op.pop, 0, With(a, <<x>>), a)
<1> DEFINE s == With(a, <<x>>)
           op == Op.pop
<1>1. op = 44 /\ op \in Listed /\ op \in Int /\ op # Op.invoke
  BY ListedNumbers, Families
<1>2. ArgOf(op, 0) = 0
  BY DEF ArgOf
<1>3. s \in Shapes /\ Len(s.tags) > 0 /\ Replace(s, 1, <<>>) = a /\ Clear(s)
  <2>1. s \in Shapes /\ Len(s.tags) > 0 /\ Replace(s, 1, <<>>) = a
    BY OneTyped, OneDropped
  <2>2. Clear(s)
    BY OneClear
  <2>3. QED
    BY <2>1, <2>2
<1> HIDE DEF s, op
<1>4. After(op, 0, s) = Replace(s, 1, <<>>)
  BY <1>1, AfterPop
<1>5. Allowed(img, op, 0, s)
  BY <1>1, <1>3, AllowPop
<1>6. Emits(img, op, 0, s, a)
  BY <1>1, <1>2, <1>3, <1>4, <1>5, Depths, EmitsIf
<1>7. QED
  BY <1>6 DEF s, op

LEMMA EmitGoto ==
  ASSUME NEW img, NEW n \in UInt16, NEW a \in Shapes, Clear(a), NEW x \in Members, x.f < 0, x.t = "int"
  PROVE  Emits(img, Op.goto, n, With(a, <<x>>), a)
<1> DEFINE s == With(a, <<x>>)
           op == Op.goto
<1>1. op = 48 /\ op \in Listed /\ op \in Int /\ op # Op.invoke
  BY ListedNumbers, Families
<1>2. ArgOf(op, n) = n
  BY <1>1 DEF ArgOf, WithOperand
<1>3. s \in Shapes /\ TopIs(s, 1, "int") /\ Replace(s, 1, <<>>) = a /\ Clear(s)
  <2>1. s \in Shapes /\ Replace(s, 1, <<>>) = a
    BY OneTyped, OneDropped
  <2>2. TopIs(s, 1, x.t)
    BY OneTop
  <2>3. Clear(s)
    BY OneClear
  <2>4. QED
    BY <2>1, <2>2, <2>3
<1> HIDE DEF s, op
<1>4. After(op, n, s) = Replace(s, 1, <<>>)
  BY <1>1, AfterPop
<1>5. Allowed(img, op, n, s)
  BY <1>1, <1>3, AllowGoto
<1>6. Emits(img, op, n, s, a)
  BY <1>1, <1>2, <1>3, <1>4, <1>5, Depths, EmitsIf
<1>7. QED
  BY <1>6 DEF s, op

LEMMA EmitLabel ==
  ASSUME NEW img, NEW n \in UInt16, NEW a \in Shapes, Clear(a)
  PROVE  Emits(img, Op.label, n, a, a)
<1> DEFINE op == Op.label
<1>1. op = 49 /\ op \in Listed /\ op \in Int /\ op # Op.invoke
  BY ListedNumbers, Families
<1>2. ArgOf(op, n) = n
  BY <1>1 DEF ArgOf, WithOperand
<1> HIDE DEF op
<1>3. After(op, n, a) = a
  BY <1>1, AfterLabel
<1>4. Allowed(img, op, n, a)
  BY <1>1, AllowLabel
<1>5. Emits(img, op, n, a, a)
  BY <1>1, <1>2, <1>3, <1>4, Depths, EmitsIf
<1>6. QED
  BY <1>5 DEF op

LEMMA EmitBlocks ==
  ASSUME NEW img, NEW n \in Nat
  PROVE  /\ Emits(img, Op.push_stack_pointer, 0, Bare(n), Bare(n + 1))
         /\ n > 0 => Emits(img, Op.pop_stack_pointer, 0, Bare(n), Bare(n - 1))
<1>0. \A k \in Nat : Bare(k) \in Shapes /\ Bare(k).blocks = k /\ Bare(k).tags = <<>> /\ Clear(Bare(k))
  BY BareShape
<1> DEFINE a == Bare(n)
<1>1. a \in Shapes /\ a.blocks = n /\ a.tags = <<>> /\ Clear(a)
  BY <1>0
<1> HIDE DEF a
<1>2. Emits(img, Op.push_stack_pointer, 0, a, Bare(n + 1))
  <2> DEFINE op == Op.push_stack_pointer
  <2>1. op = 5 /\ op \in Listed /\ op \in Int /\ op # Op.invoke
    BY ListedNumbers, Families
  <2>2. ArgOf(op, 0) = 0
    BY DEF ArgOf
  <2> HIDE DEF op
  <2>3. After(op, 0, a) = Bare(n + 1) /\ Bare(n + 1) \in Shapes
    BY <1>0, <1>1, <2>1, AfterBegin
  <2>4. Allowed(img, op, 0, a)
    BY <1>1, <2>1, AllowBlock
  <2>5. Emits(img, op, 0, a, Bare(n + 1))
    BY <1>1, <2>1, <2>2, <2>3, <2>4, Depths, EmitsIf
  <2>6. QED
    BY <2>5 DEF op
<1>3. ASSUME n > 0 PROVE Emits(img, Op.pop_stack_pointer, 0, a, Bare(n - 1))
  <2> DEFINE op == Op.pop_stack_pointer
  <2>1. op = 8 /\ op \in Listed /\ op \in Int /\ op # Op.invoke
    BY ListedNumbers, Families
  <2>2. ArgOf(op, 0) = 0
    BY DEF ArgOf
  <2> HIDE DEF op
  <2>3. After(op, 0, a) = Bare(n - 1) /\ Bare(n - 1) \in Shapes
    BY <1>0, <1>1, <1>3, <2>1, AfterEnd
  <2>4. Allowed(img, op, 0, a)
    BY <1>1, <1>3, <2>1, AllowBlock
  <2>5. Emits(img, op, 0, a, Bare(n - 1))
    BY <1>1, <2>1, <2>2, <2>3, <2>4, Depths, EmitsIf
  <2>6. QED
    BY <2>5 DEF op
<1>4. QED
  BY <1>2, <1>3 DEF a

LEMMA ReplacedWith ==
  ASSUME NEW a \in Shapes, NEW r \in Seq(Members), NEW new \in Seq(Members)
  PROVE  Replace(With(a, r), Len(r), new) = With(a, new)
BY ReplaceWith

LEMMA WithSimple ==
  ASSUME NEW a \in Shapes, NEW s \in Seq(Members)
  PROVE  With(a, s) \in Shapes /\ With(a, s).tags = a.tags \o s
BY WithTyped

FewNatives == Len(Natives) <= 65536

LEMMA EmitInvoke ==
  ASSUME NEW p, NEW e \in Nodes, e.kind = "call", TypedNode(p, e), FewNatives, NEW img,
         NEW a \in Shapes, Clear(a)
  PROVE  Emits(img, Op.invoke, 0, With(a, Pushed(e)), With(a, <<Entry(e)>>))
<1>01. PICK r \in Seq(Members) : r = Pushed(e)
  BY ValuesTyped
<1>02. PICK s : s = With(a, r)
  OBVIOUS
<1> DEFINE n == Len(e.kids)
           f == e.kids[n]
           b == With(a, <<NumberOf("int")>>)
<1>1. /\ r \in Seq(Members) /\ Len(r) = n /\ n \in Nat /\ DOMAIN e.kids = 1 .. n
      /\ \A i \in 1 .. n : e.kids[i] \in Nodes /\ r[i] = Entry(e.kids[i])
  BY <1>01, ValuesTyped
<1>2. /\ n > 1 /\ NativeNode(f) /\ n = Len(Natives[f.n + 1].args) + 1
      /\ Tag(e.type) = "int" /\ Tag(e.kids[1].type) = "int"
  BY DEF TypedNode, FunctionIn
<1>3. f \in Nodes /\ f.kind = "function" /\ f.n \in Int /\ f.n + 1 \in 1 .. Len(Natives)
  <2>1. f \in Nodes /\ f.kind = "function" /\ f.n + 1 \in DOMAIN Natives
    BY <1>1, <1>2 DEF NativeNode
  <2>2. f.n \in Int
    BY <2>1, NodesAssumption
  <2>3. DOMAIN Natives = 1 .. Len(Natives)
    BY NativesAssumption
  <2>4. QED
    BY <2>1, <2>2, <2>3
<1>4. f.n \in Nat /\ f.n < 65536 /\ f.n < Len(Natives)
  <2>1. Len(Natives) \in Nat
    BY NativesAssumption
  <2>2. QED
    BY <1>3, <2>1 DEF FewNatives
<1>5. f.n % 65536 = f.n
  BY <1>4
<1>6. r[n] = FunctionOf(f.n)
  BY <1>1, <1>2, <1>3 DEF Entry
<1>7. r[n].t = "int" /\ r[n].f = f.n
  BY <1>6 DEF FunctionOf
<1>8. r[1].t = "int"
  <2>1. e.kids[1] \in Nodes /\ r[1] = Entry(e.kids[1])
    BY <1>1, <1>2
  <2>2. QED
    BY <1>2, <2>1 DEF Entry, Number, NumberOf, FunctionOf
<1> HIDE DEF f, n
<1>9. s.tags = a.tags \o r /\ s \in Shapes /\ Len(s.tags) = Len(a.tags) + n /\ Len(a.tags) \in Nat
  <2>1. With(a, r) \in Shapes /\ With(a, r).tags = a.tags \o r
    BY WithSimple
  <2>2. a.tags \in Seq(Members)
    BY DEF Shapes
  <2>3. Len(a.tags) \in Nat /\ Len(a.tags \o r) = Len(a.tags) + Len(r)
    BY <2>2
  <2>4. QED
    BY <1>02, <1>1, <2>1, <2>3
<1>10. \A k \in 1 .. n : \A t : TopIs(s, k, t) <=> r[n - k + 1].t = t
  <2>1. <<>> \in Seq(Members)
    OBVIOUS
  <2>2. \A k \in 1 .. Len(r) : \A t : TopIs(With(a, r), k, t) <=> r[Len(r) - k + 1].t = t
    BY <2>1, ReplaceWith
  <2>3. QED
    BY <1>02, <1>1, <2>2
<1>11. s.tags[Len(s.tags)] = r[n]
  <2>1. a.tags \in Seq(Members) /\ n \in 1 .. Len(r)
    BY <1>1, <1>2 DEF Shapes
  <2>2. (a.tags \o r)[Len(a.tags) + n] = r[n]
    BY <1>1, <2>1
  <2>3. QED
    BY <1>9, <2>2
<1>12. Callee(s) = f.n
  BY <1>7, <1>11 DEF Callee
<1>13. ArgsOf(s) = Natives[f.n + 1].args
  BY <1>5, <1>12 DEF ArgsOf
<1>14. Len(ArgsOf(s)) + 1 = n /\ Len(ArgsOf(s)) > 0
  <2>a. PICK k \in 1 .. Len(Natives) : k = f.n + 1
    BY <1>3
  <2> DEFINE S == [args : Seq({"int", "double"}), ret : {0, 1}]
  <2>c. Natives \in Seq(S)
    BY NativesAssumption
  <2> HIDE DEF S
  <2>d. Natives[k] \in S
    BY <2>c, ElementOfSeq
  <2>b. Natives[k].args \in Seq({"int", "double"})
    BY <2>d DEF S
  <2>1. Natives[f.n + 1].args \in Seq({"int", "double"})
    BY <2>a, <2>b
  <2>2. Len(Natives[f.n + 1].args) \in Nat
    BY <2>1
  <2>3. QED
    BY <1>1, <1>2, <1>13, <2>2
<1>15. TopIs(s, 1, "int") /\ TopIs(s, n, "int")
  <2>1. 1 \in 1 .. n /\ n \in 1 .. n /\ n - 1 + 1 = n /\ n - n + 1 = 1
    BY <1>1, <1>2
  <2>2. \A k \in 1 .. n : TopIs(s, k, "int") <=> r[n - k + 1].t = "int"
    BY <1>10
  <2>3. TopIs(s, 1, "int") <=> r[n - 1 + 1].t = "int"
    BY <2>1, <2>2
  <2>4. TopIs(s, n, "int") <=> r[n - n + 1].t = "int"
    BY <2>1, <2>2
  <2>5. QED
    BY <1>7, <1>8, <2>1, <2>3, <2>4
<1>16. Callable(s)
  <2>1. Len(s.tags) > 0
    <3>1. n \in Nat /\ n > 1 /\ Len(a.tags) \in Nat /\ Len(s.tags) = Len(a.tags) + n
      BY <1>1, <1>2, <1>9
    <3>2. QED
      BY <3>1
  <2>2. Callee(s) >= 0 /\ Callee(s) % 65536 < Len(Natives)
    BY <1>4, <1>5, <1>12
  <2>3. TopIs(s, Len(ArgsOf(s)) + 1, "int")
    BY <1>14, <1>15
  <2>4. QED
    BY <1>15, <2>1, <2>2, <2>3 DEF Callable
<1>17. Op.invoke = 46 /\ Op.invoke \in Listed /\ Op.invoke \in Int
  BY ListedNumbers, Families
<1>18. Allowed(img, Op.invoke, 0, s) /\ After(Op.invoke, 0, s) = Replace(s, n, <<NumberOf("int")>>)
  BY <1>14, <1>16, <1>17, AllowInvoke, AfterInvoke
<1>19. Replace(s, n, <<NumberOf("int")>>) = b /\ b \in Shapes
  <2>1. NumberOf("int") \in Members
    BY IntsTyped
  <2> DEFINE m == NumberOf("int")
  <2>a. m \in Members
    BY <2>1
  <2> HIDE DEF m
  <2>b. <<m>> \in Seq(Members)
    BY <2>a
  <2>c. PICK new : new = <<m>>
    OBVIOUS
  <2>2. new \in Seq(Members) /\ new = <<NumberOf("int")>>
    BY <2>b, <2>c DEF m
  <2>3. Replace(With(a, r), Len(r), new) = With(a, new)
    BY <2>2, ReplacedWith
  <2>4. With(a, new) \in Shapes
    BY <2>1, <2>2, OneTyped
  <2>5. QED
    BY <1>02, <1>1, <2>2, <2>3, <2>4
<1>20. ArgOf(Op.invoke, 0) = 0
  BY DEF ArgOf
<1>21. Entry(e) = NumberOf("int")
  BY <1>2 DEF Entry, Number
<1> HIDE DEF b
<1>22. Op.invoke \in WithOperand => 0 <= 0 /\ 0 <= UINT16_MAX
  BY <1>17 DEF WithOperand
<1>23. Emits(img, Op.invoke, 0, s, b)
  BY <1>9, <1>14, <1>17, <1>18, <1>19, <1>20, <1>22 DEF Emits
<1>24. QED
  BY <1>01, <1>02, <1>21, <1>23 DEF b

\* A plain instruction more in the buffer.
Good(w) == w.code \in Seq(Byte) /\ Whole(w.code)

LEMMA FittedGen ==
  ASSUME NEW img, NEW w, Good(w), NEW open, NEW ifs, NEW a, Fitted(img, w.code, open, ifs, a),
         NEW op \in Plain, NEW operand, NEW b, Emits(img, op, operand, a, b)
  PROVE  Good(Gen(w, op, operand)) /\ Fitted(img, Gen(w, op, operand).code, open, ifs, b)
<1>1. PICK code : code = w.code
  OBVIOUS
<1>2. code \in Seq(Byte) /\ Whole(code) /\ Fitted(img, code, open, ifs, a)
  BY <1>1 DEF Good
<1>3. op \in Opcodes /\ operand \in Int
  BY ListedOpcodes DEF Emits, Plain
<1>4. Gen(w, op, operand).code = code \o Bytes(op, operand)
  BY <1>1, GenBytes
<1>5. code \o Bytes(op, operand) \in Seq(Byte) /\ Whole(code \o Bytes(op, operand))
  BY <1>2, <1>3, Appended, BoundariesAppend
<1>6. Fitted(img, code \o Bytes(op, operand), open, ifs, b)
  BY <1>2, FittedEmit
<1>7. QED
  BY <1>4, <1>5, <1>6 DEF Good

-----------------------------------------------------------------------------
(* The opcodes that handlers choose, and the types they stand for.           *)

LEMMA StaticOps ==
  ASSUME NEW type
  PROVE  /\ PushStaticOp(type) \in {9, 10} /\ MemberOf(PushStaticOp(type)) = Tag(type)
         /\ PopStaticOp(type) \in {11, 12} /\ MemberOf(PopStaticOp(type)) = Tag(type)
         /\ PushStaticOp(type) \in Plain /\ PopStaticOp(type) \in Plain
<1>1. PushStaticOp(type) \in Plain /\ PopStaticOp(type) \in Plain
  BY OpcodesPlain
<1>2. CASE type = "double"
  BY <1>1, <1>2, OpcodeNumbers, MembersOf DEF PushStaticOp, PopStaticOp, Tag
<1>3. CASE type # "double"
  BY <1>1, <1>3, OpcodeNumbers, MembersOf DEF PushStaticOp, PopStaticOp, Tag
<1>4. QED
  BY <1>2, <1>3

LEMMA PlainNumbers ==
  /\ Plain = Listed \ {48, 49}
  /\ \A op \in BinaryOpcodes : op \in Plain
<1>1. Plain = Listed \ {48, 49}
  BY Families DEF Plain
<1>2. QED
  BY <1>1, ListedNumbers, BinaryApart

LEMMA BinaryChoice ==
  ASSUME NEW k \in DOMAIN BinaryOps, NEW t \in DOMAIN BinaryOps[k]
  PROVE  /\ BinaryOps[k][t] \in BinaryOpcodes /\ OperandType(BinaryOps[k][t]) = Tag(t)
         /\ OperatorOf(BinaryOps[k][t]) = k
<1> DEFINE op == BinaryOps[k][t]
<1>1. k \in {"add", "sub", "mul", "div", "mod", "gt", "ge", "lt", "le", "eq", "ne"}
  BY DEF BinaryOps
<1>2. DOMAIN BinaryOps[k] \subseteq {"int", "double", "boolean"}
  BY <1>1 DEF BinaryOps
<1>3. \/ k = "add" /\ op = IF t = "double" THEN 14 ELSE 13
      \/ k = "sub" /\ op = IF t = "double" THEN 16 ELSE 15
      \/ k = "mul" /\ op = IF t = "double" THEN 18 ELSE 17
      \/ k = "div" /\ op = IF t = "double" THEN 20 ELSE 19
      \/ k = "mod" /\ op = IF t = "double" THEN 22 ELSE 21
      \/ k = "eq" /\ op = IF t = "double" THEN 30 ELSE 29
      \/ k = "ne" /\ op = IF t = "double" THEN 32 ELSE 31
      \/ k = "gt" /\ op = IF t = "double" THEN 34 ELSE 33
      \/ k = "ge" /\ op = IF t = "double" THEN 36 ELSE 35
      \/ k = "lt" /\ op = IF t = "double" THEN 38 ELSE 37
      \/ k = "le" /\ op = IF t = "double" THEN 40 ELSE 39
  <2>1. CASE k = "add"
    <3>1. Op.add_int = 13 /\ Op.add_double = 14
      BY DEF Op
    <3>2. QED
      BY <1>2, <2>1, <3>1 DEF BinaryOps
  <2>2. CASE k = "sub"
    <3>1. Op.sub_int = 15 /\ Op.sub_double = 16
      BY DEF Op
    <3>2. QED
      BY <1>2, <2>2, <3>1 DEF BinaryOps
  <2>3. CASE k = "mul"
    <3>1. Op.mul_int = 17 /\ Op.mul_double = 18
      BY DEF Op
    <3>2. QED
      BY <1>2, <2>3, <3>1 DEF BinaryOps
  <2>4. CASE k = "div"
    <3>1. Op.div_int = 19 /\ Op.div_double = 20
      BY DEF Op
    <3>2. QED
      BY <1>2, <2>4, <3>1 DEF BinaryOps
  <2>5. CASE k = "mod"
    <3>1. Op.mod_int = 21 /\ Op.mod_double = 22
      BY DEF Op
    <3>2. QED
      BY <1>2, <2>5, <3>1 DEF BinaryOps
  <2>6. CASE k = "eq"
    <3>1. Op.eq_int = 29 /\ Op.eq_double = 30
      BY DEF Op
    <3>2. QED
      BY <1>2, <2>6, <3>1 DEF BinaryOps
  <2>7. CASE k = "ne"
    <3>1. Op.ne_int = 31 /\ Op.ne_double = 32
      BY DEF Op
    <3>2. QED
      BY <1>2, <2>7, <3>1 DEF BinaryOps
  <2>8. CASE k = "gt"
    <3>1. Op.gt_int = 33 /\ Op.gt_double = 34
      BY DEF Op
    <3>2. QED
      BY <1>2, <2>8, <3>1 DEF BinaryOps
  <2>9. CASE k = "ge"
    <3>1. Op.ge_int = 35 /\ Op.ge_double = 36
      BY DEF Op
    <3>2. QED
      BY <1>2, <2>9, <3>1 DEF BinaryOps
  <2>10. CASE k = "lt"
    <3>1. Op.lt_int = 37 /\ Op.lt_double = 38
      BY DEF Op
    <3>2. QED
      BY <1>2, <2>10, <3>1 DEF BinaryOps
  <2>11. CASE k = "le"
    <3>1. Op.le_int = 39 /\ Op.le_double = 40
      BY DEF Op
    <3>2. QED
      BY <1>2, <2>11, <3>1 DEF BinaryOps
  <2>12. QED
    BY <1>1, <2>1, <2>2, <2>3, <2>4, <2>5, <2>6, <2>7, <2>8, <2>9, <2>10, <2>11
<1> HIDE DEF op
<1>4. op \in BinaryOpcodes
  BY <1>3 DEF BinaryOpcodes
<1>5. OperandType(op) = IF t = "double" THEN "double" ELSE "int"
  <2>1. op % 2 = IF t = "double" THEN 0 ELSE 1
    BY <1>3
  <2>2. QED
    BY <2>1 DEF OperandType
<1>6. OperatorOf(op) = k
  <2>1. CASE op <= 22
    <3>1. \/ k = "add" /\ (op - 13) \div 2 + 1 = 1
          \/ k = "sub" /\ (op - 13) \div 2 + 1 = 2
          \/ k = "mul" /\ (op - 13) \div 2 + 1 = 3
          \/ k = "div" /\ (op - 13) \div 2 + 1 = 4
          \/ k = "mod" /\ (op - 13) \div 2 + 1 = 5
      BY <1>3, <2>1
    <3> DEFINE i == (op - 13) \div 2 + 1
    <3>2. OperatorOf(op) = <<"add", "sub", "mul", "div", "mod">>[i]
      BY <2>1 DEF OperatorOf
    <3> HIDE DEF i
    <3>3. QED
      BY <3>1, <3>2 DEF i
  <2>2. CASE ~(op <= 22)
    <3>1. \/ k = "eq" /\ (op - 29) \div 2 + 1 = 1
          \/ k = "ne" /\ (op - 29) \div 2 + 1 = 2
          \/ k = "gt" /\ (op - 29) \div 2 + 1 = 3
          \/ k = "ge" /\ (op - 29) \div 2 + 1 = 4
          \/ k = "lt" /\ (op - 29) \div 2 + 1 = 5
          \/ k = "le" /\ (op - 29) \div 2 + 1 = 6
      BY <1>3, <2>2
    <3> DEFINE i == (op - 29) \div 2 + 1
    <3>2. OperatorOf(op) = <<"eq", "ne", "gt", "ge", "lt", "le">>[i]
      BY <2>2 DEF OperatorOf
    <3> HIDE DEF i
    <3>3. QED
      BY <3>1, <3>2 DEF i
  <2>3. QED
    BY <2>1, <2>2
<1>7. QED
  BY <1>4, <1>5, <1>6 DEF op, Tag

-----------------------------------------------------------------------------
(* The code that each handler generates, laid as its stages have it.         *)

Keeps(img, w, open, ifs, a) == Good(w) /\ Fitted(img, w.code, open, ifs, a)

LEMMA HoldsGen ==
  ASSUME NEW img, NEW w, NEW open, NEW ifs, NEW a, Keeps(img, w, open, ifs, a),
         NEW op \in Plain, NEW operand, NEW b, Emits(img, op, operand, a, b)
  PROVE  Keeps(img, Gen(w, op, operand), open, ifs, b)
<1>1. Good(w) /\ Fitted(img, w.code, open, ifs, a)
  BY DEF Keeps
<1>2. Good(Gen(w, op, operand)) /\ Fitted(img, Gen(w, op, operand).code, open, ifs, b)
  BY <1>1, FittedGen
<1>3. QED
  BY <1>2 DEF Keeps

\* The values of one child, or two.
LEMMA ValuesNone ==
  ASSUME NEW e \in Nodes, e.kids = <<>>, NEW a \in Shapes
  PROVE  With(a, Pushed(e)) = a
<1>1. Pushed(e) \in Seq(Members) /\ Len(Pushed(e)) = 0
  BY ValuesTyped
<1>2. Pushed(e) = <<>>
  BY <1>1
<1>3. QED
  BY <1>2, WithNothing

LEMMA ValuesOne ==
  ASSUME NEW e \in Nodes, Len(e.kids) = 1, e.kids[1].kind # "function"
  PROVE  e.kids[1] \in Nodes /\ Pushed(e) = <<Number(e.kids[1])>>
<1>1. /\ Pushed(e) \in Seq(Members) /\ Len(Pushed(e)) = 1 /\ DOMAIN e.kids = 1 .. Len(e.kids)
      /\ \A i \in DOMAIN e.kids : e.kids[i] \in Nodes /\ Pushed(e)[i] = Entry(e.kids[i])
  BY ValuesTyped
<1>2. e.kids[1] \in Nodes /\ Pushed(e)[1] = Entry(e.kids[1])
  BY <1>1
<1>3. Entry(e.kids[1]) = Number(e.kids[1])
  BY <1>2, NumberTyped
<1>4. QED
  BY <1>1, <1>2, <1>3

LEMMA ValuesTwo ==
  ASSUME NEW e \in Nodes, Len(e.kids) = 2, e.kids[1].kind # "function", e.kids[2].kind # "function"
  PROVE  /\ e.kids[1] \in Nodes /\ e.kids[2] \in Nodes
         /\ Pushed(e) = <<Number(e.kids[1]), Number(e.kids[2])>>
<1>1. /\ Pushed(e) \in Seq(Members) /\ Len(Pushed(e)) = 2 /\ DOMAIN e.kids = 1 .. Len(e.kids)
      /\ \A i \in DOMAIN e.kids : e.kids[i] \in Nodes /\ Pushed(e)[i] = Entry(e.kids[i])
  BY ValuesTyped
<1>2. /\ e.kids[1] \in Nodes /\ Pushed(e)[1] = Entry(e.kids[1])
      /\ e.kids[2] \in Nodes /\ Pushed(e)[2] = Entry(e.kids[2])
  BY <1>1
<1>3. Entry(e.kids[1]) = Number(e.kids[1]) /\ Entry(e.kids[2]) = Number(e.kids[2])
  BY <1>2, NumberTyped
<1>4. QED
  BY <1>1, <1>2, <1>3

\* Which of the ways to leave a node its kind allows.
LEMMA OperatesKind ==
  ASSUME NEW p, NEW e, NEW s, NEW t, Operates(p, e, s, t)
  PROVE  /\ e.kind \in OperatorKinds \cup {"call", "function"}
         /\ e.kind = "function" => NativeNode(e)
         /\ e.kind # "function" => TypedNode(p, e)
         /\ s.modes.vi = "VISIT_NORMAL" \/ e.kind \in UnaryKinds
BY KindsApart DEF Operates, NativeNode

LEMMA RaisesKind ==
  ASSUME NEW e, NEW u, NEW v, Raises(e, u, v)
  PROVE  e.kind \in StatementKinds
BY DEF Raises, StatementKinds

LEMMA ConcludesKind ==
  ASSUME NEW g, NEW p, NEW e, NEW s, NEW t, Concludes(g, p, e, s, t)
  PROVE  e.kind \in StatementKinds
<1>1. PICK u, v \in Levels : Raises(e, u, v)
  BY DEF Concludes
<1>2. QED
  BY <1>1, RaisesKind

LEMMA FinishesOperator ==
  ASSUME NEW g, NEW p, NEW e, NEW s, NEW t, Finishes(g, p, e, s, t),
         e.kind \in OperatorKinds \cup {"call", "function"}, e.kind # "ident"
  PROVE  Operates(p, e, s, t)
<1>1. e.kind \notin StatementKinds /\ e.kind \notin AssignKinds
  BY KindsApart
<1>2. ~Concludes(g, p, e, s, t)
  BY <1>1, ConcludesKind
<1>3. QED
  BY <1>1, <1>2 DEF Finishes, Targeted, Variable, Closes

LEMMA FinishesIdent ==
  ASSUME NEW g, NEW p, NEW e, NEW s, NEW t, Finishes(g, p, e, s, t), e.kind = "ident"
  PROVE  (Operates(p, e, s, t) /\ s.modes.vi = "VISIT_NORMAL") \/ (Targeted(p, e, s, t) /\ s.modes.vi # "VISIT_NORMAL")
<1>1. e.kind \in OperatorKinds /\ e.kind \notin UnaryKinds
  BY DEF OperatorKinds, UnaryKinds, Leaves1
<1>2. e.kind \notin StatementKinds /\ e.kind \notin AssignKinds
  BY <1>1, KindsApart
<1>3. ~Concludes(g, p, e, s, t)
  BY <1>2, ConcludesKind
<1>4. Operates(p, e, s, t) => s.modes.vi = "VISIT_NORMAL"
  BY <1>1, OperatesKind
<1>5. Targeted(p, e, s, t) => s.modes.vi # "VISIT_NORMAL"
  BY DEF Targeted
<1>6. QED
  BY <1>2, <1>3, <1>4, <1>5 DEF Finishes, Closes

LEMMA FinishesAssign ==
  ASSUME NEW g, NEW p, NEW e, NEW s, NEW t, Finishes(g, p, e, s, t), e.kind \in AssignKinds
  PROVE  Closes(e, s, t)
<1>1. e.kind \notin StatementKinds /\ e.kind \notin OperatorKinds \cup {"call", "function"}
  BY KindsApart
<1>2. ~Concludes(g, p, e, s, t) /\ ~Operates(p, e, s, t)
  BY <1>1, ConcludesKind, OperatesKind
<1>3. e.kind # "ident"
  BY <1>1 DEF OperatorKinds, Leaves1
<1>4. QED
  BY <1>2, <1>3 DEF Finishes, Targeted, Variable

LEMMA FinishesStatement ==
  ASSUME NEW g, NEW p, NEW e, NEW s, NEW t, Finishes(g, p, e, s, t), e.kind \in StatementKinds
  PROVE  Concludes(g, p, e, s, t)
<1>1. e.kind \notin AssignKinds /\ e.kind \notin OperatorKinds \cup {"call", "function"}
  BY KindsApart
<1>2. ~Closes(e, s, t) /\ ~Operates(p, e, s, t)
  BY <1>1, OperatesKind DEF Closes
<1>3. e.kind # "ident"
  BY <1>1 DEF OperatorKinds, Leaves1
<1>4. QED
  BY <1>2, <1>3 DEF Finishes, Targeted, Variable

-----------------------------------------------------------------------------
(* The handlers of expressions: what an operator takes from the stack is     *)
(* what its children left there.                                             *)

TypesOf(p) == [i \in DOMAIN p.decls |-> Tag(p.decls[i].type)]
Addressed(p) == \A n \in Nat : n < Len(p.decls) => n \in UInt16

\* A variable's number is that of a declaration of its type.
LEMMA VariableNumber ==
  ASSUME NEW p \in Programs, Addressed(p), NEW e \in Nodes, Variable(p, e), NEW pool
  PROVE  /\ e.n \in UInt16 /\ e.n < Len(Parts(pool, TypesOf(p)).types)
         /\ Parts(pool, TypesOf(p)).types[e.n + 1] = Tag(e.type)
<1>1. p.decls \in Seq([name : STRING, type : Types]) /\ e.n \in Int
  BY NodesAssumption
<1>2. e.n + 1 \in DOMAIN p.decls /\ DOMAIN p.decls = 1 .. Len(p.decls) /\ Len(p.decls) \in Nat
  BY <1>1 DEF Variable
<1>3. e.n \in Nat /\ e.n < Len(p.decls)
  BY <1>1, <1>2
<1>4. Parts(pool, TypesOf(p)).types = TypesOf(p) /\ Len(TypesOf(p)) = Len(p.decls)
  BY <1>2 DEF Parts, TypesOf
<1>5. TypesOf(p)[e.n + 1] = Tag(e.type)
  BY <1>2 DEF TypesOf, Variable
<1>6. QED
  BY <1>3, <1>4, <1>5 DEF Addressed

LEMMA PushVariable ==
  ASSUME NEW p \in Programs, Addressed(p), NEW e \in Nodes, Variable(p, e), NEW pool,
         NEW a \in Shapes, Clear(a)
  PROVE  Emits(Parts(pool, TypesOf(p)), PushStaticOp(e.type), e.n, a, With(a, <<Number(e)>>))
<1> DEFINE img == Parts(pool, TypesOf(p))
           op == PushStaticOp(e.type)
<1>1. op \in {9, 10} /\ MemberOf(op) = Tag(e.type)
  BY StaticOps
<1>2. e.n \in UInt16 /\ e.n < Len(img.types) /\ img.types[e.n + 1] = Tag(e.type)
  BY VariableNumber
<1> HIDE DEF img, op
<1>3. Emits(img, op, e.n, a, With(a, <<NumberOf(MemberOf(op))>>))
  BY <1>1, <1>2, EmitPushStatic
<1>4. QED
  BY <1>1, <1>3 DEF img, op, Number

LEMMA PopVariable ==
  ASSUME NEW p \in Programs, Addressed(p), NEW e \in Nodes, Variable(p, e), NEW pool,
         NEW a \in Shapes, Clear(a)
  PROVE  Emits(Parts(pool, TypesOf(p)), PopStaticOp(e.type), e.n, With(a, <<Number(e)>>), a)
<1> DEFINE img == Parts(pool, TypesOf(p))
           op == PopStaticOp(e.type)
<1>1. op \in {11, 12} /\ MemberOf(op) = Tag(e.type)
  BY StaticOps
<1>2. e.n \in UInt16 /\ e.n < Len(img.types) /\ img.types[e.n + 1] = Tag(e.type)
  BY VariableNumber
<1>3. Number(e) \in Members /\ Number(e).t = Tag(e.type) /\ Number(e).f < 0
  BY NumberTyped
<1> HIDE DEF img, op
<1>4. Emits(img, op, e.n, With(a, <<Number(e)>>), a)
  BY <1>1, <1>2, <1>3, EmitPopStatic
<1>5. QED
  BY <1>4 DEF img, op

LEMMA HoldIdent ==
  ASSUME NEW p \in Programs, Addressed(p), NEW e \in Nodes, e.kind = "ident",
         NEW s \in Stages, NEW t \in Stages, Operates(p, e, s, t), NEW pool, NEW w, NEW open, NEW ifs,
         Keeps(Parts(pool, TypesOf(p)), w, open, ifs, s.shape)
  PROVE  Keeps(Parts(pool, TypesOf(p)), Gen(w, PushStaticOp(e.type), e.n), open, ifs, t.shape)
<1>1. Variable(p, e) /\ e.kids = <<>>
  BY OperatesKind DEF TypedNode, Variable
<1>2. PICK a \in Shapes : Clear(a) /\ s.shape = With(a, Pushed(e)) /\ t.shape = With(a, <<Entry(e)>>)
  BY DEF Operates
<1>3. s.shape = a /\ Entry(e) = Number(e)
  BY <1>1, <1>2, ValuesNone, NumberTyped
<1>4. Emits(Parts(pool, TypesOf(p)), PushStaticOp(e.type), e.n, a, With(a, <<Number(e)>>))
  BY <1>1, <1>2, PushVariable
<1>5. PushStaticOp(e.type) \in Plain
  BY StaticOps
<1>6. QED
  BY <1>2, <1>3, <1>4, <1>5, HoldsGen

LEMMA HoldFunction ==
  ASSUME NEW p \in Programs, NEW e \in Nodes, e.kind = "function", NEW s \in Stages, NEW t \in Stages,
         Operates(p, e, s, t), e.n \in UInt16, NEW img, NEW w, NEW open, NEW ifs,
         Keeps(img, w, open, ifs, s.shape)
  PROVE  Keeps(img, Gen(w, Op.push_function, e.n), open, ifs, t.shape)
<1>1. e.kids = <<>>
  BY OperatesKind DEF NativeNode
<1>2. PICK a \in Shapes : Clear(a) /\ s.shape = With(a, Pushed(e)) /\ t.shape = With(a, <<Entry(e)>>)
  BY DEF Operates
<1>3. s.shape = a /\ Entry(e) = FunctionOf(e.n)
  BY <1>1, <1>2, ValuesNone, NumberTyped
<1>4. Emits(img, Op.push_function, e.n, a, With(a, <<FunctionOf(e.n)>>))
  BY <1>2, EmitFunction
<1>5. Op.push_function \in Plain
  BY OpcodesPlain
<1>6. QED
  BY <1>2, <1>3, <1>4, <1>5, HoldsGen

LEMMA HoldTarget ==
  ASSUME NEW p \in Programs, Addressed(p), NEW e \in Nodes,
         NEW s \in Stages, NEW t \in Stages, Targeted(p, e, s, t), NEW pool, NEW w, NEW open, NEW ifs,
         Keeps(Parts(pool, TypesOf(p)), w, open, ifs, s.shape)
  PROVE  LET popped == Gen(w, PopStaticOp(e.type), e.n) IN
         Keeps(Parts(pool, TypesOf(p)),
               IF Wanted(s.modes) THEN Gen(popped, PushStaticOp(e.type), e.n) ELSE popped, open, ifs, t.shape)
<1> DEFINE popped == Gen(w, PopStaticOp(e.type), e.n)
           pushed == Gen(popped, PushStaticOp(e.type), e.n)
           img == Parts(pool, TypesOf(p))
<1>1. Variable(p, e)
  BY DEF Targeted
<1>2. PICK a \in Shapes : Clear(a) /\ s.shape = With(a, <<Number(e)>>)
                          /\ t.shape = IF Wanted(s.modes) THEN s.shape ELSE a
  BY DEF Targeted
<1>3. PushStaticOp(e.type) \in Plain /\ PopStaticOp(e.type) \in Plain
  BY StaticOps
<1>4. Emits(img, PopStaticOp(e.type), e.n, With(a, <<Number(e)>>), a)
  BY <1>1, <1>2, PopVariable
<1>5. Emits(img, PushStaticOp(e.type), e.n, a, With(a, <<Number(e)>>))
  BY <1>1, <1>2, PushVariable
<1> HIDE DEF img
<1>6. Keeps(img, w, open, ifs, With(a, <<Number(e)>>))
  BY <1>2 DEF img
<1>7. Keeps(img, popped, open, ifs, a)
  BY <1>3, <1>4, <1>6, HoldsGen
<1> HIDE DEF popped
<1>8. Keeps(img, pushed, open, ifs, With(a, <<Number(e)>>))
  BY <1>3, <1>5, <1>7, HoldsGen
<1>9. Keeps(img, IF Wanted(s.modes) THEN pushed ELSE popped, open, ifs, t.shape)
  BY <1>2, <1>7, <1>8
<1>10. QED
  BY <1>9 DEF popped, img

\* The operands of the binary operators.
TakesTwo(e, s, t, x, y, a, v, u) ==
  /\ Clear(a) /\ s.shape = With(a, <<v, u>>) /\ t.shape = With(a, <<Entry(e)>>)
  /\ v.t = x /\ u.t = y /\ v.f < 0 /\ u.f < 0
TakesOne(e, s, t, x, a, v) ==
  /\ Clear(a) /\ s.shape = With(a, <<v>>) /\ t.shape = With(a, <<Entry(e)>>)
  /\ v.t = x /\ v.f < 0 /\ v = Number(e.kids[1]) /\ e.kids[1] \in Nodes

LEMMA TwoKids ==
  ASSUME NEW p, NEW e \in Nodes, NEW s, NEW t, Operates(p, e, s, t), e.kind # "call", NEW x, NEW y,
         KidTags(e, <<x, y>>)
  PROVE  \E a \in Shapes, v \in Members, u \in Members : TakesTwo(e, s, t, x, y, a, v, u)
<1>1. Len(e.kids) = 2 /\ Tag(e.kids[1].type) = x /\ Tag(e.kids[2].type) = y
  <2>1. PICK tags : tags = <<x, y>>
    OBVIOUS
  <2>2. Len(tags) = 2 /\ 1 \in DOMAIN tags /\ 2 \in DOMAIN tags /\ tags[1] = x /\ tags[2] = y
    BY <2>1
  <2>3. KidTags(e, tags)
    BY <2>1
  <2>4. QED
    BY <2>2, <2>3 DEF KidTags
<1>2. DOMAIN e.kids = 1 .. 2
  BY <1>1, ValuesTyped
<1>3. e.kids[1].kind # "function" /\ e.kids[2].kind # "function"
  <2>1. \A i \in DOMAIN e.kids : e.kids[i].kind # "function"
    BY DEF Operates
  <2>2. QED
    BY <1>2, <2>1
<1>4. /\ e.kids[1] \in Nodes /\ e.kids[2] \in Nodes
      /\ Pushed(e) = <<Number(e.kids[1]), Number(e.kids[2])>>
  BY <1>1, <1>3, ValuesTwo
<1>5. PICK a \in Shapes : Clear(a) /\ s.shape = With(a, Pushed(e)) /\ t.shape = With(a, <<Entry(e)>>)
  BY DEF Operates
<1>6. /\ Number(e.kids[1]) \in Members /\ Number(e.kids[1]).t = x /\ Number(e.kids[1]).f < 0
      /\ Number(e.kids[2]) \in Members /\ Number(e.kids[2]).t = y /\ Number(e.kids[2]).f < 0
  BY <1>1, <1>4, NumberTyped
<1>7. TakesTwo(e, s, t, x, y, a, Number(e.kids[1]), Number(e.kids[2]))
  BY <1>4, <1>5, <1>6 DEF TakesTwo
<1>8. QED
  BY <1>6, <1>7

LEMMA OneKid ==
  ASSUME NEW p, NEW e \in Nodes, NEW s, NEW t, Operates(p, e, s, t), e.kind # "call", NEW x,
         KidTags(e, <<x>>)
  PROVE  \E a \in Shapes, v \in Members : TakesOne(e, s, t, x, a, v)
<1>1. Len(e.kids) = 1 /\ Tag(e.kids[1].type) = x
  BY ValuesTyped DEF KidTags
<1>2. DOMAIN e.kids = 1 .. 1
  BY <1>1, ValuesTyped
<1>3. e.kids[1].kind # "function"
  <2>1. \A i \in DOMAIN e.kids : e.kids[i].kind # "function"
    BY DEF Operates
  <2>2. QED
    BY <1>2, <2>1
<1>4. e.kids[1] \in Nodes /\ Pushed(e) = <<Number(e.kids[1])>>
  BY <1>1, <1>3, ValuesOne
<1>5. PICK a \in Shapes : Clear(a) /\ s.shape = With(a, Pushed(e)) /\ t.shape = With(a, <<Entry(e)>>)
  BY DEF Operates
<1>6. Number(e.kids[1]) \in Members /\ Number(e.kids[1]).t = x /\ Number(e.kids[1]).f < 0
  BY <1>1, <1>4, NumberTyped
<1>7. TakesOne(e, s, t, x, a, Number(e.kids[1]))
  BY <1>4, <1>5, <1>6 DEF TakesOne
<1>8. QED
  BY <1>6, <1>7

LEMMA BinaryNode ==
  ASSUME NEW p, NEW e \in Nodes, e.kind \in DOMAIN BinaryOps, TypedNode(p, e),
         NEW type, type = e.kids[1].type
  PROVE  /\ e.kind \in ArithOps => Tag(type) = Tag(e.type)
         /\ e.kind \notin ArithOps => e.kind \in CompareOps /\ Tag(e.type) = "int"
         /\ KidTags(e, <<Tag(type), Tag(type)>>)
<1>1. e.kind \in ArithOps \/ e.kind \in CompareOps
  BY DEF BinaryOps, ArithOps, CompareOps
<1>2. CASE e.kind \in ArithOps
  <2>1. KidTags(e, <<Tag(e.type), Tag(e.type)>>)
    BY <1>2 DEF TypedNode
  <2>2. Tag(e.kids[1].type) = Tag(e.type)
    <3>1. /\ Len(e.kids) = Len(<<Tag(e.type), Tag(e.type)>>)
          /\ \A i \in DOMAIN <<Tag(e.type), Tag(e.type)>> :
               Tag(e.kids[i].type) = <<Tag(e.type), Tag(e.type)>>[i]
      BY <2>1 DEF KidTags
    <3>2. 1 \in DOMAIN <<Tag(e.type), Tag(e.type)>> /\ <<Tag(e.type), Tag(e.type)>>[1] = Tag(e.type)
      OBVIOUS
    <3>3. QED
      BY <3>1, <3>2
  <2>3. QED
    BY <1>2, <2>1, <2>2
<1>3. CASE e.kind \in CompareOps /\ e.kind \notin ArithOps
  BY <1>3 DEF TypedNode
<1>4. QED
  BY <1>1, <1>2, <1>3

LEMMA HoldBinary ==
  ASSUME NEW p \in Programs, NEW e \in Nodes, e.kind \in DOMAIN BinaryOps,
         NEW s \in Stages, NEW t \in Stages, Operates(p, e, s, t), NEW img, NEW w, NEW open, NEW ifs,
         Keeps(img, w, open, ifs, s.shape), NEW type, type = e.kids[1].type, type \in DOMAIN BinaryOps[e.kind]
  PROVE  Keeps(img, Gen(w, BinaryOps[e.kind][type], 0), open, ifs, t.shape)
<1> DEFINE op == BinaryOps[e.kind][type]
<1>1. op \in BinaryOpcodes /\ OperandType(op) = Tag(type) /\ OperatorOf(op) = e.kind
  BY BinaryChoice
<1>2. e.kind \in OperatorKinds /\ e.kind # "call" /\ e.kind # "function"
  BY KindsApart DEF OperatorKinds
<1>3. TypedNode(p, e)
  BY <1>2, OperatesKind
<1>4. /\ e.kind \in ArithOps => Tag(type) = Tag(e.type)
      /\ e.kind \notin ArithOps => e.kind \in CompareOps /\ Tag(e.type) = "int"
      /\ KidTags(e, <<Tag(type), Tag(type)>>)
  BY <1>3, BinaryNode
<1>5. PICK a \in Shapes, v \in Members, u \in Members :
           /\ Clear(a) /\ s.shape = With(a, <<v, u>>) /\ t.shape = With(a, <<Entry(e)>>)
           /\ v.t = Tag(type) /\ u.t = Tag(type) /\ v.f < 0 /\ u.f < 0
  <2>1. \E a \in Shapes, v \in Members, u \in Members : TakesTwo(e, s, t, Tag(type), Tag(type), a, v, u)
    BY <1>2, <1>4, TwoKids
  <2>2. QED
    BY <2>1 DEF TakesTwo
<1>6. op \in Plain
  BY <1>1, PlainNumbers
<1>7. BinaryTo(op) = Tag(e.type)
  <2>1. ArithOps \cap CompareOps = {}
    BY DEF ArithOps, CompareOps
  <2>2. QED
    BY <1>1, <1>4, <2>1 DEF BinaryTo
<1>8. Entry(e) = NumberOf(BinaryTo(op))
  BY <1>2, <1>7 DEF Entry, Number
<1> HIDE DEF op
<1>9. Emits(img, op, 0, With(a, <<v, u>>), With(a, <<NumberOf(BinaryTo(op))>>))
  BY <1>1, <1>5, EmitBinary
<1>10. Keeps(img, Gen(w, op, 0), open, ifs, t.shape)
  BY <1>5, <1>6, <1>8, <1>9, HoldsGen
<1>11. QED
  BY <1>10 DEF op

LEMMA HoldLogical ==
  ASSUME NEW p \in Programs, NEW e \in Nodes, e.kind \in {"land", "lor"},
         NEW s \in Stages, NEW t \in Stages, Operates(p, e, s, t), NEW img, NEW w, NEW open, NEW ifs,
         Keeps(img, w, open, ifs, s.shape)
  PROVE  Keeps(img, Gen(w, LogicalOps[e.kind], 0), open, ifs, t.shape)
<1>1. LogicalOps[e.kind] \in {41, 42} /\ LogicalOps[e.kind] \in Plain
  BY OpcodeNumbers, OpcodesPlain DEF LogicalOps, UnaryEmitted
<1>2. TypedNode(p, e)
  BY OperatesKind
<1>3. Tag(e.type) = "int" /\ KidTags(e, <<"int", "int">>)
  BY <1>2 DEF TypedNode
<1>4. PICK a \in Shapes, v \in Members, u \in Members :
           /\ Clear(a) /\ s.shape = With(a, <<v, u>>) /\ t.shape = With(a, <<Entry(e)>>)
           /\ v.t = "int" /\ u.t = "int" /\ v.f < 0 /\ u.f < 0
  <2>1. e.kind # "call"
    OBVIOUS
  <2>2. \E a \in Shapes, v \in Members, u \in Members : TakesTwo(e, s, t, "int", "int", a, v, u)
    BY <1>3, <2>1, TwoKids
  <2>3. QED
    BY <2>2 DEF TakesTwo
<1>5. Entry(e) = NumberOf("int")
  BY <1>3 DEF Entry, Number
<1>6. Emits(img, LogicalOps[e.kind], 0, With(a, <<v, u>>), With(a, <<NumberOf("int")>>))
  BY <1>1, <1>4, EmitLogical
<1>7. QED
  BY <1>1, <1>4, <1>5, <1>6, HoldsGen

LEMMA UnaryTypes ==
  /\ UnaryFrom(23) = "int" /\ UnaryTo(23) = "int" /\ UnaryFrom(24) = "double" /\ UnaryTo(24) = "double"
  /\ UnaryFrom(25) = "int" /\ UnaryTo(25) = "int" /\ UnaryFrom(26) = "int" /\ UnaryTo(26) = "int"
  /\ UnaryFrom(27) = "int" /\ UnaryTo(27) = "double" /\ UnaryFrom(28) = "double" /\ UnaryTo(28) = "int"
  /\ UnaryFrom(43) = "int" /\ UnaryTo(43) = "int"
BY OpcodeNumbers DEF UnaryFrom, UnaryTo

LEMMA HoldOne ==
  ASSUME NEW p, NEW e \in Nodes, NEW s, NEW t, Operates(p, e, s, t), e.kind # "call", e.kind # "function",
         NEW op \in {23, 24, 25, 26, 27, 28, 43}, op \in Plain, KidTags(e, <<UnaryFrom(op)>>), Tag(e.type) = UnaryTo(op),
         NEW img, NEW w, NEW open, NEW ifs, Keeps(img, w, open, ifs, s.shape)
  PROVE  Keeps(img, Gen(w, op, 0), open, ifs, t.shape)
<1>1. \E a \in Shapes, v \in Members : TakesOne(e, s, t, UnaryFrom(op), a, v)
  BY OneKid
<1>2. PICK a \in Shapes, v \in Members :
           /\ Clear(a) /\ s.shape = With(a, <<v>>) /\ t.shape = With(a, <<Entry(e)>>)
           /\ v.t = UnaryFrom(op) /\ v.f < 0
  BY <1>1 DEF TakesOne
<1>3. Entry(e) = NumberOf(UnaryTo(op))
  BY DEF Entry, Number
<1>4. Emits(img, op, 0, With(a, <<v>>), With(a, <<NumberOf(UnaryTo(op))>>))
  BY <1>2, EmitUnary
<1>5. QED
  BY <1>2, <1>3, <1>4, HoldsGen

LEMMA HoldUnary ==
  ASSUME NEW p \in Programs, NEW e \in Nodes, e.kind \in {"lognot", "cast_int_to_double", "cast_double_to_int"},
         NEW s \in Stages, NEW t \in Stages, Operates(p, e, s, t), NEW img, NEW w, NEW open, NEW ifs,
         Keeps(img, w, open, ifs, s.shape)
  PROVE  Keeps(img, Gen(w, IF e.kind = "lognot" THEN Op.logical_not ELSE CastOps[e.kind], 0), open, ifs, t.shape)
<1> DEFINE op == IF e.kind = "lognot" THEN Op.logical_not ELSE CastOps[e.kind]
<1>1. /\ e.kind = "lognot" => op = 43
      /\ e.kind = "cast_int_to_double" => op = 27
      /\ e.kind = "cast_double_to_int" => op = 28
  BY OpcodeNumbers DEF CastOps
<1>2. op \in Plain
  BY OpcodesPlain DEF CastOps, UnaryEmitted
<1> HIDE DEF op
<1>3. TypedNode(p, e)
  BY OperatesKind
<1>4. op \in {23, 24, 25, 26, 27, 28, 43}
  BY <1>1
<1>5. KidTags(e, <<UnaryFrom(op)>>) /\ Tag(e.type) = UnaryTo(op)
  <2>1. CASE e.kind = "lognot"
    <3>1. UnaryFrom(op) = "int" /\ UnaryTo(op) = "int"
      BY <1>1, <2>1, UnaryTypes
    <3>2. QED
      BY <1>3, <2>1, <3>1 DEF TypedNode
  <2>2. CASE e.kind = "cast_int_to_double"
    <3>1. UnaryFrom(op) = "int" /\ UnaryTo(op) = "double"
      BY <1>1, <2>2, UnaryTypes
    <3>2. QED
      BY <1>3, <2>2, <3>1 DEF TypedNode
  <2>3. CASE e.kind = "cast_double_to_int"
    <3>1. UnaryFrom(op) = "double" /\ UnaryTo(op) = "int"
      BY <1>1, <2>3, UnaryTypes
    <3>2. QED
      BY <1>3, <2>3, <3>1 DEF TypedNode
  <2>4. QED
    BY <2>1, <2>2, <2>3
<1>6. Keeps(img, Gen(w, op, 0), open, ifs, t.shape)
  BY <1>2, <1>4, <1>5, HoldOne
<1>7. QED
  BY <1>6 DEF op

LEMMA HoldMinus ==
  ASSUME NEW p \in Programs, NEW e \in Nodes, e.kind = "minus", e.type \in DOMAIN MinusOps,
         NEW s \in Stages, NEW t \in Stages, Operates(p, e, s, t), NEW img, NEW w, NEW open, NEW ifs,
         Keeps(img, w, open, ifs, s.shape)
  PROVE  Keeps(img, Gen(w, MinusOps[e.type], 0), open, ifs, t.shape)
<1>1. PICK op : op = MinusOps[e.type]
  OBVIOUS
<1>2. op \in Plain
  BY <1>1, OpcodesPlain DEF MinusOps
<1>3. op = IF e.type = "double" THEN 24 ELSE 23
  BY <1>1, OpcodeNumbers DEF MinusOps
<1>4. UnaryFrom(op) = Tag(e.type) /\ UnaryTo(op) = Tag(e.type) /\ op \in {23, 24, 25, 26, 27, 28, 43}
  BY <1>3, UnaryTypes DEF Tag
<1>5. TypedNode(p, e)
  BY OperatesKind
<1>6. KidTags(e, <<UnaryFrom(op)>>)
  BY <1>4, <1>5 DEF TypedNode
<1>7. Keeps(img, Gen(w, op, 0), open, ifs, t.shape)
  BY <1>2, <1>4, <1>6, HoldOne
<1>8. QED
  BY <1>1, <1>7

\* ++ and --: the variable is bumped on the stack, stored, and pushed again.
LEMMA IntVariable ==
  ASSUME NEW type, Tag(type) = "int"
  PROVE  PushStaticOp(type) = Op.push_static_int /\ PopStaticOp(type) = Op.pop_static_int
BY DEF PushStaticOp, PopStaticOp, Tag

LEMMA HoldIncDec ==
  ASSUME NEW p \in Programs, Addressed(p), NEW e \in Nodes, e.kind \in {"inc", "dec"},
         NEW s \in Stages, NEW t \in Stages, Operates(p, e, s, t), NEW pool, NEW w, NEW open, NEW ifs,
         Keeps(Parts(pool, TypesOf(p)), w, open, ifs, s.shape)
  PROVE  LET bumped == Gen(w, IF e.kind = "inc" THEN Op.increment ELSE Op.decrement, 0)
             stored == Gen(bumped, Op.pop_static_int, e.kids[1].n)
         IN  Keeps(Parts(pool, TypesOf(p)), Gen(stored, Op.push_static_int, e.kids[1].n), open, ifs, t.shape)
<1>1. PICK op : op = IF e.kind = "inc" THEN Op.increment ELSE Op.decrement
  OBVIOUS
<1> DEFINE img == Parts(pool, TypesOf(p))
           x == e.kids[1]
           bumped == Gen(w, op, 0)
           stored == Gen(bumped, Op.pop_static_int, x.n)
           loaded == Gen(stored, Op.push_static_int, x.n)
<1>2. op \in Plain /\ op \in {25, 26}
  BY <1>1, OpcodesPlain, OpcodeNumbers
<1>3. TypedNode(p, e)
  BY OperatesKind
<1>4. Tag(e.type) = "int" /\ KidTags(e, <<"int">>) /\ Variable(p, x)
  BY <1>3 DEF TypedNode
<1>5. \E a \in Shapes, v \in Members : TakesOne(e, s, t, "int", a, v)
  <2>1. e.kind # "call"
    OBVIOUS
  <2>2. QED
    BY <1>4, <2>1, OneKid
<1>6. PICK a \in Shapes, v \in Members :
           /\ Clear(a) /\ s.shape = With(a, <<v>>) /\ t.shape = With(a, <<Entry(e)>>)
           /\ v.t = "int" /\ v.f < 0 /\ v = Number(x) /\ x \in Nodes
  BY <1>5 DEF TakesOne
<1>7. v = NumberOf("int") /\ Entry(e) = NumberOf("int") /\ Tag(x.type) = "int"
  <2>1. Number(x).t = Tag(x.type)
    BY <1>6, NumberTyped
  <2>2. QED
    BY <1>4, <1>6, <2>1 DEF Entry, Number
<1>8. Emits(img, op, 0, With(a, <<v>>), With(a, <<v>>))
  <2>1. UnaryFrom(op) = "int" /\ UnaryTo(op) = "int" /\ op \in {23, 24, 25, 26, 27, 28, 43}
    BY <1>2, UnaryTypes
  <2>2. Emits(img, op, 0, With(a, <<v>>), With(a, <<NumberOf(UnaryTo(op))>>))
    BY <1>6, <2>1, EmitUnary
  <2>3. QED
    BY <1>7, <2>1, <2>2
<1>9. /\ Emits(img, Op.pop_static_int, x.n, With(a, <<v>>), a)
      /\ Emits(img, Op.push_static_int, x.n, a, With(a, <<v>>))
  <2>1. PushStaticOp(x.type) = Op.push_static_int /\ PopStaticOp(x.type) = Op.pop_static_int
    BY <1>7, IntVariable
  <2>2. Emits(img, PopStaticOp(x.type), x.n, With(a, <<Number(x)>>), a)
    BY <1>4, <1>6, PopVariable
  <2>3. Emits(img, PushStaticOp(x.type), x.n, a, With(a, <<Number(x)>>))
    BY <1>4, <1>6, PushVariable
  <2>4. QED
    BY <1>6, <2>1, <2>2, <2>3
<1>10. Op.pop_static_int \in Plain /\ Op.push_static_int \in Plain
  BY OpcodesPlain
<1> HIDE DEF img, x
<1>11. Keeps(img, w, open, ifs, With(a, <<v>>))
  BY <1>6 DEF img
<1>12. Keeps(img, bumped, open, ifs, With(a, <<v>>))
  BY <1>2, <1>8, <1>11, HoldsGen
<1> HIDE DEF bumped
<1>13. Keeps(img, stored, open, ifs, a)
  BY <1>9, <1>10, <1>12, HoldsGen
<1> HIDE DEF stored
<1>14. Keeps(img, loaded, open, ifs, With(a, <<v>>))
  BY <1>9, <1>10, <1>13, HoldsGen
<1>15. Keeps(img, loaded, open, ifs, t.shape)
  BY <1>6, <1>7, <1>14
<1>16. QED
  BY <1>1, <1>15 DEF stored, bumped, img, x

LEMMA HoldCall ==
  ASSUME NEW p \in Programs, FewNatives, NEW e \in Nodes, e.kind = "call",
         NEW s \in Stages, NEW t \in Stages, Operates(p, e, s, t), NEW img, NEW w, NEW open, NEW ifs,
         Keeps(img, w, open, ifs, s.shape)
  PROVE  Keeps(img, Gen(w, Op.invoke, 0), open, ifs, t.shape)
<1>1. TypedNode(p, e)
  BY OperatesKind
<1>2. PICK a \in Shapes : Clear(a) /\ s.shape = With(a, Pushed(e)) /\ t.shape = With(a, <<Entry(e)>>)
  BY DEF Operates
<1>3. Emits(img, Op.invoke, 0, With(a, Pushed(e)), With(a, <<Entry(e)>>))
  BY <1>1, <1>2, EmitInvoke
<1>4. Op.invoke \in Plain
  BY OpcodesPlain
<1>5. QED
  BY <1>2, <1>3, <1>4, HoldsGen

\* A compound assignment: the target is pushed first, and the operator applied.
LEMMA HoldEnter ==
  ASSUME NEW p \in Programs, Addressed(p), NEW e \in Nodes, e.kind \in AssignKinds \ {"assign"}, TypedNode(p, e),
         NEW a \in Shapes, Clear(a), NEW pool, NEW w, NEW open, NEW ifs,
         Keeps(Parts(pool, TypesOf(p)), w, open, ifs, a)
  PROVE  /\ e.kids[1].kind = "ident"
         /\ Keeps(Parts(pool, TypesOf(p)), Gen(w, Op.push_static_int, e.kids[1].n), open, ifs, With(a, Ints(1)))
<1> DEFINE img == Parts(pool, TypesOf(p))
           x == e.kids[1]
<1>1. Variable(p, x) /\ Tag(x.type) = "int" /\ x \in Nodes
  <2>1. Variable(p, x) /\ Tag(e.type) = "int" /\ KidTags(e, <<Tag(e.type), Tag(e.type)>>)
    BY DEF TypedNode
  <2>2. PICK tags : tags = <<"int", "int">>
    OBVIOUS
  <2>3. 1 \in DOMAIN tags /\ tags[1] = "int"
    BY <2>2
  <2>4. KidTags(e, tags)
    BY <2>1, <2>2
  <2>5. Tag(x.type) = "int"
    BY <2>3, <2>4 DEF KidTags
  <2>6. Len(e.kids) = 2
    BY NodesAssumption
  <2>7. x \in Nodes
    BY <2>6, ValuesTyped
  <2>8. QED
    BY <2>1, <2>5, <2>7
<1>2. PushStaticOp(x.type) = Op.push_static_int
  BY <1>1, IntVariable
<1>3. Number(x) = NumberOf("int") /\ Ints(1) = <<NumberOf("int")>>
  BY <1>1, IntsTyped DEF Number
<1>4. Emits(img, PushStaticOp(x.type), x.n, a, With(a, <<Number(x)>>))
  BY <1>1, PushVariable
<1>5. Op.push_static_int \in Plain
  BY OpcodesPlain
<1>6. x.kind = "ident"
  BY <1>1 DEF Variable
<1> HIDE DEF img, x
<1>7. Keeps(img, Gen(w, Op.push_static_int, x.n), open, ifs, With(a, Ints(1)))
  <2>1. Emits(img, Op.push_static_int, x.n, a, With(a, Ints(1)))
    BY <1>2, <1>3, <1>4
  <2>2. Keeps(img, w, open, ifs, a)
    BY DEF img
  <2>3. QED
    BY <1>5, <2>1, <2>2, HoldsGen
<1>8. QED
  BY <1>6, <1>7 DEF img, x

LEMMA HoldCompound ==
  ASSUME NEW p, NEW e \in Nodes, e.kind \in AssignKinds \ {"assign"}, NEW s, NEW t, Notifies(p, e, s, t),
         NEW type, type = e.kids[2].type, type \in {"int", "double"},
         NEW img, NEW w, NEW open, NEW ifs, Keeps(img, w, open, ifs, s.shape)
  PROVE  Keeps(img, Gen(w, BinaryOps[CompoundOf[e.kind]][type], 0), open, ifs, t.shape)
<1>1. type = "int"
  <2>1. Tag(e.type) = "int" /\ KidTags(e, <<Tag(e.type), Tag(e.type)>>)
    BY DEF TypedNode, Notifies
  <2>2. PICK tags : tags = <<"int", "int">>
    OBVIOUS
  <2>3. 2 \in DOMAIN tags /\ tags[2] = "int"
    BY <2>2
  <2>4. KidTags(e, tags)
    BY <2>1, <2>2
  <2>5. Tag(type) = "int"
    BY <2>3, <2>4 DEF KidTags
  <2>6. QED
    BY <2>5 DEF Tag
<1>2. PICK k : k = CompoundOf[e.kind]
  OBVIOUS
<1>3. k \in {"add", "sub", "mul", "div", "mod"}
  BY <1>2 DEF AssignKinds, CompoundOf
<1>4. k \in DOMAIN BinaryOps /\ "int" \in DOMAIN BinaryOps[k]
  BY <1>3 DEF BinaryOps
<1> DEFINE op == BinaryOps[k]["int"]
<1>5. op \in BinaryOpcodes /\ OperandType(op) = Tag("int") /\ OperatorOf(op) = k
  BY <1>4, BinaryChoice
<1> HIDE DEF op
<1>6. Tag("int") = "int" /\ k \notin CompareOps
  BY <1>3 DEF Tag, CompareOps
<1>7. BinaryTo(op) = "int" /\ OperandType(op) = "int"
  BY <1>5, <1>6 DEF BinaryTo
<1>8. PICK a \in Shapes : Clear(a) /\ s.shape = With(a, Ints(2)) /\ t.shape = With(a, Ints(1))
  BY DEF Notifies
<1> DEFINE v == NumberOf("int")
<1>9. Ints(1) = <<v>> /\ Ints(2) = <<v, v>> /\ v \in Members
  BY IntsTyped
<1>10. v.t = "int" /\ v.f < 0
  BY DEF NumberOf
<1> HIDE DEF v
<1>11. Emits(img, op, 0, With(a, <<v, v>>), With(a, <<NumberOf(BinaryTo(op))>>))
  BY <1>5, <1>7, <1>8, <1>9, <1>10, EmitBinary
<1>12. Emits(img, op, 0, s.shape, t.shape)
  BY <1>7, <1>8, <1>9, <1>11 DEF v
<1>13. op \in Plain
  BY <1>5, PlainNumbers
<1>14. Keeps(img, Gen(w, op, 0), open, ifs, t.shape)
  BY <1>12, <1>13, HoldsGen
<1>15. QED
  BY <1>1, <1>2, <1>14 DEF op

-----------------------------------------------------------------------------
(* The statements.                                                           *)

\* The levels before and behind a statement that is left.
Between(g, p, e, s, t, u, v) ==
  /\ Raises(e, u, v) /\ WellPut(g, p, e) /\ t = Rest(v) /\ s.ifs = u.ifs
  /\ \/ e.kids = <<>> /\ s = Rest(u)
     \/ e.kids # <<>> /\ s.modes = Resting /\ s.shape = With(Bare(u.blocks), <<Number(e.kids[1])>>)
     \/ /\ e.kind = "exprstmt" /\ s.shape = Bare(u.blocks)
        /\ s.modes.vi = "VISIT_NOMAL_ASSIGN" /\ s.modes.vf = "VISIT_F_NO"

LEMMA ConcludesBetween ==
  ASSUME NEW g, NEW p, NEW e, NEW s, NEW t, Concludes(g, p, e, s, t)
  PROVE  \E u, v \in Levels : Between(g, p, e, s, t, u, v)
BY DEF Concludes, Between

\* The value of the only child of a statement.
LEMMA ChildNumber ==
  ASSUME NEW e \in Nodes, Len(e.kids) = 1
  PROVE  /\ e.kids # <<>> /\ e.kids[1] \in Nodes /\ Number(e.kids[1]) \in Members
         /\ Number(e.kids[1]).t = Tag(e.kids[1].type) /\ Number(e.kids[1]).f < 0
<1>1. e.kids[1] \in Nodes /\ e.kids # <<>>
  BY ValuesTyped
<1>2. QED
  BY <1>1, NumberTyped

LEMMA BareLevel ==
  ASSUME NEW u \in Levels
  PROVE  u.blocks \in Nat /\ Bare(u.blocks) \in Shapes /\ Clear(Bare(u.blocks))
BY LevelTyped, BareShape

LEMMA HoldExprStmt ==
  ASSUME NEW g, NEW p, NEW e \in Nodes, e.kind = "exprstmt", NEW s \in Stages, NEW t \in Stages,
         Concludes(g, p, e, s, t), NEW img, NEW w, NEW open, NEW ifs, Keeps(img, w, open, ifs, s.shape)
  PROVE  /\ t.modes = Resting /\ t.ifs = s.ifs
         /\ s.modes.vi = "VISIT_NORMAL" =>
              s.modes = Resting /\ Keeps(img, Gen(w, Op.pop, 0), open, ifs, t.shape)
         /\ s.modes.vi # "VISIT_NORMAL" => s.modes.vf = "VISIT_F_NO" /\ t.shape = s.shape
<1>1. PICK u, v \in Levels : Between(g, p, e, s, t, u, v)
  BY ConcludesBetween
<1>2. v = u /\ t = Rest(u) /\ s.ifs = u.ifs /\ Len(e.kids) = 1
  BY <1>1 DEF Between, Raises, WellPut
<1>3. t.shape = Bare(u.blocks) /\ t.modes = Resting /\ t.ifs = u.ifs
  BY <1>2, LevelTyped
<1>4. /\ e.kids # <<>> /\ Number(e.kids[1]) \in Members /\ Number(e.kids[1]).f < 0
  BY <1>2, ChildNumber
<1>5. \/ s.modes = Resting /\ s.shape = With(Bare(u.blocks), <<Number(e.kids[1])>>)
      \/ s.shape = Bare(u.blocks) /\ s.modes.vi = "VISIT_NOMAL_ASSIGN" /\ s.modes.vf = "VISIT_F_NO"
  BY <1>1, <1>4 DEF Between
<1>6. Bare(u.blocks) \in Shapes /\ Clear(Bare(u.blocks))
  BY BareLevel
<1>7. ASSUME s.modes = Resting, s.shape = With(Bare(u.blocks), <<Number(e.kids[1])>>)
      PROVE  Keeps(img, Gen(w, Op.pop, 0), open, ifs, t.shape)
  <2>1. Emits(img, Op.pop, 0, With(Bare(u.blocks), <<Number(e.kids[1])>>), Bare(u.blocks))
    BY <1>4, <1>6, EmitPop
  <2>2. Emits(img, Op.pop, 0, s.shape, t.shape)
    BY <1>3, <1>7, <2>1
  <2>3. Op.pop \in Plain
    BY OpcodesPlain
  <2>4. QED
    BY <2>2, <2>3, HoldsGen
<1>8. QED
  BY <1>2, <1>3, <1>5, <1>7, RestingTyped

LEMMA HoldDeclNone ==
  ASSUME NEW g, NEW p, NEW e \in Nodes, e.kind = "declstmt", e.kids = <<>>, NEW s \in Stages, NEW t \in Stages,
         Concludes(g, p, e, s, t)
  PROVE  t = s
<1>1. PICK u, v \in Levels : Between(g, p, e, s, t, u, v)
  BY ConcludesBetween
<1>2. QED
  BY <1>1 DEF Between, Raises

\* The declaration that an initializer is stored to.
StoredTo(p, e, i) ==
  /\ i \in DOMAIN p.decls /\ p.decls[i].name = p.decls[e.n + 1].name
  /\ \A j \in 1 .. i - 1 : p.decls[j].name # p.decls[e.n + 1].name

LEMMA HoldDecl ==
  ASSUME NEW g, NEW p \in Programs, Addressed(p), NEW e \in Nodes, e.kind = "declstmt", e.kids # <<>>,
         NEW s \in Stages, NEW t \in Stages, Concludes(g, p, e, s, t),
         NEW i, StoredTo(p, e, i), NEW pool, NEW w, NEW open, NEW ifs, Keeps(Parts(pool, TypesOf(p)), w, open, ifs, s.shape)
  PROVE  /\ s.modes = Resting /\ t.modes = Resting /\ t.ifs = s.ifs
         /\ Keeps(Parts(pool, TypesOf(p)), Gen(w, PopStaticOp(p.decls[i].type), i - 1), open, ifs, t.shape)
<1> DEFINE img == Parts(pool, TypesOf(p))
<1>1. PICK u, v \in Levels : Between(g, p, e, s, t, u, v)
  BY ConcludesBetween
<1>2. v = u /\ t = Rest(u) /\ s.ifs = u.ifs /\ Len(e.kids) = 1 /\ Initializes(p, e)
  BY <1>1 DEF Between, Raises, WellPut
<1>3. t.shape = Bare(u.blocks) /\ t.modes = Resting /\ t.ifs = u.ifs
  BY <1>2, LevelTyped
<1>4. s.modes = Resting /\ s.shape = With(Bare(u.blocks), <<Number(e.kids[1])>>)
  BY <1>1 DEF Between
<1>5. /\ Number(e.kids[1]) \in Members /\ Number(e.kids[1]).f < 0
      /\ Number(e.kids[1]).t = Tag(e.kids[1].type)
  BY <1>2, ChildNumber
<1>6. Tag(p.decls[i].type) = Tag(e.kids[1].type)
  BY <1>2 DEF Initializes, StoredTo
<1>7. PICK op : op = PopStaticOp(p.decls[i].type)
  OBVIOUS
<1>8. op \in {11, 12} /\ MemberOf(op) = Tag(p.decls[i].type) /\ op \in Plain
  BY <1>7, StaticOps
<1>9. i - 1 \in UInt16 /\ i - 1 < Len(img.types) /\ img.types[i - 1 + 1] = MemberOf(op)
  <2>1. p.decls \in Seq([name : STRING, type : Types])
    BY NodesAssumption
  <2>2. i \in 1 .. Len(p.decls) /\ Len(p.decls) \in Nat /\ i - 1 \in Nat /\ i - 1 < Len(p.decls) /\ i - 1 + 1 = i
        /\ DOMAIN p.decls = 1 .. Len(p.decls)
    BY <2>1 DEF StoredTo
  <2>3. img.types = TypesOf(p) /\ Len(TypesOf(p)) = Len(p.decls) /\ TypesOf(p)[i] = Tag(p.decls[i].type)
    BY <2>2 DEF Parts, TypesOf
  <2>4. QED
    BY <1>8, <2>2, <2>3 DEF Addressed
<1>10. Bare(u.blocks) \in Shapes /\ Clear(Bare(u.blocks))
  BY BareLevel
<1> HIDE DEF img
<1>11. PICK k : k = i - 1
  OBVIOUS
<1>12. Emits(img, op, k, With(Bare(u.blocks), <<Number(e.kids[1])>>), Bare(u.blocks))
  <2>1. k \in UInt16 /\ k < Len(img.types) /\ img.types[k + 1] = MemberOf(op)
    BY <1>9, <1>11
  <2>2. Number(e.kids[1]).t = MemberOf(op)
    BY <1>5, <1>6, <1>8
  <2>3. QED
    BY <1>5, <1>8, <1>10, <2>1, <2>2, EmitPopStatic
<1>13. Keeps(img, Gen(w, op, k), open, ifs, t.shape)
  <2>1. Emits(img, op, k, s.shape, t.shape)
    BY <1>3, <1>4, <1>12
  <2>2. Keeps(img, w, open, ifs, s.shape)
    BY DEF img
  <2>3. QED
    BY <1>8, <2>1, <2>2, HoldsGen
<1>14. QED
  BY <1>2, <1>3, <1>4, <1>7, <1>11, <1>13 DEF img

BlockKind(e) == e.kind \in {"blockbegin", "blockend"}
BlockOpcode(e) == IF e.kind = "blockbegin" THEN Op.push_stack_pointer ELSE Op.pop_stack_pointer

LEMMA HoldBlock ==
  ASSUME NEW g, NEW p, NEW e \in Nodes, BlockKind(e),
         NEW s \in Stages, NEW t \in Stages, Concludes(g, p, e, s, t),
         NEW img, NEW w, NEW open, NEW ifs, Keeps(img, w, open, ifs, s.shape)
  PROVE  /\ s.modes = Resting /\ t.modes = Resting /\ t.ifs = s.ifs
         /\ Keeps(img, Gen(w, BlockOpcode(e), 0), open, ifs, t.shape)
<1>1. PICK u, v \in Levels : Between(g, p, e, s, t, u, v)
  BY ConcludesBetween
<1>2. s = Rest(u) /\ t = Rest(v) /\ v.ifs = u.ifs
      /\ \/ e.kind = "blockbegin" /\ v.blocks = u.blocks + 1
         \/ e.kind = "blockend" /\ u.blocks > 0 /\ v.blocks = u.blocks - 1
  <2>1. e.kids = <<>> /\ s = Rest(u) /\ t = Rest(v)
    BY <1>1 DEF Between, WellPut, BlockKind
  <2>2. v = Level(u.blocks + 1, u.ifs) \/ v = Level(u.blocks - 1, u.ifs) => v.ifs = u.ifs
    BY DEF Level
  <2>3. QED
    BY <1>1, <2>1, <2>2 DEF Between, Raises, Level, BlockKind
<1>3. /\ s.shape = Bare(u.blocks) /\ s.modes = Resting /\ s.ifs = u.ifs /\ u.blocks \in Nat
      /\ t.shape = Bare(v.blocks) /\ t.modes = Resting /\ t.ifs = v.ifs
  BY <1>2, LevelTyped
<1>0. PICK op : op = BlockOpcode(e)
  OBVIOUS
<1>4. op \in Plain
  BY <1>0, OpcodesPlain DEF BlockOpcode
<1>5. Emits(img, op, 0, s.shape, t.shape)
  <2>1. CASE e.kind = "blockbegin"
    <3>1. Emits(img, Op.push_stack_pointer, 0, Bare(u.blocks), Bare(u.blocks + 1))
      BY <1>3, EmitBlocks
    <3>2. QED
      BY <1>0, <1>2, <1>3, <2>1, <3>1 DEF BlockOpcode
  <2>2. CASE e.kind = "blockend"
    <3>1. u.blocks > 0 /\ v.blocks = u.blocks - 1
      BY <1>2, <2>2
    <3>2. Emits(img, Op.pop_stack_pointer, 0, Bare(u.blocks), Bare(u.blocks - 1))
      BY <1>3, <3>1, EmitBlocks
    <3>3. QED
      BY <1>0, <1>3, <2>2, <3>1, <3>2 DEF BlockOpcode
  <2>3. QED
    BY <2>1, <2>2 DEF BlockKind
<1>6. Keeps(img, Gen(w, op, 0), open, ifs, t.shape)
  BY <1>4, <1>5, HoldsGen
<1>7. QED
  BY <1>0, <1>2, <1>3, <1>6

LEMMA GoodGen ==
  ASSUME NEW w, Good(w), NEW op \in Opcodes, NEW operand \in Int
  PROVE  Good(Gen(w, op, operand)) /\ Gen(w, op, operand).code = w.code \o Bytes(op, operand)
<1>1. PICK code : code = w.code
  OBVIOUS
<1>2. code \in Seq(Byte) /\ Whole(code)
  BY <1>1 DEF Good
<1>3. Gen(w, op, operand).code = code \o Bytes(op, operand)
  BY <1>1, GenBytes
<1>4. code \o Bytes(op, operand) \in Seq(Byte) /\ Whole(code \o Bytes(op, operand))
  BY <1>2, Appended, BoundariesAppend
<1>5. QED
  BY <1>1, <1>3, <1>4 DEF Good

LEMMA HoldIfEnter ==
  ASSUME NEW g, NEW p, NEW e \in Nodes, e.kind = "ifenter",
         NEW s \in Stages, NEW t \in Stages, Concludes(g, p, e, s, t),
         NEW img, NEW w, NEW open, NEW n \in UInt16, Keeps(img, w, open, s.ifs, s.shape),
         Rising(open, n), Paired(w.code, open, n)
  PROVE  /\ s.modes = Resting /\ t.modes = Resting
         /\ Keeps(img, Gen(w, Op.goto, n), Append(open, n), t.ifs, t.shape)
<1>1. PICK u, v \in Levels : Between(g, p, e, s, t, u, v)
  BY ConcludesBetween
<1>2. v.blocks = u.blocks /\ v.ifs = Append(s.ifs, u.blocks) /\ t = Rest(v) /\ s.ifs = u.ifs
  BY <1>1 DEF Between, Raises, Level
<1>3. t.shape = Bare(u.blocks) /\ t.modes = Resting /\ t.ifs = Append(s.ifs, u.blocks) /\ u.blocks \in Nat
  BY <1>2, LevelTyped
<1>4. Len(e.kids) = 1 /\ Tag(e.kids[1].type) = "int"
  BY <1>1 DEF Between, WellPut
<1>5. /\ e.kids # <<>> /\ Number(e.kids[1]) \in Members /\ Number(e.kids[1]).f < 0 /\ Number(e.kids[1]).t = "int"
  BY <1>4, ChildNumber
<1>6. s.modes = Resting /\ s.shape = With(Bare(u.blocks), <<Number(e.kids[1])>>)
  BY <1>1, <1>5 DEF Between
<1>7. Bare(u.blocks) \in Shapes /\ Clear(Bare(u.blocks))
  BY BareLevel
<1>8. Emits(img, Op.goto, n, With(Bare(u.blocks), <<Number(e.kids[1])>>), Bare(u.blocks))
  BY <1>5, <1>7, EmitGoto
<1>9. Op.goto \in Opcodes /\ n \in Int
  BY OpIf, UInt16Typed
<1>10. Good(Gen(w, Op.goto, n)) /\ Gen(w, Op.goto, n).code = w.code \o Bytes(Op.goto, n)
  BY <1>9, GoodGen DEF Keeps
<1>11. PICK code : code = w.code
  OBVIOUS
<1>12. PICK k \in Nat : k = u.blocks
  BY <1>3
<1>13. PICK a : a = s.shape
  OBVIOUS
<1>14. /\ code \in Seq(Byte) /\ Whole(code) /\ Paired(code, open, n) /\ Fitted(img, code, open, s.ifs, a)
       /\ s.ifs \in Seq(Nat) /\ Emits(img, Op.goto, n, a, Bare(k)) /\ open \in Seq(Nat)
  BY <1>6, <1>8, <1>11, <1>12, <1>13, StageParts DEF Keeps, Good, Rising
<1>15. Fitted(img, code \o Bytes(Op.goto, n), Append(open, n), Append(s.ifs, k), Bare(k))
  BY <1>14, FittedOpen
<1>16. QED
  BY <1>3, <1>6, <1>10, <1>11, <1>12, <1>15 DEF Keeps

LEMMA HoldIfLeave ==
  ASSUME NEW g, NEW p, NEW e \in Nodes, e.kind = "ifleave",
         NEW s \in Stages, NEW t \in Stages, Concludes(g, p, e, s, t),
         NEW img, NEW w, NEW open \in Seq(Nat), open # <<>>, open[Len(open)] \in UInt16,
         Keeps(img, w, open, s.ifs, s.shape)
  PROVE  /\ s.modes = Resting /\ t.modes = Resting
         /\ Keeps(img, Gen(w, Op.label, open[Len(open)]), SubSeq(open, 1, Len(open) - 1), t.ifs, t.shape)
<1>1. PICK u, v \in Levels : Between(g, p, e, s, t, u, v)
  BY ConcludesBetween
<1>2. /\ s = Rest(u) /\ t = Rest(v) /\ v.blocks = u.blocks /\ v.ifs = SubSeq(u.ifs, 1, Len(u.ifs) - 1)
      /\ u.ifs[Len(u.ifs)] = u.blocks
  <2>1. e.kids = <<>> /\ s = Rest(u) /\ t = Rest(v)
    BY <1>1 DEF Between, WellPut
  <2>2. QED
    BY <1>1, <2>1 DEF Between, Raises, Level
<1>3. PICK a : a = s.shape
  OBVIOUS
<1>4. /\ a = Bare(u.blocks) /\ s.modes = Resting /\ s.ifs = u.ifs
      /\ t.shape = a /\ t.modes = Resting /\ t.ifs = SubSeq(s.ifs, 1, Len(s.ifs) - 1)
      /\ a = Bare(s.ifs[Len(s.ifs)])
  BY <1>2, <1>3, LevelTyped
<1>5. PICK n : n = open[Len(open)]
  OBVIOUS
<1>6. a \in Shapes /\ Clear(a) /\ n \in UInt16
  BY <1>4, <1>5, BareLevel
<1>7. Emits(img, Op.label, n, a, a)
  BY <1>6, EmitLabel
<1>8. Op.label \in Opcodes /\ n \in Int
  BY <1>6, OpIf, UInt16Typed
<1>9. Good(Gen(w, Op.label, n)) /\ Gen(w, Op.label, n).code = w.code \o Bytes(Op.label, n)
  BY <1>8, GoodGen DEF Keeps
<1>10. PICK code : code = w.code
  OBVIOUS
<1>11. PICK ifs : ifs = s.ifs
  OBVIOUS
<1>12. /\ code \in Seq(Byte) /\ Whole(code) /\ Fitted(img, code, open, ifs, a)
       /\ ifs \in Seq(Nat) /\ Emits(img, Op.label, open[Len(open)], a, a) /\ a = Bare(ifs[Len(ifs)])
  BY <1>3, <1>4, <1>5, <1>7, <1>10, <1>11, StageParts DEF Keeps, Good
<1>13. Fitted(img, code \o Bytes(Op.label, open[Len(open)]),
              SubSeq(open, 1, Len(open) - 1), SubSeq(ifs, 1, Len(ifs) - 1), a)
  BY <1>12, FittedClose
<1>14. Keeps(img, Gen(w, Op.label, n), SubSeq(open, 1, Len(open) - 1), t.ifs, t.shape)
  BY <1>4, <1>5, <1>9, <1>10, <1>11, <1>13 DEF Keeps
<1>15. QED
  BY <1>4, <1>5, <1>14

\* A constant is appended to the pool and pushed.
LEMMA HoldLiteral ==
  ASSUME NEW p \in Programs, NEW e \in Nodes, e.kind \in {"boolean", "int", "double"},
         NEW s \in Stages, NEW t \in Stages, Operates(p, e, s, t),
         NEW pool \in Seq([t : {"int", "double"}, v : Int]), Len(pool) \in UInt16,
         NEW type, type = (IF e.kind = "double" THEN "double" ELSE "int"), NEW w, NEW open, NEW ifs,
         Keeps(Parts(pool, TypesOf(p)), w, open, ifs, s.shape)
  PROVE  Keeps(Parts(Append(pool, [t |-> type, v |-> e.n]), TypesOf(p)),
               Gen(w, IF type = "double" THEN Op.push_double ELSE Op.push_int, Len(pool)), open, ifs, t.shape)
<1>1. PICK c : c = [t |-> type, v |-> e.n]
  OBVIOUS
<1>2. PICK types : types = TypesOf(p)
  OBVIOUS
<1> DEFINE more == Parts(Append(pool, c), types)
<1>3. /\ Len(pool) \in Nat /\ Len(Append(pool, c)) = Len(pool) + 1 /\ Append(pool, c)[Len(pool) + 1] = c
      /\ \A i \in 1 .. Len(pool) : Append(pool, c)[i] = pool[i]
  OBVIOUS
<1>4. PICK code : code = w.code
  OBVIOUS
<1>5. PICK b : b = s.shape
  OBVIOUS
<1>6. code \in Seq(Byte) /\ Whole(code) /\ Fitted(Parts(pool, types), code, open, ifs, b)
  BY <1>2, <1>4, <1>5 DEF Keeps, Good
<1>7. Fitted(more, code, open, ifs, b)
  BY <1>3, <1>6, FittedMore
<1>8. Keeps(more, w, open, ifs, b)
  BY <1>4, <1>6, <1>7 DEF Keeps, Good
<1>9. more.constant_pool = Append(pool, c)
  BY DEF Parts
<1> HIDE DEF more
<1>10. e.kind \in OperatorKinds /\ e.kind # "function" /\ TypedNode(p, e)
  BY OperatesKind DEF OperatorKinds, Leaves1
<1>11. e.kids = <<>> /\ Tag(e.type) = type
  BY <1>10 DEF TypedNode, Leaves1
<1>12. PICK a \in Shapes : Clear(a) /\ s.shape = With(a, Pushed(e)) /\ t.shape = With(a, <<Entry(e)>>)
  BY DEF Operates
<1>13. b = a /\ Entry(e) = NumberOf(type)
  BY <1>5, <1>10, <1>11, <1>12, ValuesNone DEF Entry, Number
<1>14. PICK op : op = IF type = "double" THEN Op.push_double ELSE Op.push_int
  OBVIOUS
<1>15. op \in {1, 2} /\ op \in Plain /\ MemberOf(op) = type
  <2>1. op \in Plain
    BY <1>14, OpcodesPlain
  <2>2. type = "double" \/ type = "int"
    OBVIOUS
  <2>3. QED
    BY <1>14, <2>1, <2>2, OpcodeNumbers DEF MemberOf
<1>16. PICK n \in UInt16 : n = Len(pool)
  OBVIOUS
<1>17. n < Len(more.constant_pool) /\ more.constant_pool[n + 1].t = MemberOf(op)
  BY <1>1, <1>3, <1>9, <1>15, <1>16
<1>18. Emits(more, op, n, a, With(a, <<NumberOf(MemberOf(op))>>))
  BY <1>12, <1>15, <1>17, EmitConstant
<1>19. Keeps(more, Gen(w, op, n), open, ifs, t.shape)
  <2>1. Emits(more, op, n, b, t.shape)
    BY <1>12, <1>13, <1>15, <1>18
  <2>2. QED
    BY <1>8, <1>15, <2>1, HoldsGen
<1>20. QED
  BY <1>1, <1>2, <1>14, <1>16, <1>19 DEF more

-----------------------------------------------------------------------------
(* The visitor between two calls: its modes are those of a stage, and the    *)
(* code so far is laid so that it leaves the stage's shape.                  *)

At(s) == vi_state = s.modes.vi /\ vf_state = s.modes.vf /\ assign_depth = s.modes.depth
Laying == Parts(constant_pool, TypesOf(prog))
Matches(s) == At(s) /\ Keeps(Laying, buf, id_stack, s.ifs, s.shape)

\* No index is cut when it is written as two bytes.
OperandsFit == /\ LabelsFit /\ FewNatives
               /\ Len(constant_pool) <= UINT16_MAX + 1 /\ Len(prog.decls) <= UINT16_MAX + 1

LEMMA UInt16Below ==
  ASSUME NEW m, m <= UINT16_MAX + 1, NEW n \in Nat, n < m, m \in Nat
  PROVE  n \in UInt16
<1>1. PICK k : k = UINT16_MAX
  OBVIOUS
<1>2. k \in Nat
  BY <1>1, UInt16Max
<1>3. n <= k
  BY <1>1, <1>2
<1>4. QED
  BY <1>1, <1>3, UInt16Max, UInt16Is

LEMMA DeclsAddressed ==
  ASSUME TypeOK, OperandsFit
  PROVE  Addressed(prog)
<1>1. prog.decls \in Seq([name : STRING, type : Types])
  BY NodesAssumption DEF TypeOK
<1>2. Len(prog.decls) \in Nat /\ Len(prog.decls) <= UINT16_MAX + 1
  BY <1>1 DEF OperandsFit
<1>3. QED
  BY <1>2, UInt16Below DEF Addressed

LEMMA NativesAddressed ==
  ASSUME OperandsFit, NEW e \in Nodes, NativeNode(e)
  PROVE  e.n \in UInt16
<1>1. e.n \in Int /\ e.n + 1 \in 1 .. Len(Natives) /\ Len(Natives) \in Nat
  BY NodesAssumption, NativesAssumption DEF NativeNode
<1>2. e.n \in Nat /\ e.n < 65536
  BY <1>1 DEF OperandsFit, FewNatives
<1>3. QED
  BY <1>2, UInt16Is

\* Nothing but the code is changed, and the pool.
LEMMA MatchMoves ==
  ASSUME NEW s \in Stages, NEW t \in Stages, At(s), t.modes = s.modes, KeepModes,
         Keeps(Parts(constant_pool', TypesOf(prog)), buf', id_stack, t.ifs, t.shape)
  PROVE  Matches(t)'
<1>1. prog' = prog /\ id_stack' = id_stack /\ vi_state' = vi_state /\ vf_state' = vf_state
      /\ assign_depth' = assign_depth
  BY DEF KeepModes
<1>2. At(t)'
  BY <1>1 DEF At
<1>3. QED
  BY <1>1, <1>2 DEF Matches, Laying

LEMMA MatchEmits ==
  ASSUME NEW s \in Stages, NEW t \in Stages, At(s), t.modes = s.modes, t.ifs = s.ifs,
         NEW op, NEW operand, EmitAndReturn(op, operand),
         Keeps(Laying, Gen(buf, op, operand), id_stack, s.ifs, t.shape)
  PROVE  Matches(t)'
BY MatchMoves DEF EmitAndReturn, Emit, Laying

LEMMA OperatesKeeps ==
  ASSUME NEW p, NEW e, NEW s, NEW t, Operates(p, e, s, t)
  PROVE  t.ifs = s.ifs /\ (e.kind # "call" => t.modes = s.modes) /\ (e.kind = "call" => t.modes = Silent(s.modes))
BY DEF Operates

LEMMA MatchLiteral ==
  ASSUME TypeOK, OperandsFit', NEW g, NEW s \in Stages, NEW t \in Stages, Matches(s),
         Finishes(g, prog, Cur, s, t), LeaveLiteral
  PROVE  Matches(t)'
<1>1. Cur \in Nodes /\ Cur.kind \in {"boolean", "int", "double"} /\ prog \in Programs
      /\ constant_pool \in Seq([t : {"int", "double"}, v : Int]) /\ KeepModes
  BY CurIsNode DEF LeaveLiteral, Calling, TypeOK
<1>2. Operates(prog, Cur, s, t) /\ Cur.kind # "call"
  BY <1>1, FinishesOperator DEF OperatorKinds, Leaves1
<1>3. PICK type : type = IF Cur.kind = "double" THEN "double" ELSE "int"
  OBVIOUS
<1>4. PICK c : c = [t |-> type, v |-> Cur.n]
  OBVIOUS
<1>5. /\ constant_pool' = Append(constant_pool, c)
      /\ buf' = Gen(buf, IF type = "double" THEN Op.push_double ELSE Op.push_int, Len(constant_pool))
  BY <1>3, <1>4 DEF LeaveLiteral, Emit
<1>6. Len(constant_pool) \in UInt16
  <2>1. Len(constant_pool) \in Nat /\ Len(constant_pool') = Len(constant_pool) + 1 /\ Len(constant_pool') \in Nat
    BY <1>1, <1>5
  <2>2. Len(constant_pool') <= UINT16_MAX + 1
    BY DEF OperandsFit
  <2>3. QED
    BY <2>1, <2>2, UInt16Below
<1>7. Keeps(Parts(constant_pool, TypesOf(prog)), buf, id_stack, s.ifs, s.shape) /\ At(s)
  BY DEF Matches, Laying
<1>8. Keeps(Parts(constant_pool', TypesOf(prog)), buf', id_stack, s.ifs, t.shape)
  BY <1>1, <1>2, <1>3, <1>4, <1>5, <1>6, <1>7, HoldLiteral
<1>9. t.ifs = s.ifs /\ t.modes = s.modes
  BY <1>2, OperatesKeeps
<1>10. QED
  BY <1>1, <1>7, <1>8, <1>9, MatchMoves

LEMMA MatchIdentNormal ==
  ASSUME TypeOK, OperandsFit, NEW g, NEW s \in Stages, NEW t \in Stages, Matches(s),
         Finishes(g, prog, Cur, s, t), LeaveIdentNormal
  PROVE  Matches(t)'
<1>1. Cur \in Nodes /\ Cur.kind \in {"ident", "function"} /\ prog \in Programs /\ vi_state = "VISIT_NORMAL"
  BY CurIsNode DEF LeaveIdentNormal, Calling, TypeOK
<1>2. At(s) /\ s.modes.vi = "VISIT_NORMAL" /\ Keeps(Laying, buf, id_stack, s.ifs, s.shape)
  BY <1>1 DEF Matches, At
<1>3. Operates(prog, Cur, s, t)
  BY <1>1, <1>2, FinishesOperator, FinishesIdent
<1>4. t.ifs = s.ifs /\ t.modes = s.modes
  BY <1>1, <1>3, OperatesKeeps
<1>5. CASE Cur.kind = "ident"
  <2>1. Addressed(prog)
    BY DeclsAddressed
  <2>2. Keeps(Laying, Gen(buf, PushStaticOp(Cur.type), Cur.n), id_stack, s.ifs, t.shape)
    BY <1>1, <1>2, <1>3, <1>5, <2>1, HoldIdent DEF Laying
  <2>3. EmitAndReturn(PushStaticOp(Cur.type), Cur.n)
    BY <1>5 DEF LeaveIdentNormal
  <2>4. QED
    BY <1>2, <1>4, <2>2, <2>3, MatchEmits
<1>6. CASE Cur.kind = "function"
  <2>1. Cur.n \in UInt16
    BY <1>1, <1>3, <1>6, OperatesKind, NativesAddressed
  <2>2. Keeps(Laying, Gen(buf, Op.push_function, Cur.n), id_stack, s.ifs, t.shape)
    BY <1>1, <1>2, <1>3, <1>6, <2>1, HoldFunction
  <2>3. EmitAndReturn(Op.push_function, Cur.n)
    BY <1>6 DEF LeaveIdentNormal
  <2>4. QED
    BY <1>2, <1>4, <2>2, <2>3, MatchEmits
<1>7. QED
  BY <1>1, <1>5, <1>6

LEMMA MatchIdentAssign ==
  ASSUME TypeOK, OperandsFit, NEW g, NEW s \in Stages, NEW t \in Stages, Matches(s),
         Finishes(g, prog, Cur, s, t), LeaveIdentAssign
  PROVE  Matches(t)'
<1>1. Cur \in Nodes /\ Cur.kind = "ident" /\ prog \in Programs /\ vi_state # "VISIT_NORMAL"
  BY CurIsNode DEF LeaveIdentAssign, Calling, TypeOK
<1>2. At(s) /\ s.modes.vi # "VISIT_NORMAL" /\ Keeps(Laying, buf, id_stack, s.ifs, s.shape)
  BY <1>1 DEF Matches, At
<1>3. Targeted(prog, Cur, s, t)
  BY <1>1, <1>2, FinishesIdent
<1>4. t.ifs = s.ifs /\ t.modes = s.modes
  BY <1>3 DEF Targeted
<1>5. Addressed(prog)
  BY DeclsAddressed
<1>6. ValueWanted <=> Wanted(s.modes)
  BY <1>2 DEF ValueWanted, Wanted, At
<1> DEFINE popped == Gen(buf, PopStaticOp(Cur.type), Cur.n)
           new == IF Wanted(s.modes) THEN Gen(popped, PushStaticOp(Cur.type), Cur.n) ELSE popped
<1>7. Keeps(Laying, new, id_stack, s.ifs, t.shape)
  BY <1>1, <1>2, <1>3, <1>5, HoldTarget DEF Laying
<1>8. buf' = new /\ KeepModes /\ UNCHANGED constant_pool
  BY <1>6 DEF LeaveIdentAssign
<1> HIDE DEF new
<1>9. QED
  BY <1>2, <1>4, <1>7, <1>8, MatchMoves DEF Laying

LEMMA MatchBinary ==
  ASSUME TypeOK, NEW g, NEW s \in Stages, NEW t \in Stages, Matches(s),
         Finishes(g, prog, Cur, s, t), LeaveBinary, outcome' = "running"
  PROVE  Matches(t)'
<1>1. Cur \in Nodes /\ Cur.kind \in DOMAIN BinaryOps /\ prog \in Programs
  BY CurIsNode DEF LeaveBinary, Calling, TypeOK
<1>2. Cur.kind \in OperatorKinds /\ Cur.kind # "call" /\ Cur.kind # "ident"
  BY <1>1, KindsApart DEF OperatorKinds, BinaryOps
<1>3. Operates(prog, Cur, s, t)
  BY <1>2, FinishesOperator
<1>4. PICK type : type = Cur.kids[1].type
  OBVIOUS
<1>5. type \in DOMAIN BinaryOps[Cur.kind] /\ EmitAndReturn(BinaryOps[Cur.kind][type], 0)
  BY <1>4 DEF LeaveBinary, Exit
<1>6. At(s) /\ Keeps(Laying, buf, id_stack, s.ifs, s.shape)
  BY DEF Matches
<1>7. Keeps(Laying, Gen(buf, BinaryOps[Cur.kind][type], 0), id_stack, s.ifs, t.shape)
  BY <1>1, <1>3, <1>4, <1>5, <1>6, HoldBinary
<1>8. t.ifs = s.ifs /\ t.modes = s.modes
  BY <1>2, <1>3, OperatesKeeps
<1>9. QED
  BY <1>5, <1>6, <1>7, <1>8, MatchEmits

LEMMA MatchUnary ==
  ASSUME TypeOK, NEW g, NEW s \in Stages, NEW t \in Stages, Matches(s),
         Finishes(g, prog, Cur, s, t), LeaveUnary, outcome' = "running"
  PROVE  Matches(t)'
<1>1. Cur \in Nodes /\ prog \in Programs /\ Cur.kind \in UnaryNodes
  BY UnaryEmits, CurIsNode DEF Calling, TypeOK
<1>2. Cur.kind \in OperatorKinds /\ Cur.kind # "call" /\ Cur.kind # "ident"
  BY <1>1 DEF OperatorKinds, UnaryKinds, UnaryNodes
<1>3. Operates(prog, Cur, s, t)
  BY <1>2, FinishesOperator
<1>4. At(s) /\ Keeps(Laying, buf, id_stack, s.ifs, s.shape)
  BY DEF Matches
<1>5. t.ifs = s.ifs /\ t.modes = s.modes
  BY <1>2, <1>3, OperatesKeeps
<1>6. CASE Cur.kind = "minus" /\ Cur.type \in DOMAIN MinusOps /\ EmitAndReturn(MinusOps[Cur.type], 0)
  BY <1>1, <1>3, <1>4, <1>5, <1>6, HoldMinus, MatchEmits
<1>7. CASE Cur.kind \in DOMAIN LogicalOps /\ EmitAndReturn(LogicalOps[Cur.kind], 0)
  <2>1. Cur.kind \in {"land", "lor"}
    BY <1>7 DEF LogicalOps
  <2>2. QED
    BY <1>1, <1>3, <1>4, <1>5, <1>7, <2>1, HoldLogical, MatchEmits
<1>8. CASE Cur.kind = "lognot" /\ EmitAndReturn(Op.logical_not, 0)
  <2>1. Keeps(Laying, Gen(buf, Op.logical_not, 0), id_stack, s.ifs, t.shape)
    BY <1>1, <1>3, <1>4, <1>8, HoldUnary
  <2>2. QED
    BY <1>4, <1>5, <1>8, <2>1, MatchEmits
<1>9. CASE Cur.kind \in DOMAIN CastOps /\ EmitAndReturn(CastOps[Cur.kind], 0)
  <2>1. Cur.kind \in {"cast_int_to_double", "cast_double_to_int"} /\ Cur.kind # "lognot"
    BY <1>9 DEF CastOps
  <2>2. Keeps(Laying, Gen(buf, CastOps[Cur.kind], 0), id_stack, s.ifs, t.shape)
    BY <1>1, <1>3, <1>4, <2>1, HoldUnary
  <2>3. QED
    BY <1>4, <1>5, <1>9, <2>2, MatchEmits
<1>10. QED
  BY <1>6, <1>7, <1>8, <1>9 DEF LeaveUnary, Exit

LEMMA MatchIncDec ==
  ASSUME TypeOK, OperandsFit, NEW g, NEW s \in Stages, NEW t \in Stages, Matches(s),
         Finishes(g, prog, Cur, s, t), LeaveIncDec, outcome' = "running"
  PROVE  Matches(t)'
<1>1. Cur \in Nodes /\ Cur.kind \in {"inc", "dec"} /\ prog \in Programs
  BY CurIsNode DEF LeaveIncDec, Calling, TypeOK
<1>2. Cur.kind \in OperatorKinds /\ Cur.kind # "call" /\ Cur.kind # "ident"
  BY <1>1 DEF OperatorKinds
<1>3. Operates(prog, Cur, s, t)
  BY <1>2, FinishesOperator
<1>4. At(s) /\ Keeps(Laying, buf, id_stack, s.ifs, s.shape)
  BY DEF Matches
<1>5. t.ifs = s.ifs /\ t.modes = s.modes
  BY <1>2, <1>3, OperatesKeeps
<1>6. Addressed(prog)
  BY DeclsAddressed
<1> DEFINE bumped == Gen(buf, IF Cur.kind = "inc" THEN Op.increment ELSE Op.decrement, 0)
           stored == Gen(bumped, Op.pop_static_int, Cur.kids[1].n)
           loaded == Gen(stored, Op.push_static_int, Cur.kids[1].n)
<1>7. buf' = loaded /\ KeepModes /\ UNCHANGED constant_pool
  BY DEF LeaveIncDec, Exit
<1>8. Keeps(Laying, loaded, id_stack, s.ifs, t.shape)
  BY <1>1, <1>3, <1>4, <1>6, HoldIncDec DEF Laying
<1> HIDE DEF loaded
<1>9. QED
  BY <1>4, <1>5, <1>7, <1>8, MatchMoves DEF Laying

LEMMA MatchNew ==
  ASSUME NEW t \in Stages, prog' = prog,
         vi_state' = t.modes.vi, vf_state' = t.modes.vf, assign_depth' = t.modes.depth,
         Keeps(Parts(constant_pool', TypesOf(prog)), buf', id_stack', t.ifs, t.shape)
  PROVE  Matches(t)'
<1>1. At(t)'
  BY DEF At
<1>2. QED
  BY <1>1 DEF Matches, Laying

LEMMA MatchParts ==
  ASSUME NEW s \in Stages, Matches(s)
  PROVE  /\ vi_state = s.modes.vi /\ vf_state = s.modes.vf /\ assign_depth = s.modes.depth
         /\ Keeps(Parts(constant_pool, TypesOf(prog)), buf, id_stack, s.ifs, s.shape)
BY DEF Matches, Laying, At

LEMMA ModeFields == \A i, f, d : Mode(i, f, d).vi = i /\ Mode(i, f, d).vf = f /\ Mode(i, f, d).depth = d
BY DEF Mode

LEMMA MatchNotify ==
  ASSUME TypeOK, NEW s \in Stages, NEW t \in Stages, Matches(s),
         Notifies(prog, Cur, s, t), NotifyAssign, outcome' = "running"
  PROVE  Matches(t)'
<1>1. Cur \in Nodes /\ Cur.kind \in AssignKinds
  <2>1. todo # <<>> /\ todo[1].at = "notify" /\ todo \in Seq(Pending)
    BY DEF NotifyAssign, Calling, TypeOK
  <2>2. todo[1] \in Pending
    BY <2>1
  <2>3. QED
    BY <2>1, <2>2, CurIsNode DEF Pending, Cur
<1>2. t.modes = Targeting(s.modes) /\ t.ifs = s.ifs
  BY DEF Notifies
<1>3. t.modes.vi = "VISIT_NOMAL_ASSIGN" /\ t.modes.vf = s.modes.vf /\ t.modes.depth = s.modes.depth
  BY <1>2, ModeFields DEF Targeting
<1>4. /\ vf_state = s.modes.vf /\ assign_depth = s.modes.depth
      /\ Keeps(Parts(constant_pool, TypesOf(prog)), buf, id_stack, s.ifs, s.shape)
  BY MatchParts
<1>5. /\ vi_state' = "VISIT_NOMAL_ASSIGN"
      /\ prog' = prog /\ constant_pool' = constant_pool /\ vf_state' = vf_state /\ assign_depth' = assign_depth
      /\ id_stack' = id_stack
  BY DEF NotifyAssign, Exit
<1>6. CASE Cur.kind = "assign"
  <2>1. buf' = buf /\ t.shape = s.shape
    BY <1>6 DEF NotifyAssign, Notifies
  <2>2. QED
    BY <1>2, <1>3, <1>4, <1>5, <2>1, MatchNew
<1>7. CASE Cur.kind # "assign"
  <2>1. PICK type : type = Cur.kids[2].type
    OBVIOUS
  <2>2. type \in {"int", "double"} /\ buf' = Gen(buf, BinaryOps[CompoundOf[Cur.kind]][type], 0)
    BY <1>7, <2>1 DEF NotifyAssign, EmitOp, Emit, Exit
  <2>3. Keeps(Parts(constant_pool, TypesOf(prog)), Gen(buf, BinaryOps[CompoundOf[Cur.kind]][type], 0),
              id_stack, s.ifs, t.shape)
    BY <1>1, <1>4, <1>7, <2>1, <2>2, HoldCompound
  <2>4. QED
    BY <1>2, <1>3, <1>4, <1>5, <2>2, <2>3, MatchNew
<1>8. QED
  BY <1>6, <1>7

LEMMA MatchLeaveAssign ==
  ASSUME TypeOK, NEW g, NEW s \in Stages, NEW t \in Stages, Matches(s),
         Finishes(g, prog, Cur, s, t), LeaveAssign
  PROVE  Matches(t)'
<1>1. Cur.kind \in AssignKinds
  BY DEF LeaveAssign
<1>2. t.shape = s.shape /\ t.modes = Assigned(s.modes) /\ t.ifs = s.ifs
  BY <1>1, FinishesAssign DEF Closes
<1>3. /\ vi_state = s.modes.vi /\ vf_state = s.modes.vf /\ assign_depth = s.modes.depth
      /\ Keeps(Parts(constant_pool, TypesOf(prog)), buf, id_stack, s.ifs, s.shape)
  BY MatchParts
<1>4. prog' = prog /\ buf' = buf /\ constant_pool' = constant_pool /\ vf_state' = vf_state /\ id_stack' = id_stack
  BY DEF LeaveAssign
<1>5. vi_state' = t.modes.vi /\ vf_state' = t.modes.vf /\ assign_depth' = t.modes.depth
  <2>1. CASE vf_state = "VISIT_F_CALL"
    <3>1. vi_state' = "VISIT_NORMAL" /\ assign_depth' = 0
      BY <2>1 DEF LeaveAssign
    <3>2. t.modes = Mode("VISIT_NORMAL", s.modes.vf, 0)
      BY <1>2, <1>3, <2>1 DEF Assigned
    <3>3. QED
      BY <1>3, <1>4, <3>1, <3>2, ModeFields
  <2>2. CASE vf_state # "VISIT_F_CALL"
    <3>1. vi_state' = vi_state /\ assign_depth' = (assign_depth - 1) % 65536
      BY <2>2 DEF LeaveAssign
    <3>2. t.modes = Mode(s.modes.vi, s.modes.vf, (s.modes.depth - 1) % 65536)
      BY <1>2, <1>3, <2>2 DEF Assigned
    <3>3. QED
      BY <1>3, <1>4, <3>1, <3>2, ModeFields
  <2>3. QED
    BY <2>1, <2>2
<1>6. QED
  BY <1>2, <1>3, <1>4, <1>5, MatchNew

LEMMA MatchLeaveFuncCall ==
  ASSUME TypeOK, OperandsFit, NEW g, NEW s \in Stages, NEW t \in Stages, Matches(s),
         Finishes(g, prog, Cur, s, t), LeaveFuncCall
  PROVE  Matches(t)'
<1>1. Cur \in Nodes /\ Cur.kind = "call" /\ prog \in Programs /\ FewNatives
  BY CurIsNode DEF LeaveFuncCall, Calling, TypeOK, OperandsFit
<1>2. Operates(prog, Cur, s, t)
  BY <1>1, FinishesOperator
<1>3. t.modes = Silent(s.modes) /\ t.ifs = s.ifs
  BY <1>1, <1>2, OperatesKeeps
<1>4. /\ vi_state = s.modes.vi /\ vf_state = s.modes.vf /\ assign_depth = s.modes.depth
      /\ Keeps(Parts(constant_pool, TypesOf(prog)), buf, id_stack, s.ifs, s.shape)
  BY MatchParts
<1>5. /\ prog' = prog /\ buf' = Gen(buf, Op.invoke, 0) /\ constant_pool' = constant_pool /\ vf_state' = "VISIT_F_NO"
      /\ id_stack' = id_stack /\ vi_state' = vi_state /\ assign_depth' = assign_depth
  BY DEF LeaveFuncCall, EmitOp, Emit
<1>6. Keeps(Parts(constant_pool, TypesOf(prog)), Gen(buf, Op.invoke, 0), id_stack, s.ifs, t.shape)
  BY <1>1, <1>2, <1>4, HoldCall
<1>7. t.modes.vi = s.modes.vi /\ t.modes.vf = "VISIT_F_NO" /\ t.modes.depth = s.modes.depth
  BY <1>3, ModeFields DEF Silent
<1>8. QED
  BY <1>3, <1>4, <1>5, <1>6, <1>7, MatchNew

LEMMA MatchLeaveExprStmt ==
  ASSUME TypeOK, NEW g, NEW s \in Stages, NEW t \in Stages, Matches(s),
         Finishes(g, prog, Cur, s, t), LeaveExprStmt
  PROVE  Matches(t)'
<1>1. Cur \in Nodes /\ Cur.kind = "exprstmt" /\ Cur.kind \in StatementKinds
  BY CurIsNode DEF LeaveExprStmt, Calling, StatementKinds
<1>2. Concludes(g, prog, Cur, s, t)
  BY <1>1, FinishesStatement
<1>3. /\ vi_state = s.modes.vi /\ vf_state = s.modes.vf /\ assign_depth = s.modes.depth
      /\ Keeps(Parts(constant_pool, TypesOf(prog)), buf, id_stack, s.ifs, s.shape)
  BY MatchParts
<1>4. /\ t.modes = Resting /\ t.ifs = s.ifs
      /\ s.modes.vi = "VISIT_NORMAL" =>
           s.modes = Resting /\ Keeps(Parts(constant_pool, TypesOf(prog)), Gen(buf, Op.pop, 0), id_stack, s.ifs, t.shape)
      /\ s.modes.vi # "VISIT_NORMAL" => s.modes.vf = "VISIT_F_NO" /\ t.shape = s.shape
  BY <1>1, <1>2, <1>3, HoldExprStmt
<1>5. Resting.vi = "VISIT_NORMAL" /\ Resting.vf = "VISIT_F_NO" /\ Resting.depth = 0
  BY RestingTyped
<1>6. prog' = prog /\ constant_pool' = constant_pool /\ vf_state' = vf_state /\ id_stack' = id_stack
  BY DEF LeaveExprStmt
<1>7. CASE vi_state = "VISIT_NORMAL"
  <2>1. buf' = Gen(buf, Op.pop, 0) /\ vi_state' = vi_state /\ assign_depth' = assign_depth
    BY <1>7 DEF LeaveExprStmt, EmitOp, Emit
  <2>2. QED
    BY <1>3, <1>4, <1>6, <1>7, <2>1, MatchNew
<1>8. CASE vi_state # "VISIT_NORMAL"
  <2>1. buf' = buf /\ vi_state' = "VISIT_NORMAL" /\ assign_depth' = 0
    BY <1>8 DEF LeaveExprStmt
  <2>2. QED
    BY <1>3, <1>4, <1>5, <1>6, <1>8, <2>1, MatchNew
<1>9. QED
  BY <1>7, <1>8

LEMMA MatchLeaveDeclStmt ==
  ASSUME TypeOK, OperandsFit, NEW g, NEW s \in Stages, NEW t \in Stages, Matches(s),
         Finishes(g, prog, Cur, s, t), LeaveDeclStmt
  PROVE  Matches(t)'
<1>1. Cur \in Nodes /\ Cur.kind = "declstmt" /\ Cur.kind \in StatementKinds /\ prog \in Programs
  BY CurIsNode DEF LeaveDeclStmt, Calling, StatementKinds, TypeOK
<1>2. Concludes(g, prog, Cur, s, t)
  BY <1>1, FinishesStatement
<1>3. /\ vi_state = s.modes.vi /\ vf_state = s.modes.vf /\ assign_depth = s.modes.depth
      /\ Keeps(Parts(constant_pool, TypesOf(prog)), buf, id_stack, s.ifs, s.shape)
  BY MatchParts
<1>4. CASE Cur.kids = <<>>
  <2>1. t = s
    BY <1>1, <1>2, <1>4, HoldDeclNone
  <2>2. UNCHANGED <<prog, handlerVars>>
    BY <1>4 DEF LeaveDeclStmt
  <2>3. QED
    BY <1>3, <2>1, <2>2, MatchNew DEF handlerVars
<1>5. CASE Cur.kids # <<>>
  <2>1. PICK i \in DOMAIN prog.decls :
          /\ prog.decls[i].name = prog.decls[Cur.n + 1].name
          /\ \A j \in 1 .. i - 1 : prog.decls[j].name # prog.decls[Cur.n + 1].name
          /\ EmitAndReturn(PopStaticOp(prog.decls[i].type), i - 1)
    BY <1>5 DEF LeaveDeclStmt, SearchDeclGlobal
  <2>2. Addressed(prog)
    BY DeclsAddressed
  <2>3. /\ s.modes = Resting /\ t.modes = Resting /\ t.ifs = s.ifs
        /\ Keeps(Parts(constant_pool, TypesOf(prog)), Gen(buf, PopStaticOp(prog.decls[i].type), i - 1),
                 id_stack, s.ifs, t.shape)
    <3>1. PICK e \in Nodes : e = Cur
      BY <1>1
    <3>2. /\ e.kind = "declstmt" /\ e.kids # <<>> /\ Concludes(g, prog, e, s, t)
          /\ StoredTo(prog, e, i)
      BY <1>1, <1>2, <1>5, <2>1, <3>1 DEF StoredTo
    <3>3. Keeps(Parts(constant_pool, TypesOf(prog)), buf, id_stack, s.ifs, s.shape) /\ prog \in Programs
      BY <1>1, <1>3
    <3>4. QED
      BY <2>2, <3>2, <3>3, HoldDecl
  <2>4. QED
    BY <1>3, <2>1, <2>3, MatchEmits DEF At, Laying
<1>6. QED
  BY <1>4, <1>5

LEMMA MatchLeaveBlockOp ==
  ASSUME TypeOK, NEW g, NEW s \in Stages, NEW t \in Stages, Matches(s),
         Finishes(g, prog, Cur, s, t), LeaveBlockOp
  PROVE  Matches(t)'
<1>1. Cur \in Nodes /\ Cur.kind \in {"blockbegin", "blockend"} /\ Cur.kind \in StatementKinds
  BY CurIsNode DEF LeaveBlockOp, Calling, StatementKinds
<1>2. Concludes(g, prog, Cur, s, t)
  BY <1>1, FinishesStatement
<1>3. /\ At(s) /\ Keeps(Laying, buf, id_stack, s.ifs, s.shape)
  BY DEF Matches
<1>4. PICK op : op = BlockOpcode(Cur)
  OBVIOUS
<1>5. EmitAndReturn(op, 0)
  BY <1>4 DEF LeaveBlockOp, BlockOpcode
<1>6. /\ s.modes = Resting /\ t.modes = Resting /\ t.ifs = s.ifs
      /\ Keeps(Laying, Gen(buf, op, 0), id_stack, s.ifs, t.shape)
  <2>1. PICK e \in Nodes : e = Cur
    BY <1>1
  <2>2. BlockKind(e) /\ Concludes(g, prog, e, s, t)
    BY <1>1, <1>2, <2>1 DEF BlockKind
  <2>3. Keeps(Laying, buf, id_stack, s.ifs, s.shape)
    BY <1>3
  <2>4. /\ s.modes = Resting /\ t.modes = Resting /\ t.ifs = s.ifs
        /\ Keeps(Laying, Gen(buf, BlockOpcode(e), 0), id_stack, s.ifs, t.shape)
    BY <2>2, <2>3, HoldBlock
  <2>5. QED
    BY <1>4, <2>1, <2>4
<1>7. QED
  BY <1>3, <1>5, <1>6, MatchEmits

LEMMA MatchLeaveIfEnter ==
  ASSUME TypeOK, LabelsFresh, PairingInv, OperandsFit', NEW g, NEW s \in Stages, NEW t \in Stages, Matches(s),
         Finishes(g, prog, Cur, s, t), LeaveIfEnter, outcome' = "running"
  PROVE  Matches(t)'
<1>1. Cur \in Nodes /\ Cur.kind = "ifenter" /\ Cur.kind \in StatementKinds
  BY CurIsNode DEF LeaveIfEnter, Calling, StatementKinds
<1>2. Concludes(g, prog, Cur, s, t)
  BY <1>1, FinishesStatement
<1>3. /\ vi_state = s.modes.vi /\ vf_state = s.modes.vf /\ assign_depth = s.modes.depth
      /\ Keeps(Parts(constant_pool, TypesOf(prog)), buf, id_stack, s.ifs, s.shape)
  BY MatchParts
<1>4. /\ id_stack' = Append(id_stack, id) /\ id' = id + 1 /\ buf' = Gen(buf, Op.goto, id)
      /\ prog' = prog /\ constant_pool' = constant_pool /\ vi_state' = vi_state /\ vf_state' = vf_state
      /\ assign_depth' = assign_depth
  BY DEF LeaveIfEnter, Exit, Emit
<1>5. id \in Nat /\ id \in UInt16 /\ LabelsFit
  <2>1. id \in Nat /\ id' \in Nat /\ id' = id + 1
    BY <1>4 DEF TypeOK
  <2>2. id' <= UINT16_MAX + 1
    BY DEF OperandsFit, LabelsFit
  <2>3. id \in UInt16
    BY <2>1, <2>2, UInt16Below
  <2>4. LabelsFit
    BY <2>1, <2>2, UInt16Max DEF LabelsFit
  <2>5. QED
    BY <2>1, <2>3, <2>4
<1>6. Paired(buf.code, id_stack, id)
  BY <1>5 DEF PairingInv
<1>7. Rising(id_stack, id)
  BY DEF Rising, LabelsFresh, TypeOK
<1>8. /\ s.modes = Resting /\ t.modes = Resting
      /\ Keeps(Parts(constant_pool, TypesOf(prog)), Gen(buf, Op.goto, id), Append(id_stack, id), t.ifs, t.shape)
  BY <1>1, <1>2, <1>3, <1>5, <1>6, <1>7, HoldIfEnter
<1>9. QED
  BY <1>3, <1>4, <1>8, MatchNew

LEMMA MatchLeaveIfLeave ==
  ASSUME TypeOK, LabelsFresh, OperandsFit, NEW g, NEW s \in Stages, NEW t \in Stages, Matches(s),
         Finishes(g, prog, Cur, s, t), LeaveIfLeave
  PROVE  Matches(t)'
<1>1. Cur \in Nodes /\ Cur.kind = "ifleave" /\ Cur.kind \in StatementKinds
  BY CurIsNode DEF LeaveIfLeave, Calling, StatementKinds
<1>2. Concludes(g, prog, Cur, s, t)
  BY <1>1, FinishesStatement
<1>3. /\ vi_state = s.modes.vi /\ vf_state = s.modes.vf /\ assign_depth = s.modes.depth
      /\ Keeps(Parts(constant_pool, TypesOf(prog)), buf, id_stack, s.ifs, s.shape)
  BY MatchParts
<1>4. /\ id_stack # <<>> /\ id_stack' = SubSeq(id_stack, 1, Len(id_stack) - 1)
      /\ buf' = Gen(buf, Op.label, id_stack[Len(id_stack)])
      /\ prog' = prog /\ constant_pool' = constant_pool /\ vi_state' = vi_state /\ vf_state' = vf_state
      /\ assign_depth' = assign_depth
  BY DEF LeaveIfLeave, Emit
<1>5. id_stack \in Seq(Nat) /\ id_stack[Len(id_stack)] \in UInt16
  <2>1. id_stack \in Seq(Nat) /\ id \in Nat /\ id <= UINT16_MAX + 1
    BY DEF TypeOK, OperandsFit, LabelsFit
  <2>2. Len(id_stack) \in DOMAIN id_stack
    BY <1>4, <2>1
  <2>3. PICK k : k = id_stack[Len(id_stack)]
    OBVIOUS
  <2>4. k \in Nat /\ k < id
    BY <2>1, <2>2, <2>3 DEF LabelsFresh
  <2>5. QED
    BY <2>1, <2>3, <2>4, UInt16Below
<1>6. /\ s.modes = Resting /\ t.modes = Resting
      /\ Keeps(Parts(constant_pool, TypesOf(prog)), Gen(buf, Op.label, id_stack[Len(id_stack)]),
               SubSeq(id_stack, 1, Len(id_stack) - 1), t.ifs, t.shape)
  BY <1>1, <1>2, <1>3, <1>4, <1>5, HoldIfLeave
<1>7. QED
  BY <1>3, <1>4, <1>6, MatchNew

LEMMA InsideParts ==
  ASSUME NEW e, NEW s \in Stages
  PROVE  /\ Inside(e, s) \in Stages /\ Inside(e, s).ifs = s.ifs
         /\ e.kind \notin AssignKinds \cup {"call"} => Inside(e, s) = s
         /\ e.kind = "call" => Inside(e, s).shape = s.shape /\ Inside(e, s).modes = Called(s.modes)
         /\ e.kind \in AssignKinds => Inside(e, s).modes = Deeper(s.modes)
         /\ e.kind = "assign" => Inside(e, s).shape = s.shape
         /\ e.kind \in AssignKinds \ {"assign"} => Inside(e, s).shape = With(s.shape, Ints(1))
<1>1. s.shape \in Shapes /\ s.modes \in Modes /\ s.ifs \in Seq(Nat) /\ s = Stage(s.shape, s.modes, s.ifs)
  BY StageParts
<1>2. With(s.shape, Ints(1)) \in Shapes
  BY <1>1, WithTyped, IntsTyped
<1>3. Called(s.modes) \in Modes /\ Deeper(s.modes) \in Modes
  BY <1>1, ModesMade
<1>4. PICK a \in Shapes : a = IF e.kind \in AssignKinds \ {"assign"} THEN With(s.shape, Ints(1)) ELSE s.shape
  BY <1>1, <1>2
<1>5. PICK m \in Modes : m = IF e.kind \in AssignKinds THEN Deeper(s.modes)
                             ELSE IF e.kind = "call" THEN Called(s.modes) ELSE s.modes
  BY <1>1, <1>3
<1>6. Inside(e, s) = Stage(a, m, s.ifs)
  BY <1>4, <1>5 DEF Inside
<1>7. /\ Inside(e, s) \in Stages /\ Inside(e, s).ifs = s.ifs
      /\ Inside(e, s).shape = a /\ Inside(e, s).modes = m
  BY <1>1, <1>6, StageTyped
<1>8. "call" \notin AssignKinds /\ "assign" \in AssignKinds
  BY DEF AssignKinds, CompoundOf
<1>9. e.kind \notin AssignKinds \cup {"call"} => Inside(e, s) = s
  BY <1>1, <1>4, <1>5, <1>6
<1>10. QED
  BY <1>4, <1>5, <1>7, <1>8, <1>9

LEMMA MatchEnterOther ==
  ASSUME NEW e, e = Cur, NEW s \in Stages, Matches(s), EnterOther
  PROVE  Matches(Inside(e, s))'
<1>1. Inside(e, s) = s
  BY InsideParts DEF EnterOther
<1>2. /\ vi_state = s.modes.vi /\ vf_state = s.modes.vf /\ assign_depth = s.modes.depth
      /\ Keeps(Parts(constant_pool, TypesOf(prog)), buf, id_stack, s.ifs, s.shape)
  BY MatchParts
<1>3. /\ prog' = prog /\ buf' = buf /\ constant_pool' = constant_pool /\ vf_state' = vf_state
      /\ id_stack' = id_stack /\ vi_state' = vi_state /\ assign_depth' = assign_depth
  BY DEF EnterOther, handlerVars
<1>4. Matches(s)'
  BY <1>2, <1>3, MatchNew
<1>5. QED
  BY <1>1, <1>4

LEMMA MatchEnterFuncCall ==
  ASSUME NEW e, e = Cur, NEW s \in Stages, Matches(s), EnterFuncCall
  PROVE  Matches(Inside(e, s))'
<1>1. e.kind = "call"
  BY DEF EnterFuncCall
<1>2. PICK r \in Stages : /\ r = Inside(e, s) /\ r.ifs = s.ifs /\ r.shape = s.shape
                          /\ r.modes = Called(s.modes)
  BY <1>1, InsideParts
<1>3. r.modes.vi = s.modes.vi /\ r.modes.vf = "VISIT_F_CALL" /\ r.modes.depth = s.modes.depth
  BY <1>2, ModeFields DEF Called
<1>4. /\ vi_state = s.modes.vi /\ assign_depth = s.modes.depth
      /\ Keeps(Parts(constant_pool, TypesOf(prog)), buf, id_stack, s.ifs, s.shape)
  BY MatchParts
<1>5. /\ prog' = prog /\ buf' = buf /\ constant_pool' = constant_pool /\ vf_state' = "VISIT_F_CALL"
      /\ id_stack' = id_stack /\ vi_state' = vi_state /\ assign_depth' = assign_depth
  BY DEF EnterFuncCall
<1>6. Matches(r)'
  BY <1>2, <1>3, <1>4, <1>5, MatchNew
<1>7. QED
  BY <1>2, <1>6

LEMMA MatchEnterAssign ==
  ASSUME TypeOK, OperandsFit, NEW e \in Nodes, e = Cur, NEW s \in Stages, Matches(s), EnterAssign,
         Clear(s.shape), TypedNode(prog, e)
  PROVE  Matches(Inside(e, s))'
<1>1. e.kind \in AssignKinds /\ prog \in Programs /\ Addressed(prog) /\ s.shape \in Shapes
  BY DeclsAddressed, StageParts DEF EnterAssign, TypeOK
<1>2. PICK r \in Stages : /\ r = Inside(e, s) /\ r.ifs = s.ifs /\ r.modes = Deeper(s.modes)
                          /\ e.kind = "assign" => r.shape = s.shape
                          /\ e.kind # "assign" => r.shape = With(s.shape, Ints(1))
  BY <1>1, InsideParts
<1>3. r.modes.vi = s.modes.vi /\ r.modes.vf = s.modes.vf /\ r.modes.depth = (s.modes.depth + 1) % 65536
  BY <1>2, ModeFields DEF Deeper
<1>4. /\ vi_state = s.modes.vi /\ vf_state = s.modes.vf /\ assign_depth = s.modes.depth
      /\ Keeps(Parts(constant_pool, TypesOf(prog)), buf, id_stack, s.ifs, s.shape)
  BY MatchParts
<1>5. /\ prog' = prog /\ constant_pool' = constant_pool /\ vf_state' = vf_state
      /\ id_stack' = id_stack /\ vi_state' = vi_state /\ assign_depth' = (assign_depth + 1) % 65536
  BY DEF EnterAssign
<1>6. Keeps(Parts(constant_pool, TypesOf(prog)), buf', id_stack, s.ifs, r.shape)
  <2>1. CASE e.kind = "assign"
    <3>1. buf' = buf
      BY <2>1 DEF EnterAssign
    <3>2. QED
      BY <1>2, <1>4, <2>1, <3>1
  <2>2. CASE e.kind # "assign"
    <3>1. /\ e.kids[1].kind = "ident"
          /\ Keeps(Parts(constant_pool, TypesOf(prog)), Gen(buf, Op.push_static_int, e.kids[1].n), id_stack, s.ifs,
                   With(s.shape, Ints(1)))
      BY <1>1, <1>4, <2>2, HoldEnter
    <3>2. buf' = Gen(buf, Op.push_static_int, e.kids[1].n)
      BY <2>2, <3>1 DEF EnterAssign, Emit
    <3>3. QED
      BY <1>2, <2>2, <3>1, <3>2
  <2>3. QED
    BY <2>1, <2>2
<1>7. Matches(r)'
  BY <1>2, <1>3, <1>4, <1>5, <1>6, MatchNew
<1>8. QED
  BY <1>2, <1>7

-----------------------------------------------------------------------------
(* The pending calls lead from the stage that the code is at to rest with no *)
(* block and no if statement open.                                           *)

Outset == Rest(Level(0, <<>>))
Onwards(g, td, s) == Leads(Course(g, prog), td, s, Outset)
Ready(g, s) == s \in Stages /\ Onwards(g, todo, s) /\ Matches(s)

LEMMA FirstTaken ==
  ASSUME TypeOK, todo # <<>>, NEW g, NEW s, Ready(g, s)
  PROVE  \E t \in Stages : Takes(g, prog, todo[1], s, t) /\ Onwards(g, Tail(todo), t)
<1>1. todo \in Seq(Pending)
  BY DEF TypeOK
<1>2. PICK t : <<todo[1], s, t>> \in Course(g, prog) /\ Leads(Course(g, prog), Tail(todo), t, Outset)
  BY <1>1, LeadsTail DEF Ready, Onwards
<1>3. t \in Stages /\ Takes(g, prog, todo[1], s, t)
  BY <1>2, CourseIn
<1>4. QED
  BY <1>2, <1>3 DEF Onwards

LEMMA LeftTaken ==
  ASSUME TypeOK, Calling("leave"), NEW g, NEW s, Ready(g, s)
  PROVE  \E t \in Stages : Finishes(g, prog, Cur, s, t) /\ Onwards(g, Tail(todo), t)
<1>1. todo # <<>> /\ todo[1].at = "leave" /\ todo[1].node = Cur
  BY DEF Calling, Cur
<1>2. PICK t \in Stages : Takes(g, prog, todo[1], s, t) /\ Onwards(g, Tail(todo), t)
  BY <1>1, FirstTaken
<1>3. Finishes(g, prog, Cur, s, t)
  BY <1>1, <1>2 DEF Takes
<1>4. QED
  BY <1>2, <1>3

LEMMA ReadyReturn ==
  ASSUME Return, prog' = prog, NEW g, NEW t \in Stages, Onwards(g, Tail(todo), t), Matches(t)'
  PROVE  Ready(g, t)'
BY DEF Ready, Onwards, Return

LEMMA ReadyDescend ==
  ASSUME TypeOK, Calling("enter"), Descend, prog' = prog, NEW g, Sorts(g, prog), NEW s, Ready(g, s), NEW e, e = Cur
  PROVE  /\ e \in Nodes /\ (e.kind \in AssignKinds => Clear(s.shape) /\ TypedNode(prog, e))
         /\ Matches(Inside(e, s))' => Ready(g, Inside(e, s))'
<1>1. todo \in Seq(Pending) /\ e \in Nodes /\ s \in Stages /\ todo # <<>> /\ todo[1].at = "enter" /\ todo[1].node = e
  BY CurIsNode DEF TypeOK, Calling, Cur, Ready
<1>2. PICK t \in Stages : Takes(g, prog, todo[1], s, t) /\ Onwards(g, Tail(todo), t)
  BY <1>1, FirstTaken
<1>3. Begins(g, prog, e, s, t)
  BY <1>1, <1>2 DEF Takes
<1>4. Passed(g, prog, e, s, t) /\ (e.kind \in AssignKinds => Clear(s.shape) /\ TypedNode(prog, e))
  BY <1>1, <1>3, BeginsPassed
<1> DEFINE R == Course(g, prog)
           kids == Children(e)
           c == Call("leave", e)
           i == Inside(e, s)
<1>5. PICK k \in Stages : Leads(R, kids, i, k) /\ <<c, k, t>> \in R
  BY <1>4 DEF Passed
<1>6. kids \in Seq(Pending) /\ c \in Pending
  BY <1>1, ChildrenPending DEF Call, Pending
<1>7. todo' = kids \o <<c>> \o Tail(todo) /\ Leads(R, Tail(todo), t, Outset)
  BY <1>2 DEF Descend, Onwards
<1>8. i \in Stages
  BY <1>1, InsideParts
<1> HIDE DEF R, kids, c, i
<1>9. Leads(R, todo', i, Outset)
  BY <1>1, <1>5, <1>6, <1>7, LeadsDescend
<1>10. Onwards(g, todo, i)'
  BY <1>9 DEF R, Onwards
<1>11. Matches(i)' => Ready(g, i)'
  BY <1>8, <1>10 DEF Ready
<1>12. QED
  BY <1>1, <1>4, <1>11 DEF i

\* While the generator runs, of every sorting and levels of the program.
Somewhere(g) == \E s : Ready(g, s)
Going == outcome = "running" /\ OperandsFit => \A g : WellMade(g, prog) => Somewhere(g)

LEMMA OutsetTyped ==
  /\ Outset \in Stages /\ Outset.shape = Bare(0) /\ Outset.modes = Resting /\ Outset.ifs = <<>>
<1> DEFINE none == <<>>
           u == Level(0, none)
<1>1. none \in Seq(Nat)
  BY EmptySeq
<1>2. Outset = Rest(u) /\ Outset.ifs = Rest(u).ifs
  BY DEF Outset
<1> HIDE DEF none
<1>3. u \in Levels /\ u.blocks = 0 /\ u.ifs = none
  BY <1>1 DEF Level, Levels
<1> HIDE DEF u
<1>4. Outset \in Stages /\ Outset.shape = Bare(0) /\ Outset.modes = Resting /\ Outset.ifs = none
  BY <1>2, <1>3, LevelTyped
<1>5. QED
  BY <1>4 DEF none

\* Before the first statement.
LEMMA OutsetMatches ==
  ASSUME CodegenInit
  PROVE  Matches(Outset)
<1>1. /\ buf.code = <<>> /\ id_stack = <<>>
      /\ vi_state = "VISIT_NORMAL" /\ vf_state = "VISIT_F_NO" /\ assign_depth = 0
  BY DEF CodegenInit
<1>2. At(Outset)
  BY <1>1, OutsetTyped, RestingTyped DEF At
<1>3. Good(buf)
  BY <1>1, BoundariesOfNothing DEF Good
<1>4. Fitted(Laying, buf.code, id_stack, Outset.ifs, Outset.shape)
  BY <1>1, OutsetTyped, FittedNothing
<1>5. QED
  BY <1>2, <1>3, <1>4 DEF Matches, Keeps

LEMMA OutsetLeads ==
  ASSUME CodegenInit, NEW g, WellMade(g, prog)
  PROVE  Onwards(g, todo, Outset)
<1> DEFINE stmts == prog.stmts
           n == Len(stmts)
           R == Course(g, prog)
           sh == [i \in 1 .. n + 1 |-> Rest(g.levels[i])]
<1>1. prog \in Programs /\ todo = [i \in DOMAIN stmts |-> Call("enter", stmts[i])]
  BY DEF CodegenInit
<1>2. stmts \in Seq(Nodes) /\ n \in Nat /\ DOMAIN stmts = 1 .. n
  BY <1>1, NodesAssumption
<1>3. /\ g.levels \in Seq(Levels) /\ Len(g.levels) = n + 1
      /\ g.levels[1] = Level(0, <<>>) /\ g.levels[n + 1] = Level(0, <<>>)
      /\ \A i \in DOMAIN stmts : WellPut(g, prog, stmts[i]) /\ Raises(stmts[i], g.levels[i], g.levels[i + 1])
  BY DEF WellMade
<1> HIDE DEF stmts, n
<1>4. Len(todo) = n
  BY <1>1, <1>2
<1>5. ASSUME NEW i \in 1 .. Len(todo) PROVE <<todo[i], sh[i], sh[i + 1]>> \in R
  <2>1. i \in 1 .. n /\ i \in 1 .. n + 1 /\ i + 1 \in 1 .. n + 1
    BY <1>2, <1>4
  <2>2. stmts[i] \in Nodes /\ todo[i] = Call("enter", stmts[i])
    BY <1>1, <1>2, <2>1
  <2>3. todo[i] \in Pending /\ todo[i].at = "enter" /\ todo[i].node = stmts[i]
    BY <2>2 DEF Call, Pending
  <2>4. PICK u \in Levels : u = g.levels[i]
    BY <1>3, <2>1
  <2>5. PICK v \in Levels : v = g.levels[i + 1]
    BY <1>3, <2>1
  <2>6. sh[i] = Rest(u) /\ sh[i + 1] = Rest(v)
    BY <2>1, <2>4, <2>5
  <2>7. Raises(stmts[i], u, v) /\ WellPut(g, prog, stmts[i])
    BY <1>2, <1>3, <2>1, <2>4, <2>5
  <2>8. Performs(g, prog, stmts[i], Rest(u), Rest(v))
    BY <2>7 DEF Performs
  <2>9. Takes(g, prog, todo[i], Rest(u), Rest(v))
    BY <2>3, <2>8 DEF Takes, Begins
  <2> HIDE DEF sh
  <2>10. QED
    BY <2>3, <2>6, <2>9, LevelTyped, CourseIn
<1>6. sh[1] = Outset /\ sh[Len(todo) + 1] = Outset /\ DOMAIN sh = 1 .. Len(todo) + 1
  <2>1. 1 \in 1 .. n + 1 /\ n + 1 \in 1 .. n + 1
    BY <1>2
  <2>2. QED
    BY <1>3, <1>4, <2>1 DEF Outset
<1> HIDE DEF sh, R
<1>7. Along(R, todo, sh)
  BY <1>5, <1>6 DEF Along
<1>8. QED
  BY <1>6, <1>7 DEF Onwards, Leads, R

LEMMA GoingInit == CodegenInit => Going
<1>1. ASSUME CodegenInit, NEW g, WellMade(g, prog) PROVE Somewhere(g)
  BY <1>1, OutsetLeads, OutsetMatches, OutsetTyped DEF Ready, Somewhere
<1>2. QED
  BY <1>1 DEF Going

\* Numbers are only ever handed out: what fits now did before.
LEMMA FitBefore ==
  ASSUME TypeOK, CodegenNext, OperandsFit'
  PROVE  OperandsFit
<1>1. /\ prog' = prog
      /\ UNCHANGED constant_pool \/ \E c : constant_pool' = Append(constant_pool, c)
  BY MoreOperands
<1>2. UNCHANGED id \/ id' = id + 1
  BY StepGrows DEF OpensIf, ClosesIf
<1>3. PICK k \in Nat : k = UINT16_MAX + 1
  BY UInt16Max
<1>4. LabelsFit
  BY <1>2, <1>3 DEF OperandsFit, LabelsFit, TypeOK
<1>5. Len(constant_pool) <= UINT16_MAX + 1
  <2>1. Len(constant_pool) \in Nat /\ Len(constant_pool') <= k
    BY <1>3 DEF TypeOK, OperandsFit
  <2>2. Len(constant_pool') = Len(constant_pool) \/ Len(constant_pool') = Len(constant_pool) + 1
    BY <1>1, AppendProperties DEF TypeOK
  <2>3. QED
    BY <1>3, <2>1, <2>2
<1>6. QED
  BY <1>1, <1>4, <1>5 DEF OperandsFit

EntersNode  == EnterOther \/ EnterAssign \/ EnterFuncCall
LeavesNode  == \/ LeaveLiteral \/ LeaveIdentNormal \/ LeaveIdentAssign \/ LeaveBinary \/ LeaveUnary \/ LeaveIncDec
               \/ LeaveAssign \/ LeaveFuncCall
               \/ LeaveExprStmt \/ LeaveDeclStmt \/ LeaveBlockOp \/ LeaveIfEnter \/ LeaveIfLeave

LEMMA ReadyEnters ==
  ASSUME TypeOK, OperandsFit, EntersNode, prog' = prog, NEW g, Sorts(g, prog), NEW s, Ready(g, s)
  PROVE  Somewhere(g)'
<1>1. Calling("enter") /\ Descend
  BY DEF EntersNode, EnterOther, EnterAssign, EnterFuncCall
<1>2. PICK e : e = Cur
  OBVIOUS
<1>3. /\ e \in Nodes /\ (e.kind \in AssignKinds => Clear(s.shape) /\ TypedNode(prog, e))
      /\ Matches(Inside(e, s))' => Ready(g, Inside(e, s))'
  BY <1>1, <1>2, ReadyDescend
<1>4. s \in Stages /\ Matches(s)
  BY DEF Ready
<1>5. Matches(Inside(e, s))'
  <2>1. CASE EnterOther
    BY <1>2, <1>4, <2>1, MatchEnterOther
  <2>2. CASE EnterFuncCall
    BY <1>2, <1>4, <2>2, MatchEnterFuncCall
  <2>3. CASE EnterAssign
    <3>1. e.kind \in AssignKinds
      BY <1>2, <2>3 DEF EnterAssign
    <3>2. QED
      BY <1>2, <1>3, <1>4, <2>3, <3>1, MatchEnterAssign
  <2>4. QED
    BY <2>1, <2>2, <2>3 DEF EntersNode
<1>6. QED
  BY <1>3, <1>5 DEF Somewhere

LEMMA ReadyNotify ==
  ASSUME TypeOK, NotifyAssign, outcome' = "running", NEW g, NEW s, Ready(g, s)
  PROVE  Somewhere(g)'
<1>1. todo # <<>> /\ todo[1].at = "notify" /\ todo[1].node = Cur /\ s \in Stages /\ Matches(s)
  BY DEF NotifyAssign, Calling, Cur, Ready
<1>2. PICK t \in Stages : Takes(g, prog, todo[1], s, t) /\ Onwards(g, Tail(todo), t)
  BY <1>1, FirstTaken
<1>3. Notifies(prog, Cur, s, t)
  BY <1>1, <1>2 DEF Takes
<1>4. Matches(t)'
  BY <1>1, <1>3, MatchNotify
<1>5. Return /\ prog' = prog
  BY DEF NotifyAssign, Exit
<1>6. QED
  BY <1>2, <1>4, <1>5, ReadyReturn DEF Somewhere

\* What every handler that is left has in common.
LEMMA LeavesReturn ==
  ASSUME LeavesNode, outcome' = "running"
  PROVE  Calling("leave") /\ Return
<1>1. CASE LeaveLiteral \/ LeaveIdentNormal \/ LeaveIdentAssign \/ LeaveBinary \/ LeaveUnary \/ LeaveIncDec
  BY <1>1 DEF LeaveLiteral, LeaveIdentNormal, LeaveIdentAssign, LeaveBinary, LeaveUnary, LeaveIncDec, EmitAndReturn, Exit
<1>2. CASE LeaveAssign \/ LeaveFuncCall \/ LeaveExprStmt \/ LeaveDeclStmt \/ LeaveBlockOp \/ LeaveIfEnter \/ LeaveIfLeave
  BY <1>2 DEF LeaveAssign, LeaveFuncCall, LeaveExprStmt, LeaveDeclStmt, LeaveBlockOp, LeaveIfEnter, LeaveIfLeave,
              EmitAndReturn, Exit
<1>3. QED
  BY <1>1, <1>2 DEF LeavesNode

LEMMA ReadyLeaves ==
  ASSUME TypeOK, LabelsFresh, PairingInv, OperandsFit, OperandsFit', LeavesNode, outcome' = "running", prog' = prog,
         NEW g, NEW s, Ready(g, s)
  PROVE  Somewhere(g)'
<1>1. Calling("leave") /\ Return /\ s \in Stages /\ Matches(s)
  BY LeavesReturn DEF Ready
<1>2. PICK t \in Stages : Finishes(g, prog, Cur, s, t) /\ Onwards(g, Tail(todo), t)
  BY <1>1, LeftTaken
<1>3. CASE LeaveLiteral
  BY <1>1, <1>2, <1>3, MatchLiteral, ReadyReturn DEF Somewhere
<1>4. CASE LeaveIdentNormal
  BY <1>1, <1>2, <1>4, MatchIdentNormal, ReadyReturn DEF Somewhere
<1>5. CASE LeaveIdentAssign
  BY <1>1, <1>2, <1>5, MatchIdentAssign, ReadyReturn DEF Somewhere
<1>6. CASE LeaveBinary
  BY <1>1, <1>2, <1>6, MatchBinary, ReadyReturn DEF Somewhere
<1>7. CASE LeaveUnary
  BY <1>1, <1>2, <1>7, MatchUnary, ReadyReturn DEF Somewhere
<1>8. CASE LeaveIncDec
  BY <1>1, <1>2, <1>8, MatchIncDec, ReadyReturn DEF Somewhere
<1>9. CASE LeaveAssign
  BY <1>1, <1>2, <1>9, MatchLeaveAssign, ReadyReturn DEF Somewhere
<1>10. CASE LeaveFuncCall
  BY <1>1, <1>2, <1>10, MatchLeaveFuncCall, ReadyReturn DEF Somewhere
<1>11. CASE LeaveExprStmt
  BY <1>1, <1>2, <1>11, MatchLeaveExprStmt, ReadyReturn DEF Somewhere
<1>12. CASE LeaveDeclStmt
  BY <1>1, <1>2, <1>12, MatchLeaveDeclStmt, ReadyReturn DEF Somewhere
<1>13. CASE LeaveBlockOp
  BY <1>1, <1>2, <1>13, MatchLeaveBlockOp, ReadyReturn DEF Somewhere
<1>14. CASE LeaveIfEnter
  BY <1>1, <1>2, <1>14, MatchLeaveIfEnter, ReadyReturn DEF Somewhere
<1>15. CASE LeaveIfLeave
  BY <1>1, <1>2, <1>15, MatchLeaveIfLeave, ReadyReturn DEF Somewhere
<1>16. QED
  BY <1>3, <1>4, <1>5, <1>6, <1>7, <1>8, <1>9, <1>10, <1>11, <1>12, <1>13, <1>14, <1>15 DEF LeavesNode

LEMMA NextRuns ==
  ASSUME CodegenNext
  PROVE  outcome = "running" /\ (outcome' = "running" => EntersNode \/ NotifyAssign \/ LeavesNode)
<1>1. LeaveFunctionAssign => outcome' # "running"
  BY DEF LeaveFunctionAssign, Exit
<1>2. CASE EnterOther \/ EnterAssign \/ EnterFuncCall \/ NotifyAssign \/ LeaveFunctionAssign
  BY <1>2, <1>1 DEF EnterOther, EnterAssign, EnterFuncCall, NotifyAssign, LeaveFunctionAssign, Calling, EntersNode
<1>3. CASE LeaveLiteral \/ LeaveIdentNormal \/ LeaveIdentAssign \/ LeaveBinary \/ LeaveUnary \/ LeaveIncDec
  BY <1>3 DEF LeaveLiteral, LeaveIdentNormal, LeaveIdentAssign, LeaveBinary, LeaveUnary, LeaveIncDec, Calling, LeavesNode
<1>4. CASE LeaveAssign \/ LeaveFuncCall \/ LeaveExprStmt \/ LeaveDeclStmt \/ LeaveBlockOp \/ LeaveIfEnter \/ LeaveIfLeave
  BY <1>4 DEF LeaveAssign, LeaveFuncCall, LeaveExprStmt, LeaveDeclStmt, LeaveBlockOp, LeaveIfEnter, LeaveIfLeave, Calling,
              LeavesNode
<1>5. QED
  BY <1>2, <1>3, <1>4 DEF CodegenNext

LEMMA SomewhereSame ==
  ASSUME UNCHANGED codegenVars, NEW g, Somewhere(g)
  PROVE  Somewhere(g)'
<1>1. PICK s : Ready(g, s)
  BY DEF Somewhere
<1>2. Matches(s)'
  BY <1>1 DEF Ready, Matches, At, Laying, codegenVars, handlerVars
<1>3. Ready(g, s)'
  BY <1>1, <1>2 DEF Ready, Onwards, codegenVars
<1>4. QED
  BY <1>3 DEF Somewhere

LEMMA GoingNext ==
  ASSUME CodegenInv, PairingInv, Going, [CodegenNext]_codegenVars
  PROVE  Going'
<1>1. ASSUME outcome' = "running", OperandsFit', NEW g, WellMade(g, prog')
      PROVE  Somewhere(g)'
  <2>1. TypeOK /\ LabelsFresh
    BY DEF CodegenInv
  <2>2. CASE UNCHANGED codegenVars
    <3>1. outcome' = outcome /\ prog' = prog /\ constant_pool' = constant_pool /\ id' = id
      BY <2>2 DEF codegenVars, handlerVars
    <3>2. OperandsFit
      BY <1>1, <3>1 DEF OperandsFit, LabelsFit
    <3>3. Somewhere(g)
      BY <1>1, <3>1, <3>2 DEF Going
    <3>4. QED
      BY <2>2, <3>3, SomewhereSame
  <2>3. CASE CodegenNext
    <3>1. OperandsFit /\ prog' = prog /\ outcome = "running"
      BY <1>1, <2>1, <2>3, FitBefore, MoreOperands, NextRuns
    <3>2. WellMade(g, prog) /\ Sorts(g, prog) /\ Somewhere(g)
      BY <1>1, <3>1 DEF Going, WellMade
    <3>3. PICK s : Ready(g, s)
      BY <3>2 DEF Somewhere
    <3>4. CASE EntersNode
      BY <2>1, <3>1, <3>2, <3>3, <3>4, ReadyEnters
    <3>5. CASE NotifyAssign
      BY <1>1, <2>1, <3>3, <3>5, ReadyNotify
    <3>6. CASE LeavesNode
      BY <1>1, <2>1, <3>1, <3>3, <3>6, ReadyLeaves
    <3>7. QED
      BY <1>1, <2>3, <3>4, <3>5, <3>6, NextRuns
  <2>4. QED
    BY <2>2, <2>3
<1>2. QED
  BY <1>1 DEF Going

-----------------------------------------------------------------------------
(* The finished code, and the machine that runs it.                          *)

\* When no call is pending no block and no if statement is open, ...
LEMMA EndFitted ==
  ASSUME TypeOK, Generated, NEW g, Somewhere(g)
  PROVE  /\ Len(id_stack) = 0
         /\ \E T : Laid(T, Laying, buf.code) /\ T[Len(buf.code)] = Bare(0) /\ Meets(T, buf.code, id_stack, <<>>)
<1>1. PICK s : Ready(g, s)
  BY DEF Somewhere
<1>2. Leads(Course(g, prog), <<>>, s, Outset) /\ Matches(s)
  BY <1>1 DEF Ready, Onwards, Generated
<1>3. s = Outset
  BY <1>2, LeadsNowhere
<1> DEFINE none == <<>>
<1>4. Outset.shape = Bare(0) /\ Outset.ifs = none /\ Len(none) = 0
  BY OutsetTyped
<1> HIDE DEF none
<1>5. Fitted(Laying, buf.code, id_stack, none, Bare(0))
  BY <1>2, <1>3, <1>4 DEF Matches, Keeps
<1>6. PICK T : Laid(T, Laying, buf.code) /\ T[Len(buf.code)] = Bare(0) /\ Meets(T, buf.code, id_stack, none)
  BY <1>5 DEF Fitted
<1>7. Len(id_stack) = 0
  BY <1>4, <1>6 DEF Meets
<1>8. QED
  BY <1>6, <1>7 DEF none

\* ... and every goto has found its label.
LEMMA EndPaired ==
  ASSUME PairingInv, LabelsFit, Len(id_stack) = 0, NEW g \in Gotos(buf.code)
  PROVE  \E l \in Labels(buf.code) : g < l /\ Operand(buf.code, g) = Operand(buf.code, l)
<1> DEFINE G == Gotos(buf.code)
           L == Labels(buf.code)
           t == Targets(buf.code)
<1>1. PairedBy(G, L, t, id_stack, id)
  BY DEF PairingInv, Paired
<1>2. \A k \in G \cup L : t[k] = Operand(buf.code, k)
  BY DEF Targets
<1> HIDE DEF G, L, t
<1>3. g \in G
  BY DEF G
<1>4. PICK l \in L : g < l /\ t[l] = t[g]
  BY <1>1, <1>3 DEF PairedBy
<1>5. QED
  BY <1>2, <1>3, <1>4 DEF G, L

LEMMA EndShaped ==
  ASSUME CodegenInv, PairingInv, Going, Generated, NEW g, WellMade(g, prog), OperandsFit, Countable(buf.code)
  PROVE  Shaped(Executable)
<1>1. TypeOK /\ LabelsFit /\ Readable(buf.code) /\ Somewhere(g)
  BY DEF CodegenInv, OperandsFit, PairingInv, Going, Generated
<1>2. Len(id_stack) = 0
  BY <1>1, EndFitted
<1>3. PICK T : Laid(T, Laying, buf.code) /\ T[Len(buf.code)] = Bare(0) /\ Meets(T, buf.code, id_stack, <<>>)
  BY <1>1, EndFitted
<1> DEFINE img == Executable
           code == buf.code
<1>4. /\ img.code = code /\ img.stack_size = CountStackSize(code) /\ img.pt_stack_size = CountPointerStackSize(code)
      /\ img.types = Laying.types /\ img.constant_pool = Laying.constant_pool
      /\ img.constant_pool = constant_pool
  BY DEF Executable, Laying, Parts, TypesOf
<1>5. code \in Seq(Byte) /\ Whole(code) /\ Len(constant_pool) \in Nat
  BY <1>1 DEF Readable, TypeOK
<1> HIDE DEF img
<1>6. Laid(T, img, code)
  <2>1. PICK lay : lay = Laying
    OBVIOUS
  <2>2. /\ Laid(T, lay, code) /\ img.types = lay.types
        /\ Len(lay.constant_pool) \in Nat /\ Len(img.constant_pool) \in Nat
        /\ Len(lay.constant_pool) <= Len(img.constant_pool)
        /\ \A i \in 1 .. Len(lay.constant_pool) : img.constant_pool[i] = lay.constant_pool[i]
    <3>1. img.constant_pool = lay.constant_pool /\ Len(img.constant_pool) \in Nat
      BY <1>4, <1>5, <2>1
    <3>2. Laid(T, lay, code) /\ img.types = lay.types
      BY <1>3, <1>4, <2>1
    <3>3. Len(lay.constant_pool) \in Nat /\ Len(lay.constant_pool) <= Len(img.constant_pool)
      BY <3>1
    <3>4. QED
      BY <3>1, <3>2, <3>3
  <2> HIDE DEF code
  <2>3. QED
    BY <1>5, <2>2, LaidMore
<1>7. ASSUME NEW i \in InstrAt(code, Op.goto)
      PROVE  /\ \A l \in InstrAt(code, Op.label) :
                  i < l /\ Operand(code, i) = Operand(code, l) => T[l] = T[Behind(code, i)]
             /\ \E l \in InstrAt(code, Op.label) : i < l /\ Operand(code, i) = Operand(code, l)
  <2>1. i \in Gotos(code) /\ Labels(code) = InstrAt(code, Op.label)
    BY DEF Gotos, Labels
  <2>2. \A l \in Labels(code) : i < l /\ Operand(code, i) = Operand(code, l) => T[l] = T[Behind(code, i)]
    BY <1>3, <2>1 DEF Meets
  <2>3. \E l \in Labels(code) : i < l /\ Operand(code, i) = Operand(code, l)
    BY <1>1, <1>2, <2>1, EndPaired
  <2>4. QED
    BY <2>1, <2>2, <2>3
<1> HIDE DEF code
<1>8. Readable(img.code) /\ Countable(img.code)
  BY <1>1, <1>4 DEF code
<1>9. Shaped(img)
  BY <1>3, <1>4, <1>6, <1>7, <1>8, LaidShaped DEF code
<1>10. QED
  BY <1>9 DEF img

\* The program is of the class, and its code small enough to be written as it is.
WellGenerated == (\E g : WellMade(g, prog)) /\ OperandsFit /\ Countable(buf.code)

LEMMA EndKept ==
  ASSUME CsuaInv, Going, Generated, WellGenerated
  PROVE  Shaped(Executable)
<1>1. CodegenInv /\ PairingInv /\ OperandsFit /\ Countable(buf.code)
  BY DEF CsuaInv, WellGenerated
<1>2. PICK g : WellMade(g, prog)
  BY DEF WellGenerated
<1>3. QED
  BY <1>1, <1>2, EndShaped

LEMMA GoingStep ==
  ASSUME CsuaInv, Going, [CsuaNext]_csuaVars
  PROVE  Going'
<1>1. CodegenInv /\ PairingInv
  BY DEF CsuaInv
<1>2. [CodegenNext]_codegenVars
  BY DEF CsuaNext, Compile, RunExecutable, Execute, Ended, csuaVars
<1>3. QED
  BY <1>1, <1>2, GoingNext

\* The handlers of the code generator (codegenvisitor.c:59-865) leave every
\* type, every operand and every level of the stack right, in every program that
\* WellMade describes, whichever of its branches are taken, and the sizes that
\* serialize counts (codegentest.c:143-200) are enough for the machine.
THEOREM WellMadeIsShaped == CsuaSpec => [](WellGenerated => GeneratedCodeShaped)
<1>1. CsuaInit => CsuaInv /\ Going
  BY CsuaInitOK, GoingInit DEF CsuaInit
<1>2. CsuaInv /\ Going /\ [CsuaNext]_csuaVars => CsuaInv' /\ Going'
  BY CsuaNextOK, GoingStep
<1>3. CsuaInv /\ Going => (WellGenerated => GeneratedCodeShaped)
  BY EndKept DEF GeneratedCodeShaped
<1>4. QED
  BY <1>1, <1>2, <1>3, PTL DEF CsuaSpec

LEMMA FewFit ==
  ASSUME TypeOK, FewOperands, FewNatives
  PROVE  OperandsFit
<1>1. PICK k \in Nat : k = UINT16_MAX + 1 /\ k > 49
  BY DEF UINT16_MAX
<1>2. Len(constant_pool) <= 49 /\ id <= 49 /\ Len(prog.decls) <= 49
  BY LabelByte DEF FewOperands
<1>3. Len(constant_pool) \in Nat /\ id \in Nat /\ Len(prog.decls) \in Nat
  BY NodesAssumption DEF TypeOK
<1>4. Len(constant_pool) <= k /\ id <= k /\ Len(prog.decls) <= k
  BY <1>1, <1>2, <1>3
<1>5. QED
  BY <1>1, <1>4 DEF OperandsFit, LabelsFit

\* So the machine (svm.c:517-834), which looks at no type and no bound, runs such
\* a program without leaving its arrays, whichever way the conditions turn out:
\* variables and slots hold what their types and tags say, both stacks are empty
\* at the end, and it gives up only while it looks for a label.
THEOREM WellMadeRunsWell ==
  CsuaSpec /\ []~ZeroDivision =>
    [](Generated /\ (\E g : WellMade(g, prog)) /\ FewOperands /\ FewNatives /\ Countable(buf.code) =>
         /\ NeverUndefined /\ StacksEmptyAtEnd /\ GlobalsTyped /\ TagsMatchValues
         /\ buf.code # <<>> => ExitsOnlySkipping)
<1>1. CsuaInit => CsuaInv /\ Going
  BY CsuaInitOK, GoingInit DEF CsuaInit
<1>2. CsuaInv /\ Going /\ [CsuaNext]_csuaVars => CsuaInv' /\ Going'
  BY CsuaNextOK, GoingStep
<1>3. CsuaInv /\ Going =>
        (Generated /\ (\E g : WellMade(g, prog)) /\ FewOperands /\ FewNatives /\ Countable(buf.code) =>
           Generated /\ FewOperands /\ Shaped(Executable))
  BY EndKept, FewFit DEF WellGenerated, CsuaInv, CodegenInv
<1>4. QED
  BY <1>1, <1>2, <1>3, ShapedCodeRunsWell, PTL DEF CsuaSpec

=============================================================================
