---------------------- MODULE BytecodeInterpreterProofs ----------------------
(***************************************************************************)
(* The interpreter is correct for every predicate, of any length, over any *)
(* columns and rows, in which no null test is the right operand of an      *)
(* infix And or Or (FoldPending is not called then, and it is not).        *)
(*                                                                         *)
(* The argument is that of a compiler: for each row there is a run of the  *)
(* calls made so far, and the machine at its end represents the formula    *)
(* written so far.  A run is a sequence of machines, so that nothing has   *)
(* to be computed by recursion: a builder call makes every run longer by   *)
(* one, and EvaluateRow walks along the run of its row.                    *)
(***************************************************************************)
EXTENDS BytecodeInterpreter, SequenceTheorems, TLAPS

Machine == [stack : Seq(BOOLEAN), pendingAnd : BOOLEAN, pendingOr : BOOLEAN]

Formula == [operands : Seq(SUBSET Rows), operator : {"none", "And", "Or"}]

\* A stack of values and a stack of operands agree on row r.
Agree(s, q, r) ==
    /\ s \in Seq(BOOLEAN) /\ q \in Seq(SUBSET Rows) /\ Len(s) = Len(q)
    /\ \A k \in 1 .. Len(s) : s[k] <=> r \in q[k]

\* The machine m holds, for row r, the values of the formula's operands, and the
\* operator between two of them as a pending flag.
Represents(m, f, r) ==
    /\ m \in Machine /\ f \in Formula
    /\ Agree(m.stack, f.operands, r)
    /\ m.pendingAnd <=> f.operator = "And"
    /\ m.pendingOr <=> f.operator = "Or"
-----------------------------------------------------------------------------
\* t is s with its topmost two values replaced by b.
TopReplaced(t, S, s, b) ==
    /\ t \in Seq(S) /\ Len(t) = Len(s) - 1
    /\ \A i \in 1 .. Len(s) - 2 : t[i] = s[i]
    /\ t[Len(s) - 1] = b

\* Popping two values and pushing one leaves the values below alone.
LEMMA PopPushProperties ==
    ASSUME NEW S, NEW s \in Seq(S), Len(s) >= 2, NEW b \in S
    PROVE  TopReplaced(PopPush(s, b), S, s, b)
<1> DEFINE n == Len(s) - 2
           t == SubSeq(s, 1, n)
<1>1. Len(s) \in Nat /\ n \in Nat
  BY LenProperties
<1>2. t \in Seq(S) /\ Len(t) = n /\ \A i \in 1 .. n : t[i] = s[i]
  <2>1. \A i \in 1 .. n : s[i] \in S
    BY <1>1, ElementOfSeq
  <2> HIDE DEF n
  <2>2. /\ t \in Seq(S) /\ Len(t) = IF 1 <= n THEN n - 1 + 1 ELSE 0
        /\ \A i \in 1 .. n - 1 + 1 : t[i] = s[1 + i - 1]
    BY <1>1, <2>1, SubSeqProperties
  <2> QED
    BY <1>1, <2>2
<1>3. PopPush(s, b) = Append(t, b)
  BY DEF PopPush
<1> HIDE DEF t
<1>4. /\ Append(t, b) \in Seq(S) /\ Len(Append(t, b)) = Len(t) + 1
      /\ \A i \in 1 .. Len(t) : Append(t, b)[i] = t[i]
      /\ Append(t, b)[Len(t) + 1] = b
  BY <1>2, AppendProperties
<1> QED
  BY <1>1, <1>2, <1>3, <1>4 DEF TopReplaced

\* A call that tests a column pushes whether the row is among those it denotes.
LEMMA ExecuteTerm ==
    ASSUME NEW term \in Terms, NEW r \in Rows, NEW m
    PROVE  /\ Denotes(term) \in SUBSET Rows
           /\ term.op \in ComparisonOps \/ term.op \in NullOps
           /\ \E b \in BOOLEAN :
                 /\ b <=> r \in Denotes(term)
                 /\ IsComparison(term) => Execute(m, term, r) = FoldPending(Push(m, b))
                 /\ term.op \in NullOps => Execute(m, term, r) = Push(m, b)
<1>1. term.op \in BuilderOps \/ term.op \in NullOps
  BY InterpreterAssumption
<1>2. IsComparison(term) <=> term.op \in BuilderOps
  BY <1>1 DEF IsComparison, ComparisonOps, BuilderOps, NullOps
<1>3. Denotes(term) \in SUBSET Rows
  BY DEF Denotes
<1>4. CASE term.op \in BuilderOps
  <2>a. /\ IsComparison(term) /\ term.op # "IsNull" /\ term.op # "IsNotNull"
        /\ term.op # "And" /\ term.op # "Or" /\ term.op # "Not"
    BY <1>2, <1>4 DEF BuilderOps
  <2>1. r \in Denotes(term) <=> Compare(term.op, r[term.col], term.val)
    BY <2>a, Zenon DEF Denotes
  <2>2. Execute(m, term, r) = FoldPending(Push(m, Compare(term.op, r[term.col], term.val)))
    BY <2>a, Zenon DEF Execute
  <2>3. Compare(term.op, r[term.col], term.val) \in BOOLEAN
    <3>1. term.col \in Columns /\ term.val \in Int
      BY <1>4, InterpreterAssumption DEF BuilderOps, NullOps
    <3>2. r[term.col] \in Int
      BY <3>1, InterpreterAssumption DEF Rows
    <3>3. \A x, y \in Int : /\ Compare("Equal", x, y) \in BOOLEAN
                             /\ Compare("NotEqual", x, y) \in BOOLEAN
                             /\ Compare("LessThan", x, y) \in BOOLEAN
                             /\ Compare("GreaterThan", x, y) \in BOOLEAN
      BY DEF Compare
    <3> QED
      BY <1>4, <3>1, <3>2, <3>3 DEF BuilderOps
  <2>4. ~(term.op \in NullOps)
    BY <1>4 DEF NullOps, BuilderOps
  <2>5. term.op \in ComparisonOps
    BY <1>4 DEF ComparisonOps, BuilderOps
  <2> QED
    BY <1>3, <2>1, <2>2, <2>3, <2>4, <2>5, Zenon
<1>5. CASE term.op = "IsNull"
  <2>1. ~IsComparison(term) /\ term.op \in NullOps
    BY <1>5 DEF IsComparison, ComparisonOps, NullOps
  <2>2. r \in Denotes(term) <=> r[term.col] = 0
    BY <1>5, <2>1 DEF Denotes
  <2>3. Execute(m, term, r) = Push(m, r[term.col] = 0)
    BY <1>5, <2>1 DEF Execute
  <2> QED
    BY <1>3, <2>1, <2>2, <2>3, Zenon
<1>6. CASE term.op = "IsNotNull"
  <2>1. ~IsComparison(term) /\ term.op \in NullOps /\ term.op # "IsNull"
    BY <1>6 DEF IsComparison, ComparisonOps, NullOps
  <2>2. r \in Denotes(term) <=> r[term.col] # 0
    BY <1>6, <2>1 DEF Denotes
  <2>3. Execute(m, term, r) = Push(m, r[term.col] # 0)
    BY <1>6, <2>1 DEF Execute
  <2> QED
    BY <1>3, <2>1, <2>2, <2>3, Zenon
<1> QED
  BY <1>1, <1>4, <1>5, <1>6 DEF NullOps

\* A value and an operand pushed that agree on the row.
LEMMA AppendAgrees ==
    ASSUME NEW s, NEW q, NEW r \in Rows, Agree(s, q, r),
           NEW b \in BOOLEAN, NEW D \in SUBSET Rows, b <=> r \in D
    PROVE  Agree(Append(s, b), Append(q, D), r)
<1> DEFINE B == BOOLEAN
           R == SUBSET Rows
<1>1. s \in Seq(B) /\ q \in Seq(R) /\ Len(s) = Len(q) /\ Len(s) \in Nat /\ b \in B /\ D \in R
  BY LenProperties DEF Agree
<1>2. \A k \in 1 .. Len(s) : s[k] <=> r \in q[k]
  BY DEF Agree
<1> HIDE DEF B, R
<1>5. /\ Append(s, b) \in Seq(B) /\ Len(Append(s, b)) = Len(s) + 1
      /\ \A k \in 1 .. Len(s) : Append(s, b)[k] = s[k]
      /\ Append(s, b)[Len(s) + 1] = b
  BY <1>1, AppendProperties
<1>6. /\ Append(q, D) \in Seq(R) /\ Len(Append(q, D)) = Len(q) + 1
      /\ \A k \in 1 .. Len(q) : Append(q, D)[k] = q[k]
      /\ Append(q, D)[Len(q) + 1] = D
  BY <1>1, AppendProperties
<1>7. ASSUME NEW k \in 1 .. Len(Append(s, b))
      PROVE  Append(s, b)[k] <=> r \in Append(q, D)[k]
  <2>1. k \in 1 .. Len(s) \/ k = Len(s) + 1
    BY <1>1, <1>5
  <2>2. CASE k \in 1 .. Len(s)
    <3>1. Append(s, b)[k] = s[k] /\ Append(q, D)[k] = q[k]
      BY <1>1, <1>5, <1>6, <2>2
    <3> QED
      BY <1>2, <2>2, <3>1, Zenon
  <2>3. CASE k = Len(s) + 1
    <3>1. Append(s, b)[k] = b /\ Append(q, D)[k] = D
      BY <1>1, <1>5, <1>6, <2>3
    <3> QED
      BY <3>1, Zenon
  <2> QED
    BY <2>1, <2>2, <2>3
<1>8. /\ Append(s, b) \in Seq(BOOLEAN) /\ Append(q, D) \in Seq(SUBSET Rows)
  BY <1>5, <1>6 DEF B, R
<1>9. Len(Append(s, b)) = Len(Append(q, D))
  BY <1>1, <1>5, <1>6
<1> QED
  BY <1>7, <1>8, <1>9 DEF Agree

\* Pushing a value with no operator pending writes one more operand.
LEMMA PushRepresents ==
    ASSUME NEW m, NEW f, NEW r \in Rows, Represents(m, f, r), f.operator = "none",
           NEW D \in SUBSET Rows, NEW b \in BOOLEAN, b <=> r \in D
    PROVE  /\ Represents(Push(m, b), [f EXCEPT !.operands = Append(@, D)], r)
           /\ FoldPending(Push(m, b)) = Push(m, b)
<1> DEFINE s == Append(m.stack, b)
           q == Append(f.operands, D)
           g == [f EXCEPT !.operands = Append(@, D)]
<1>1. Agree(s, q, r)
  BY AppendAgrees DEF Represents, Machine, Formula
<1>2. ~m.pendingAnd /\ ~m.pendingOr /\ m.pendingAnd \in BOOLEAN /\ m.pendingOr \in BOOLEAN
  BY DEF Represents, Machine
<1>3. Push(m, b) = [stack |-> s, pendingAnd |-> m.pendingAnd, pendingOr |-> m.pendingOr]
  BY DEF Push, Represents, Machine
<1>4. g = [operands |-> q, operator |-> "none"]
  BY DEF Represents, Formula
<1> HIDE DEF s, q, g
<1>5. Push(m, b) \in Machine /\ g \in Formula
  BY <1>1, <1>2, <1>3, <1>4 DEF Machine, Formula, Agree
<1>6. /\ Push(m, b).stack = s /\ Push(m, b).pendingAnd = m.pendingAnd
      /\ Push(m, b).pendingOr = m.pendingOr /\ g.operands = q /\ g.operator = "none"
  BY <1>3, <1>4
<1>7. Represents(Push(m, b), g, r)
  BY <1>1, <1>2, <1>5, <1>6, Zenon DEF Represents
<1>8. FoldPending(Push(m, b)) = Push(m, b)
  BY <1>2, <1>6, Zenon DEF FoldPending
<1> QED
  BY <1>7, <1>8 DEF g

\* The topmost two values replaced by one, and the topmost two operands likewise.
LEMMA JoinRepresents ==
    ASSUME NEW s, NEW q, NEW r \in Rows, Agree(s, q, r), Len(s) >= 2,
           NEW b \in BOOLEAN, NEW D \in SUBSET Rows, b <=> r \in D
    PROVE  Agree(PopPush(s, b), PopPush(q, D), r)
<1> DEFINE B == BOOLEAN
           R == SUBSET Rows
<1>1. s \in Seq(B) /\ q \in Seq(R) /\ b \in B /\ D \in R /\ Len(s) = Len(q)
  BY DEF Agree
<1>a. \A k \in 1 .. Len(s) : s[k] <=> r \in q[k]
  BY DEF Agree
<1> HIDE DEF B, R
<1>2. Len(s) \in Nat /\ Len(q) >= 2
  BY <1>1, LenProperties
<1>3. TopReplaced(PopPush(s, b), B, s, b)
  BY <1>1, PopPushProperties, Zenon
<1>4. TopReplaced(PopPush(q, D), R, q, D)
  BY <1>1, <1>2, PopPushProperties, Zenon
<1>5. ASSUME NEW k \in 1 .. Len(PopPush(s, b))
      PROVE  PopPush(s, b)[k] <=> r \in PopPush(q, D)[k]
  <2>1. k \in 1 .. Len(s) - 2 \/ k = Len(s) - 1
    BY <1>2, <1>3 DEF TopReplaced
  <2>2. CASE k \in 1 .. Len(s) - 2
    <3>1. PopPush(s, b)[k] = s[k] /\ PopPush(q, D)[k] = q[k] /\ k \in 1 .. Len(s)
      BY <1>1, <1>2, <1>3, <1>4, <2>2 DEF TopReplaced
    <3>2. s[k] <=> r \in q[k]
      BY <1>a, <3>1, Zenon
    <3> QED
      BY <3>1, <3>2, Zenon
  <2>3. CASE k = Len(s) - 1
    <3>1. PopPush(s, b)[k] = b /\ PopPush(q, D)[k] = D
      BY <1>1, <1>2, <1>3, <1>4, <2>3 DEF TopReplaced
    <3> QED
      BY <3>1, Zenon
  <2> QED
    BY <2>1, <2>2, <2>3
<1>6. PopPush(s, b) \in Seq(BOOLEAN) /\ PopPush(q, D) \in Seq(SUBSET Rows)
  BY <1>3, <1>4 DEF B, R, TopReplaced
<1>7. Len(PopPush(s, b)) = Len(PopPush(q, D))
  BY <1>1, <1>3, <1>4 DEF TopReplaced
<1> QED
  BY <1>5, <1>6, <1>7 DEF Agree

\* What And and Or make of the topmost two operands.
LEMMA JoinTop ==
    ASSUME NEW s, NEW q, NEW r \in Rows, Agree(s, q, r), Len(s) >= 2,
           NEW op \in {"And", "Or"}, NEW t,
           op = "And" => t = AndTop(s), op = "Or" => t = OrTop(s)
    PROVE  Agree(t, PopPush(q, Join(op, q[Len(q) - 1], q[Len(q)])), r)
<1> DEFINE n == Len(s)
           D == Join(op, q[Len(q) - 1], q[Len(q)])
<1>a. s \in Seq(BOOLEAN) /\ q \in Seq(SUBSET Rows) /\ Len(s) = Len(q)
  BY DEF Agree
<1>b. \A k \in 1 .. Len(s) : s[k] <=> r \in q[k]
  BY DEF Agree
<1>1. n \in Nat /\ n - 1 \in 1 .. n /\ n \in 1 .. n
  BY <1>a, LenProperties
<1>2. q[n - 1] \in SUBSET Rows /\ q[n] \in SUBSET Rows
  BY <1>1, <1>a, ElementOfSeq
<1>4. (s[n - 1] <=> r \in q[n - 1]) /\ (s[n] <=> r \in q[n])
  BY <1>1, <1>b, Zenon
<1>5. D = Join(op, q[n - 1], q[n])
  BY <1>a, Zenon
<1> HIDE DEF n, D
<1>6. D \in SUBSET Rows
  BY <1>2, <1>5 DEF Join
<1>7. CASE op = "And"
  <2>1. t = PopPush(s, s[n - 1] /\ s[n])
    BY <1>7, Zenon DEF AndTop, n
  <2>2. D = q[n - 1] \cap q[n]
    BY <1>5, <1>7, Zenon DEF Join
  <2> DEFINE b == s[n - 1] /\ s[n]
  <2>3. b \in BOOLEAN /\ (b <=> r \in D) /\ t = PopPush(s, b)
    BY <1>4, <2>1, <2>2, Zenon
  <2> HIDE DEF b
  <2> QED
    BY <1>6, <2>3, JoinRepresents, Zenon DEF D
<1>8. CASE op = "Or"
  <2>1. t = PopPush(s, s[n - 1] \/ s[n])
    BY <1>8, Zenon DEF OrTop, n
  <2>2. D = q[n - 1] \cup q[n]
    BY <1>5, <1>8 DEF Join
  <2> DEFINE b == s[n - 1] \/ s[n]
  <2>3. b \in BOOLEAN /\ (b <=> r \in D) /\ t = PopPush(s, b)
    BY <1>4, <2>1, <2>2, Zenon
  <2> HIDE DEF b
  <2> QED
    BY <1>6, <2>3, JoinRepresents, Zenon DEF D
<1> QED
  BY <1>7, <1>8

\* And or Or over two operands at least is carried out at once.
LEMMA JunctionJoins ==
    ASSUME NEW m, NEW f, NEW r \in Rows, Represents(m, f, r), f.operator = "none",
           Len(f.operands) >= 2, NEW op \in {"And", "Or"}
    PROVE  LET q == f.operands IN
           Represents(Execute(m, Connective(op), r),
                      [f EXCEPT !.operands = PopPush(@, Join(op, q[Len(q) - 1], q[Len(q)]))], r)
<1> DEFINE s == m.stack
           q == f.operands
           x == Execute(m, Connective(op), r)
           w == PopPush(q, Join(op, q[Len(q) - 1], q[Len(q)]))
           g == [f EXCEPT !.operands = PopPush(@, Join(op, q[Len(q) - 1], q[Len(q)]))]
<1>1. Agree(s, q, r) /\ Len(s) >= 2
  BY DEF Represents, Agree
<1>2. ~m.pendingAnd /\ ~m.pendingOr /\ m.pendingAnd \in BOOLEAN /\ m.pendingOr \in BOOLEAN
  BY DEF Represents, Machine
<1>3. g = [operands |-> w, operator |-> "none"]
  BY DEF Represents, Formula
<1>4. /\ Connective(op).op = op /\ ~IsComparison(Connective(op))
      /\ op # "IsNull" /\ op # "IsNotNull" /\ op # "Not"
  BY DEF Connective, IsComparison, ComparisonOps
<1>5. PICK t : /\ op = "And" => t = AndTop(s)
               /\ op = "Or" => t = OrTop(s)
               /\ x = [m EXCEPT !.stack = t]
  <2>1. CASE op = "And"
    <3>1. x = [m EXCEPT !.stack = AndTop(s)]
      BY <1>1, <1>4, <2>1, Zenon DEF Execute
    <3> QED
      BY <2>1, <3>1
  <2>2. CASE op = "Or"
    <3>1. x = [m EXCEPT !.stack = OrTop(s)]
      BY <1>1, <1>4, <2>2, Zenon DEF Execute
    <3> QED
      BY <2>2, <3>1
  <2> QED
    BY <2>1, <2>2
<1>6. x = [stack |-> t, pendingAnd |-> m.pendingAnd, pendingOr |-> m.pendingOr]
  BY <1>5 DEF Represents, Machine
<1> HIDE DEF x, g, s
<1> HIDE DEF q
<1>a. Agree(t, w, r)
  BY <1>1, <1>5, JoinTop, Zenon
<1> HIDE DEF w
<1>7. t \in Seq(BOOLEAN) /\ w \in Seq(SUBSET Rows)
  BY <1>a DEF Agree
<1>8. x \in Machine /\ g \in Formula
  BY <1>2, <1>3, <1>6, <1>7 DEF Machine, Formula
<1>9. /\ x.stack = t /\ x.pendingAnd = m.pendingAnd /\ x.pendingOr = m.pendingOr
      /\ g.operands = w /\ g.operator = "none"
  BY <1>3, <1>6
<1>10. Represents(x, g, r)
  BY <1>2, <1>a, <1>8, <1>9, Zenon DEF Represents
<1> QED
  BY <1>10 DEF x, g, q

\* And or Or over one operand is deferred.
LEMMA JunctionDefers ==
    ASSUME NEW m, NEW f, NEW r \in Rows, Represents(m, f, r), f.operator = "none",
           Len(f.operands) = 1, NEW op \in {"And", "Or"}
    PROVE  Represents(Execute(m, Connective(op), r), [f EXCEPT !.operator = op], r)
<1> DEFINE x == Execute(m, Connective(op), r)
           g == [f EXCEPT !.operator = op]
<1>1. Agree(m.stack, f.operands, r) /\ ~(Len(m.stack) >= 2)
  BY DEF Represents, Agree
<1>2. ~m.pendingAnd /\ ~m.pendingOr /\ m.pendingAnd \in BOOLEAN /\ m.pendingOr \in BOOLEAN
  BY DEF Represents, Machine
<1>3. g = [operands |-> f.operands, operator |-> op]
  BY DEF Represents, Formula
<1>4. /\ Connective(op).op = op /\ ~IsComparison(Connective(op))
      /\ op # "IsNull" /\ op # "IsNotNull" /\ op # "Not"
  BY DEF Connective, IsComparison, ComparisonOps
<1>5. /\ op = "And" => x = [m EXCEPT !.pendingAnd = TRUE]
      /\ op = "Or" => x = [m EXCEPT !.pendingOr = TRUE]
  <2>1. ASSUME op = "And" PROVE x = [m EXCEPT !.pendingAnd = TRUE]
    BY <1>1, <1>4, <2>1, Zenon DEF Execute
  <2>2. ASSUME op = "Or" PROVE x = [m EXCEPT !.pendingOr = TRUE]
    BY <1>1, <1>4, <2>2, Zenon DEF Execute
  <2> QED
    BY <2>1, <2>2
<1> HIDE DEF x, g
<1>6. /\ x.stack = m.stack /\ x \in Machine /\ g \in Formula
      /\ g.operands = f.operands /\ g.operator = op
  BY <1>1, <1>3, <1>5 DEF Represents, Machine, Formula
<1>7. (x.pendingAnd <=> op = "And") /\ (x.pendingOr <=> op = "Or")
  BY <1>2, <1>5 DEF Represents, Machine
<1>8. Represents(x, g, r)
  BY <1>1, <1>6, <1>7, Zenon DEF Represents
<1> QED
  BY <1>8 DEF x, g

\* The records a step makes, field by field.
LEMMA PushRecord ==
    ASSUME NEW m \in Machine, NEW b \in BOOLEAN
    PROVE  /\ Push(m, b) = [stack |-> Append(m.stack, b), pendingAnd |-> m.pendingAnd,
                            pendingOr |-> m.pendingOr]
           /\ Push(m, b) \in Machine
<1>1. Push(m, b) = [stack |-> Append(m.stack, b), pendingAnd |-> m.pendingAnd,
                    pendingOr |-> m.pendingOr]
  BY DEF Push, Machine
<1>2. Append(m.stack, b) \in Seq(BOOLEAN)
  BY AppendProperties DEF Machine
<1> QED
  BY <1>1, <1>2 DEF Machine

LEMMA FoldRecord ==
    ASSUME NEW p \in Machine
    PROVE  /\ [p EXCEPT !.stack = AndTop(@), !.pendingAnd = FALSE] =
                  [stack |-> AndTop(p.stack), pendingAnd |-> FALSE, pendingOr |-> p.pendingOr]
           /\ [p EXCEPT !.stack = OrTop(@), !.pendingOr = FALSE] =
                  [stack |-> OrTop(p.stack), pendingAnd |-> p.pendingAnd, pendingOr |-> FALSE]
<1> DEFINE A == Seq(BOOLEAN)
           B == BOOLEAN
           C == BOOLEAN
<1>a. p \in [stack : A, pendingAnd : B, pendingOr : C]
  BY DEF Machine
<1> HIDE DEF A, B, C
<1>1. ASSUME NEW t
      PROVE  /\ [p EXCEPT !.stack = t] =
                   [stack |-> t, pendingAnd |-> p.pendingAnd, pendingOr |-> p.pendingOr]
             /\ [p EXCEPT !.stack = t] \in [stack : {t}, pendingAnd : B, pendingOr : C]
  BY <1>a
<1>2. ASSUME NEW q, NEW D, NEW x, q \in [stack : D, pendingAnd : B, pendingOr : C]
      PROVE  /\ [q EXCEPT !.pendingAnd = x] =
                   [stack |-> q.stack, pendingAnd |-> x, pendingOr |-> q.pendingOr]
             /\ [q EXCEPT !.pendingOr = x] =
                   [stack |-> q.stack, pendingAnd |-> q.pendingAnd, pendingOr |-> x]
  BY <1>2
<1>3. [p EXCEPT !.stack = AndTop(@), !.pendingAnd = FALSE] =
          [[p EXCEPT !.stack = AndTop(@)] EXCEPT !.pendingAnd = FALSE]
  BY <1>a
<1>4. [p EXCEPT !.stack = OrTop(@), !.pendingOr = FALSE] =
          [[p EXCEPT !.stack = OrTop(@)] EXCEPT !.pendingOr = FALSE]
  BY <1>a
<1>5. [[p EXCEPT !.stack = AndTop(@)] EXCEPT !.pendingAnd = FALSE] =
          [stack |-> AndTop(p.stack), pendingAnd |-> FALSE, pendingOr |-> p.pendingOr]
  <2> DEFINE q == [p EXCEPT !.stack = AndTop(@)]
  <2>1. /\ q \in [stack : {AndTop(p.stack)}, pendingAnd : B, pendingOr : C]
        /\ q.stack = AndTop(p.stack) /\ q.pendingOr = p.pendingOr
    BY <1>1
  <2> HIDE DEF q
  <2>2. [q EXCEPT !.pendingAnd = FALSE] =
            [stack |-> q.stack, pendingAnd |-> FALSE, pendingOr |-> q.pendingOr]
    BY <1>2, <2>1
  <2> QED
    BY <2>1, <2>2 DEF q
<1>6. [[p EXCEPT !.stack = OrTop(@)] EXCEPT !.pendingOr = FALSE] =
          [stack |-> OrTop(p.stack), pendingAnd |-> p.pendingAnd, pendingOr |-> FALSE]
  <2> DEFINE q == [p EXCEPT !.stack = OrTop(@)]
  <2>1. /\ q \in [stack : {OrTop(p.stack)}, pendingAnd : B, pendingOr : C]
        /\ q.stack = OrTop(p.stack) /\ q.pendingAnd = p.pendingAnd
    BY <1>1
  <2> HIDE DEF q
  <2>2. [q EXCEPT !.pendingOr = FALSE] =
            [stack |-> q.stack, pendingAnd |-> q.pendingAnd, pendingOr |-> FALSE]
    BY <1>2, <2>1
  <2> QED
    BY <2>1, <2>2 DEF q
<1> QED
  BY <1>3, <1>4, <1>5, <1>6, Zenon

LEMMA NotRecord ==
    ASSUME NEW f \in Formula, NEW n
    PROVE  [f EXCEPT !.operands[n] = Rows \ @] =
               [operands |-> [f.operands EXCEPT ![n] = Rows \ f.operands[n]],
                operator |-> f.operator]
<1> DEFINE A == Seq(SUBSET Rows)
           B == {"none", "And", "Or"}
<1>1. f \in [operands : A, operator : B]
  BY DEF Formula
<1> HIDE DEF A, B
<1> QED
  BY <1>1

LEMMA AppendToOne ==
    ASSUME NEW S, NEW u \in Seq(S), Len(u) = 1, NEW e \in S
    PROVE  /\ Append(u, e) \in Seq(S) /\ Len(Append(u, e)) = 2
           /\ Append(u, e)[1] = u[1] /\ Append(u, e)[2] = e /\ u[1] \in S
<1>1. /\ Append(u, e) \in Seq(S) /\ Len(Append(u, e)) = Len(u) + 1
      /\ \A i \in 1 .. Len(u) : Append(u, e)[i] = u[i]
      /\ Append(u, e)[Len(u) + 1] = e
  BY AppendProperties
<1>2. 1 \in 1 .. Len(u)
  OBVIOUS
<1>3. u[1] \in S
  BY <1>2, ElementOfSeq
<1> QED
  BY <1>1, <1>2, <1>3

\* A comparison that finds an operator deferred carries it out.
LEMMA FoldRepresents ==
    ASSUME NEW m, NEW f, NEW r \in Rows, Represents(m, f, r), f.operator \in {"And", "Or"},
           Len(f.operands) = 1,
           NEW D \in SUBSET Rows, NEW b \in BOOLEAN, b <=> r \in D
    PROVE  Represents(FoldPending(Push(m, b)),
                      [operands |-> <<Join(f.operator, f.operands[1], D)>>, operator |-> "none"], r)
<1> DEFINE s == Append(m.stack, b)
           q == Append(f.operands, D)
           x == FoldPending(Push(m, b))
           R == SUBSET Rows
           J == Join(f.operator, f.operands[1], D)
<1>1. Agree(s, q, r)
  BY AppendAgrees DEF Represents
<1>2. /\ Len(s) = 2 /\ Len(q) = 2 /\ q[1] = f.operands[1] /\ q[2] = D
      /\ f.operands[1] \in SUBSET Rows /\ q \in Seq(SUBSET Rows)
  <2> DEFINE u == f.operands
  <2>1. u \in Seq(R) /\ D \in R /\ Len(u) = 1
    BY DEF Represents, Formula
  <2> HIDE DEF u, R
  <2>2. /\ Append(u, D) \in Seq(R) /\ Len(Append(u, D)) = 2
        /\ Append(u, D)[1] = u[1] /\ Append(u, D)[2] = D /\ u[1] \in R
    BY <2>1, AppendToOne, Zenon
  <2>3. Len(s) = Len(q)
    BY <1>1 DEF Agree
  <2> QED
    BY <2>2, <2>3 DEF u, R
<1>3. /\ m \in Machine /\ m.pendingAnd \in BOOLEAN /\ m.pendingOr \in BOOLEAN
      /\ m.pendingAnd <=> f.operator = "And"
      /\ m.pendingOr <=> f.operator = "Or"
  BY DEF Represents, Machine
<1>4. Push(m, b) = [stack |-> s, pendingAnd |-> m.pendingAnd, pendingOr |-> m.pendingOr]
  BY <1>3, PushRecord
<1> HIDE DEF s, q
<1>5. PICK t : /\ f.operator = "And" => t = AndTop(s)
               /\ f.operator = "Or" => t = OrTop(s)
               /\ x = [stack |-> t, pendingAnd |-> FALSE, pendingOr |-> FALSE]
  <2> DEFINE p == Push(m, b)
  <2>1. p.stack = s /\ p.pendingAnd = m.pendingAnd /\ p.pendingOr = m.pendingOr /\ Len(p.stack) >= 2
    BY <1>2, <1>4
  <2>a. p \in Machine
    BY <1>3, PushRecord
  <2> HIDE DEF p
  <2>2. CASE f.operator = "And"
    <3> DEFINE n == [p EXCEPT !.stack = AndTop(@), !.pendingAnd = FALSE]
    <3>1. m.pendingAnd /\ ~m.pendingOr /\ m.pendingOr = FALSE
      BY <1>3, <2>2
    <3>a. n = [stack |-> AndTop(p.stack), pendingAnd |-> FALSE, pendingOr |-> p.pendingOr]
      BY <2>a, FoldRecord
    <3>2. n = [stack |-> AndTop(s), pendingAnd |-> FALSE, pendingOr |-> m.pendingOr]
      BY <2>1, <3>a, Zenon
    <3>3. ~n.pendingOr
      BY <3>1, <3>2
    <3>4. x = n
      BY <2>1, <3>1, <3>3, Zenon DEF FoldPending, p
    <3> QED
      BY <2>2, <3>1, <3>2, <3>4
  <2>3. CASE f.operator = "Or"
    <3>1. ~m.pendingAnd /\ m.pendingOr /\ m.pendingAnd = FALSE
      BY <1>3, <2>3
    <3>2. x = [p EXCEPT !.stack = OrTop(@), !.pendingOr = FALSE]
      BY <2>1, <3>1, Zenon DEF FoldPending, p
    <3>3. x = [stack |-> OrTop(s), pendingAnd |-> m.pendingAnd, pendingOr |-> FALSE]
      BY <2>1, <2>a, <3>2, FoldRecord, Zenon
    <3> QED
      BY <2>3, <3>1, <3>3
  <2> QED
    BY <2>2, <2>3
<1> HIDE DEF x
<1>6. Agree(t, PopPush(q, J), r)
  <2>1. Agree(t, PopPush(q, Join(f.operator, q[Len(q) - 1], q[Len(q)])), r)
    <3>1. Len(s) >= 2
      BY <1>2
    <3> QED
      BY <1>1, <1>5, <3>1, JoinTop, Zenon
  <2>2. q[Len(q) - 1] = f.operands[1] /\ q[Len(q)] = D
    BY <1>2
  <2> QED
    BY <2>1, <2>2
<1>7. J \in SUBSET Rows
  BY <1>2 DEF Join
<1> HIDE DEF J
<1>8. PopPush(q, J) = <<J>>
  <2>1. q \in Seq(R) /\ J \in R /\ Len(q) >= 2
    BY <1>2, <1>7
  <2> HIDE DEF R
  <2>2. TopReplaced(PopPush(q, J), R, q, J)
    BY <2>1, PopPushProperties, Zenon
  <2>3. PopPush(q, J) \in Seq(R) /\ Len(PopPush(q, J)) = 1 /\ PopPush(q, J)[1] = J
    BY <1>2, <2>2 DEF TopReplaced
  <2>4. <<J>> \in Seq(R) /\ Len(<<J>>) = 1 /\ <<J>>[1] = J
    BY <2>1
  <2> QED
    BY <2>3, <2>4, SeqEqual
<1> DEFINE g == [operands |-> <<J>>, operator |-> "none"]
<1>9. x \in Machine /\ g \in Formula
  BY <1>5, <1>6, <1>7 DEF Machine, Formula, Agree
<1>10. /\ x.stack = t /\ ~x.pendingAnd /\ ~x.pendingOr
       /\ g.operands = PopPush(q, J) /\ g.operator = "none"
  BY <1>5, <1>8
<1> HIDE DEF g
<1>11. Represents(x, g, r)
  BY <1>6, <1>9, <1>10, Zenon DEF Represents
<1> QED
  BY <1>11 DEF x, g, J

\* Not complements the topmost operand.
LEMMA NotRepresents ==
    ASSUME NEW m, NEW f, NEW r \in Rows, Represents(m, f, r), f.operator = "none",
           Len(f.operands) >= 1, NEW n, n = Len(f.operands)
    PROVE  Represents(Execute(m, Connective("Not"), r),
                      [f EXCEPT !.operands[n] = Rows \ @], r)
<1> DEFINE s == m.stack
           q == f.operands
           B == BOOLEAN
           R == SUBSET Rows
           x == Execute(m, Connective("Not"), r)
           g == [f EXCEPT !.operands[n] = Rows \ @]
           b == ~s[n]
           D == Rows \ q[n]
<1>1. s \in Seq(B) /\ q \in Seq(R) /\ Len(s) = n /\ n \in Nat /\ n \in 1 .. n
  BY LenProperties DEF Represents, Agree
<1>2. \A k \in 1 .. n : s[k] <=> r \in q[k]
  BY DEF Represents, Agree
<1>3. ~m.pendingAnd /\ ~m.pendingOr /\ m.pendingAnd \in BOOLEAN /\ m.pendingOr \in BOOLEAN
  BY DEF Represents, Machine
<1>4. /\ Connective("Not").op = "Not" /\ ~IsComparison(Connective("Not"))
  BY DEF Connective, IsComparison, ComparisonOps
<1>5. x = [m EXCEPT !.stack[Len(m.stack)] = ~@]
  BY <1>4, Zenon DEF Execute
<1>6. x = [stack |-> [s EXCEPT ![n] = b], pendingAnd |-> m.pendingAnd, pendingOr |-> m.pendingOr]
  BY <1>1, <1>5 DEF Represents, Machine
<1>a. f \in Formula
  BY DEF Represents
<1>b. g = [operands |-> [f.operands EXCEPT ![n] = Rows \ f.operands[n]], operator |-> f.operator]
  BY <1>a, NotRecord, Zenon
<1>7. g = [operands |-> [q EXCEPT ![n] = D], operator |-> "none"]
  BY <1>b, Zenon
<1>8. b \in B /\ D \in R
  OBVIOUS
<1>9. b <=> r \in D
  BY <1>1, <1>2, Zenon
<1> HIDE DEF s, q, B, R, x, g, b, D
<1>10. /\ [s EXCEPT ![n] = b] \in Seq(B) /\ Len([s EXCEPT ![n] = b]) = Len(s)
       /\ \A j \in 1 .. Len(s) : [s EXCEPT ![n] = b][j] = IF j = n THEN b ELSE s[j]
  BY <1>1, <1>8, ExceptSeq
<1>11. /\ [q EXCEPT ![n] = D] \in Seq(R) /\ Len([q EXCEPT ![n] = D]) = Len(q)
       /\ \A j \in 1 .. Len(q) : [q EXCEPT ![n] = D][j] = IF j = n THEN D ELSE q[j]
  <2>1. n \in 1 .. Len(q)
    BY <1>1 DEF q
  <2> QED
    BY <1>1, <1>8, <2>1, ExceptSeq
<1>12. n = Len(q)
  BY DEF q
<1>13. Agree([s EXCEPT ![n] = b], [q EXCEPT ![n] = D], r)
  <2>1. ASSUME NEW k \in 1 .. n
        PROVE  [s EXCEPT ![n] = b][k] <=> r \in [q EXCEPT ![n] = D][k]
    <3>1. CASE k = n
      <4>1. [s EXCEPT ![n] = b][k] = b /\ [q EXCEPT ![n] = D][k] = D
        BY <1>1, <1>10, <1>11, <1>12, <3>1, Zenon
      <4> QED
        BY <1>9, <4>1, Zenon
    <3>2. CASE k # n
      <4>1. [s EXCEPT ![n] = b][k] = s[k] /\ [q EXCEPT ![n] = D][k] = q[k]
        BY <1>1, <1>10, <1>11, <1>12, <3>2, Zenon
      <4> QED
        BY <1>2, <4>1, Zenon
    <3> QED
      BY <3>1, <3>2
  <2>2. Len([s EXCEPT ![n] = b]) = n /\ Len([q EXCEPT ![n] = D]) = n
    BY <1>1, <1>10, <1>11, <1>12, Zenon
  <2>3. [s EXCEPT ![n] = b] \in Seq(BOOLEAN) /\ [q EXCEPT ![n] = D] \in Seq(SUBSET Rows)
    BY <1>10, <1>11, Zenon DEF B, R
  <2> QED
    BY <2>1, <2>2, <2>3, Zenon DEF Agree
<1>14. x \in Machine /\ g \in Formula
  BY <1>3, <1>6, <1>7, <1>13 DEF Machine, Formula, Agree
<1>15. /\ x.stack = [s EXCEPT ![n] = b] /\ x.pendingAnd = m.pendingAnd
       /\ x.pendingOr = m.pendingOr
       /\ g.operands = [q EXCEPT ![n] = D] /\ g.operator = "none"
  BY <1>6, <1>7
<1>16. Represents(x, g, r)
  BY <1>3, <1>13, <1>14, <1>15, Zenon DEF Represents
<1> QED
  BY <1>16 DEF x, g
-----------------------------------------------------------------------------
Call == Terms \cup {Connective("And"), Connective("Or"), Connective("Not")}

\* t is the run of the calls cs on row r, and its last machine represents f.
IsRun(t, r, cs, f) ==
    /\ t \in Seq(Machine) /\ Len(t) = Len(cs) + 1 /\ t[1] = Cleared
    /\ \A k \in 1 .. Len(cs) : t[k + 1] = Execute(t[k], cs[k], r)
    /\ Represents(t[Len(cs) + 1], f, r)

\* What the builder may have written when: an operator is only ever left open in
\* infix, after one operand; a predicate that is used is complete.
FormulaInv ==
    /\ style \in {"infix", "postfix"} /\ phase \in {"build", "ready", "run", "returned"}
    /\ formula \in Formula /\ calls \in Seq(Call) /\ row \in Rows
    /\ style = "infix" => Written <= 1
    /\ formula.operator # "none" => style = "infix" /\ Written = 1
    /\ phase # "build" => Written = 1 /\ formula.operator = "none"

RunsInv == \A r \in Rows : \E t : IsRun(t, r, calls, formula)

\* EvaluateRow is somewhere on the run of its row, and at its end when it returns.
PlaceInv ==
    /\ phase \in {"run", "returned"} =>
           /\ pc \in 1 .. Len(calls) + 1
           /\ \A t : IsRun(t, row, calls, formula) => machine = t[pc]
    /\ phase = "returned" => pc = Len(calls) + 1 /\ result = Answer(machine)

\* One more call makes a run longer by one machine.
LEMMA ExtendRun ==
    ASSUME NEW r \in Rows, NEW cs \in Seq(Call), NEW c \in Call, NEW f, NEW g, NEW t,
           IsRun(t, r, cs, f), Represents(Execute(t[Len(cs) + 1], c, r), g, r)
    PROVE  \E u : IsRun(u, r, Append(cs, c), g)
<1> DEFINE x == Execute(t[Len(cs) + 1], c, r)
           u == Append(t, x)
           ds == Append(cs, c)
<1>1. x \in Machine
  BY Zenon DEF Represents
<1>a. Represents(x, g, r)
  OBVIOUS
<1>2. /\ t \in Seq(Machine) /\ Len(t) = Len(cs) + 1 /\ Len(cs) \in Nat /\ t[1] = Cleared
      /\ \A k \in 1 .. Len(cs) : t[k + 1] = Execute(t[k], cs[k], r)
  BY LenProperties DEF IsRun
<1>x. x = Execute(t[Len(cs) + 1], c, r)
  OBVIOUS
<1> HIDE DEF x
<1>3. /\ u \in Seq(Machine) /\ Len(u) = Len(t) + 1
      /\ \A i \in 1 .. Len(t) : u[i] = t[i]
      /\ u[Len(t) + 1] = x
  BY <1>1, <1>2, AppendProperties
<1>4. /\ ds \in Seq(Call) /\ Len(ds) = Len(cs) + 1
      /\ \A i \in 1 .. Len(cs) : ds[i] = cs[i]
      /\ ds[Len(cs) + 1] = c
  BY AppendProperties
<1> HIDE DEF u, ds
<1>5. u[1] = Cleared /\ Len(u) = Len(ds) + 1 /\ u[Len(ds) + 1] = x
  BY <1>2, <1>3, <1>4
<1>6. ASSUME NEW k \in 1 .. Len(ds) PROVE u[k + 1] = Execute(u[k], ds[k], r)
  <2>1. k \in 1 .. Len(cs) \/ k = Len(cs) + 1
    BY <1>2, <1>4
  <2>2. CASE k \in 1 .. Len(cs)
    <3>1. k + 1 \in 1 .. Len(t) /\ k \in 1 .. Len(t)
      BY <1>2, <2>2
    <3>2. u[k + 1] = t[k + 1] /\ u[k] = t[k] /\ ds[k] = cs[k]
      BY <1>3, <1>4, <2>2, <3>1
    <3>3. t[k + 1] = Execute(t[k], cs[k], r)
      BY <1>2, <2>2
    <3> QED
      BY <3>2, <3>3, Zenon
  <2>3. CASE k = Len(cs) + 1
    <3>1. u[k + 1] = x /\ u[k] = t[Len(cs) + 1] /\ ds[k] = c
      BY <1>2, <1>3, <1>4, <2>3
    <3> QED
      BY <1>x, <3>1, Zenon
  <2> QED
    BY <2>1, <2>2, <2>3
<1>7. Represents(u[Len(ds) + 1], g, r)
  BY <1>a, <1>5, Zenon
<1>8. IsRun(u, r, ds, g)
  BY <1>3, <1>5, <1>6, <1>7, Zenon DEF IsRun
<1> QED
  BY <1>8 DEF ds

\* A builder call turns every machine that represents the formula so far into one
\* that represents the formula after the call.
CallFollowed(c) ==
    \A m : \A r \in Rows : Represents(m, formula, r) => Represents(Execute(m, c, r), formula', r)

LEMMA AddTermFollowed ==
    ASSUME ~RightNullTests, FormulaInv, NEW term \in Terms, AddTerm(term)
    PROVE  CallFollowed(term)
<1> SUFFICES ASSUME NEW m, NEW r \in Rows, Represents(m, formula, r)
             PROVE  Represents(Execute(m, term, r), formula', r)
  BY Zenon DEF CallFollowed
<1>0. /\ Denotes(term) \in SUBSET Rows
      /\ term.op \in ComparisonOps \/ term.op \in NullOps
  BY ExecuteTerm
<1>1. PICK b \in BOOLEAN :
         /\ b <=> r \in Denotes(term)
         /\ IsComparison(term) => Execute(m, term, r) = FoldPending(Push(m, b))
         /\ term.op \in NullOps => Execute(m, term, r) = Push(m, b)
  BY ExecuteTerm
<1>2. CASE /\ style = "infix" /\ Written = 1 /\ formula.operator # "none"
           /\ term.op \in NullOps => RightNullTests
           /\ formula' = [operands |-> <<Join(formula.operator, formula.operands[1], Denotes(term))>>,
                          operator |-> "none"]
  <2>1. IsComparison(term)
    BY <1>0, <1>2 DEF IsComparison
  <2>2. formula.operator \in {"And", "Or"} /\ Len(formula.operands) = 1
    BY <1>2 DEF FormulaInv, Formula, Written
  <2>3. Represents(FoldPending(Push(m, b)), formula', r)
    BY <1>0, <1>1, <1>2, <2>2, FoldRepresents, Zenon
  <2> QED
    BY <1>1, <2>1, <2>3, Zenon
<1>3. CASE /\ style = "postfix" \/ Written = 0
           /\ formula' = [formula EXCEPT !.operands = Append(@, Denotes(term))]
  <2>1. formula.operator = "none"
    BY <1>3 DEF FormulaInv
  <2>2. /\ Represents(Push(m, b), formula', r)
        /\ FoldPending(Push(m, b)) = Push(m, b)
    BY <1>0, <1>1, <1>3, <2>1, PushRepresents, Zenon
  <2> QED
    BY <1>0, <1>1, <2>2, Zenon DEF IsComparison
<1> QED
  BY <1>2, <1>3 DEF AddTerm

LEMMA AddJunctionFollowed ==
    ASSUME FormulaInv, NEW op \in {"And", "Or"}, AddJunction(op)
    PROVE  CallFollowed(Connective(op))
<1> SUFFICES ASSUME NEW m, NEW r \in Rows, Represents(m, formula, r)
             PROVE  Represents(Execute(m, Connective(op), r), formula', r)
  BY Zenon DEF CallFollowed
<1>1. CASE /\ style = "infix" /\ Written = 1 /\ formula.operator = "none"
           /\ formula' = [formula EXCEPT !.operator = op]
  BY <1>1, JunctionDefers, Zenon DEF Written
<1>2. CASE /\ style = "postfix" /\ Written >= 2
           /\ formula' = [formula EXCEPT !.operands =
                 PopPush(@, Join(op, @[Written - 1], @[Written]))]
  <2>1. formula.operator = "none"
    BY <1>2 DEF FormulaInv
  <2> QED
    BY <1>2, <2>1, JunctionJoins, Zenon DEF Written
<1> QED
  BY <1>1, <1>2 DEF AddJunction

LEMMA AddNotFollowed ==
    ASSUME FormulaInv, AddNot
    PROVE  CallFollowed(Connective("Not"))
<1> SUFFICES ASSUME NEW m, NEW r \in Rows, Represents(m, formula, r)
             PROVE  Represents(Execute(m, Connective("Not"), r), formula', r)
  BY Zenon DEF CallFollowed
<1>1. /\ Written >= 1 /\ formula.operator = "none"
      /\ formula' = [formula EXCEPT !.operands[Written] = Rows \ @]
  BY DEF AddNot
<1> QED
  BY <1>1, NotRepresents, Zenon DEF Written

\* Then there is a run of the calls with the new one for every row.
LEMMA CallExtendsRuns ==
    ASSUME FormulaInv, RunsInv, NEW c \in Call, CallFollowed(c), calls' = Append(calls, c)
    PROVE  RunsInv' /\ calls' \in Seq(Call) /\ formula' \in Formula
<1>0. calls \in Seq(Call) /\ row \in Rows
  BY DEF FormulaInv
<1>1. ASSUME NEW r \in Rows
      PROVE  (\E t : IsRun(t, r, calls', formula')) /\ formula' \in Formula
  <2>1. PICK t : IsRun(t, r, calls, formula)
    BY DEF RunsInv
  <2>2. Represents(t[Len(calls) + 1], formula, r)
    BY <2>1, Zenon DEF IsRun
  <2>3. Represents(Execute(t[Len(calls) + 1], c, r), formula', r)
    BY <2>2, Zenon DEF CallFollowed
  <2>4. PICK g : g = formula'
    OBVIOUS
  <2>5. Represents(Execute(t[Len(calls) + 1], c, r), g, r)
    BY <2>3, <2>4, Zenon
  <2>6. \E u : IsRun(u, r, Append(calls, c), g)
    BY <1>0, <2>1, <2>5, ExtendRun, Zenon
  <2>7. g \in Formula
    BY <2>5, Zenon DEF Represents
  <2> QED
    BY <2>4, <2>6, <2>7, Zenon
<1>2. calls' \in Seq(Call)
  BY <1>0, AppendProperties
<1> QED
  BY <1>0, <1>1, <1>2, Zenon DEF RunsInv

IInv == FormulaInv /\ RunsInv /\ PlaceInv

LEMMA InterpreterInit == ASSUME Init PROVE IInv
<1>1. Cleared \in Machine /\ formula \in Formula /\ calls \in Seq(Call) /\ row \in Rows
      /\ Len(formula.operands) = 0 /\ formula.operator = "none" /\ Len(calls) = 0
  BY DEF Init, Cleared, Machine, Formula
<1>2. FormulaInv
  BY <1>1 DEF Init, FormulaInv, Written
<1>3. ASSUME NEW r \in Rows PROVE Represents(Cleared, formula, r)
  <2>1. Agree(<<>>, <<>>, r)
    BY DEF Agree
  <2>2. Cleared.stack = <<>> /\ formula.operands = <<>> /\ ~Cleared.pendingAnd /\ ~Cleared.pendingOr
    BY DEF Cleared, Init
  <2> QED
    BY <1>1, <2>1, <2>2, Zenon DEF Represents
<1>4. ASSUME NEW r \in Rows PROVE IsRun(<<Cleared>>, r, calls, formula)
  <2>1. <<Cleared>> \in Seq(Machine) /\ Len(<<Cleared>>) = 1 /\ <<Cleared>>[1] = Cleared
    BY <1>1
  <2>2. Len(calls) + 1 = 1 /\ \A k \in 1 .. Len(calls) : FALSE
    BY <1>1
  <2> QED
    BY <1>3, <2>1, <2>2, Zenon DEF IsRun
<1>5. RunsInv
  BY <1>4 DEF RunsInv
<1>6. PlaceInv
  BY DEF Init, PlaceInv
<1> QED
  BY <1>2, <1>5, <1>6 DEF IInv

LEMMA InterpreterStep == ASSUME ~RightNullTests, IInv, [Next]_vars PROVE IInv'
<1> USE DEF IInv
<1>1. ASSUME NEW term \in Terms, AddTerm(term) PROVE IInv'
  <2>1. /\ calls' = Append(calls, term) /\ term \in Call /\ phase = "build"
        /\ UNCHANGED <<style, phase, row, pc, machine, result>>
    BY <1>1 DEF AddTerm, Call
  <2>2. RunsInv' /\ calls' \in Seq(Call) /\ formula' \in Formula
    BY <1>1, <2>1, AddTermFollowed, CallExtendsRuns
  <2>3. /\ style = "infix" => Len(formula'.operands) <= 1
        /\ formula'.operator = "none"
    <3>1. CASE /\ style = "infix" /\ Written = 1 /\ formula.operator # "none"
               /\ formula' = [operands |-> <<Join(formula.operator, formula.operands[1], Denotes(term))>>,
                              operator |-> "none"]
      BY <3>1
    <3>2. CASE /\ style = "postfix" \/ Written = 0
               /\ formula' = [formula EXCEPT !.operands = Append(@, Denotes(term))]
      <4>1. formula.operator = "none" /\ formula \in Formula
        BY <3>2 DEF FormulaInv
      <4>2. formula'.operator = "none" /\ formula'.operands = Append(formula.operands, Denotes(term))
        BY <3>2, <4>1 DEF Formula
      <4>3. ASSUME style = "infix" PROVE Len(formula'.operands) <= 1
        <5> DEFINE q == formula.operands
                   R == SUBSET Rows
        <5>1. q \in Seq(R) /\ Len(q) = 0 /\ Denotes(term) \in R
          BY <3>2, <4>1, <4>3 DEF Formula, Written, Denotes
        <5> HIDE DEF q, R
        <5>2. Len(Append(q, Denotes(term))) = Len(q) + 1
          BY <5>1, AppendProperties
        <5> QED
          BY <4>2, <5>1, <5>2 DEF q
      <4> QED
        BY <4>2, <4>3
    <3> QED
      BY <1>1, <3>1, <3>2 DEF AddTerm
  <2>4. FormulaInv'
    BY <2>1, <2>2, <2>3 DEF FormulaInv, Written
  <2>5. PlaceInv'
    BY <2>1 DEF PlaceInv
  <2> QED
    BY <2>2, <2>4, <2>5
<1>2. ASSUME NEW op \in {"And", "Or"}, AddJunction(op) PROVE IInv'
  <2>1. /\ calls' = Append(calls, Connective(op)) /\ Connective(op) \in Call /\ phase = "build"
        /\ UNCHANGED <<style, phase, row, pc, machine, result>>
    BY <1>2 DEF AddJunction, Call
  <2>2. RunsInv' /\ calls' \in Seq(Call) /\ formula' \in Formula
    BY <1>2, <2>1, AddJunctionFollowed, CallExtendsRuns
  <2>3. /\ style = "infix" => Len(formula'.operands) = 1
        /\ formula'.operator # "none" => style = "infix"
    <3>1. CASE /\ style = "infix" /\ Written = 1 /\ formula.operator = "none"
               /\ formula' = [formula EXCEPT !.operator = op]
      BY <3>1 DEF FormulaInv, Formula, Written
    <3>2. CASE /\ style = "postfix" /\ Written >= 2
               /\ formula' = [formula EXCEPT !.operands =
                     PopPush(@, Join(op, @[Written - 1], @[Written]))]
      <4>1. formula.operator = "none" /\ formula \in Formula
        BY <3>2 DEF FormulaInv
      <4>2. formula'.operator = "none"
        BY <3>2, <4>1 DEF Formula
      <4> QED
        BY <3>2, <4>2
    <3> QED
      BY <1>2, <3>1, <3>2 DEF AddJunction
  <2>c. style' = style /\ Written' = Len(formula'.operands)
    BY <2>1, Zenon DEF Written
  <2>d. /\ style' = "infix" => Written' = 1
        /\ formula'.operator # "none" => style' = "infix"
    BY <2>3, <2>c, Zenon
  <2>a. /\ style' = "infix" => Written' = 1 /\ Written' <= 1
        /\ formula'.operator # "none" => style' = "infix" /\ Written' = 1
    BY <2>d
  <2>b. style' \in {"infix", "postfix"} /\ phase' = "build" /\ row' \in Rows
    BY <2>1 DEF FormulaInv
  <2>4. FormulaInv'
    BY <2>2, <2>a, <2>b DEF FormulaInv
  <2>5. PlaceInv'
    BY <2>1 DEF PlaceInv
  <2> QED
    BY <2>2, <2>4, <2>5
<1>3. CASE AddNot
  <2>1. /\ calls' = Append(calls, Connective("Not")) /\ Connective("Not") \in Call /\ phase = "build"
        /\ UNCHANGED <<style, phase, row, pc, machine, result>>
    BY <1>3 DEF AddNot, Call
  <2>2. RunsInv' /\ calls' \in Seq(Call) /\ formula' \in Formula
    BY <1>3, <2>1, AddNotFollowed, CallExtendsRuns
  <2>3. Len(formula'.operands) = Len(formula.operands) /\ formula'.operator = "none"
    <3> DEFINE q == formula.operands
               R == SUBSET Rows
               n == Written
               D == Rows \ q[n]
    <3>1. formula \in Formula /\ formula.operator = "none" /\ n >= 1
          /\ formula' = [formula EXCEPT !.operands[n] = Rows \ @]
      BY <1>3 DEF AddNot, FormulaInv
    <3>2. formula' = [operands |-> [q EXCEPT ![n] = D], operator |-> formula.operator]
      BY <3>1, NotRecord, Zenon
    <3>3. q \in Seq(R) /\ n = Len(q) /\ D \in R
      BY <3>1 DEF Formula, Written
    <3>4. formula'.operands = [q EXCEPT ![n] = D] /\ formula'.operator = "none"
      BY <3>1, <3>2
    <3> HIDE DEF q, R, n, D
    <3>5. Len(q) \in Nat /\ n \in 1 .. Len(q)
      BY <3>1, <3>3, LenProperties
    <3>6. Len([q EXCEPT ![n] = D]) = Len(q)
      BY <3>3, <3>5, ExceptSeq
    <3> QED
      BY <3>4, <3>6 DEF q
  <2>4. FormulaInv'
    BY <2>1, <2>2, <2>3 DEF FormulaInv, Written
  <2>5. PlaceInv'
    BY <2>1 DEF PlaceInv
  <2> QED
    BY <2>2, <2>4, <2>5
<1>4. CASE Build
  <2>1. FormulaInv'
    BY <1>4 DEF Build, FormulaInv, Written
  <2>2. RunsInv'
    BY <1>4, Zenon DEF Build, RunsInv
  <2>3. PlaceInv'
    BY <1>4 DEF Build, PlaceInv
  <2> QED
    BY <2>1, <2>2, <2>3
<1>5. ASSUME NEW r \in Rows, BeginRow(r) PROVE IInv'
  <2>1. /\ phase' = "run" /\ row' = r /\ pc' = 1 /\ machine' = Cleared /\ phase # "build"
        /\ UNCHANGED <<style, calls, formula, result>>
    BY <1>5 DEF BeginRow
  <2>2. FormulaInv'
    BY <2>1 DEF FormulaInv, Written
  <2>3. RunsInv'
    BY <2>1, Zenon DEF RunsInv
  <2>4. PlaceInv'
    <3>1. Len(calls) \in Nat
      BY LenProperties DEF FormulaInv
    <3>2. \A t : IsRun(t, row', calls', formula') => machine' = t[pc']
      BY <2>1, Zenon DEF IsRun
    <3>3. pc' \in 1 .. Len(calls') + 1
      BY <2>1, <3>1
    <3> QED
      BY <2>1, <3>2, <3>3 DEF PlaceInv
  <2> QED
    BY <2>2, <2>3, <2>4
<1>6. CASE Step
  <2>1. /\ phase = "run" /\ pc <= Len(calls) /\ machine' = Execute(machine, calls[pc], row)
        /\ pc' = pc + 1 /\ UNCHANGED <<style, calls, formula, phase, row, result>>
    BY <1>6 DEF Step
  <2>2. FormulaInv'
    BY <2>1 DEF FormulaInv, Written
  <2>3. RunsInv'
    BY <2>1, Zenon DEF RunsInv
  <2>4. PlaceInv'
    <3>1. Len(calls) \in Nat
      BY LenProperties DEF FormulaInv
    <3>2. pc \in 1 .. Len(calls)
      BY <2>1, <3>1 DEF PlaceInv
    <3>3. ASSUME NEW t, IsRun(t, row, calls, formula) PROVE machine' = t[pc + 1]
      <4>1. machine = t[pc]
        BY <2>1, <3>3, Zenon DEF PlaceInv
      <4>2. t[pc + 1] = Execute(t[pc], calls[pc], row)
        BY <3>2, <3>3, Zenon DEF IsRun
      <4> QED
        BY <2>1, <4>1, <4>2, Zenon
    <3>4. \A t : IsRun(t, row', calls', formula') => machine' = t[pc']
      BY <2>1, <3>3, Zenon
    <3>5. pc' \in 1 .. Len(calls') + 1
      BY <2>1, <3>1, <3>2
    <3> QED
      BY <2>1, <3>4, <3>5 DEF PlaceInv
  <2> QED
    BY <2>2, <2>3, <2>4
<1>7. CASE Return
  <2>1. /\ phase = "run" /\ pc = Len(calls) + 1 /\ phase' = "returned" /\ result' = Answer(machine)
        /\ UNCHANGED <<style, calls, formula, row, pc, machine>>
    BY <1>7 DEF Return
  <2>2. FormulaInv'
    BY <2>1 DEF FormulaInv, Written
  <2>3. RunsInv'
    BY <2>1, Zenon DEF RunsInv
  <2>4. PlaceInv'
    <3>1. result' = Answer(machine')
      BY <2>1, Zenon
    <3>2. \A t : IsRun(t, row', calls', formula') => machine' = t[pc']
      BY <2>1, Zenon DEF PlaceInv
    <3>3. pc' \in 1 .. Len(calls') + 1
      BY <2>1 DEF PlaceInv
    <3> QED
      BY <2>1, <3>1, <3>2, <3>3, Zenon DEF PlaceInv
  <2> QED
    BY <2>2, <2>3, <2>4
<1>8. CASE UNCHANGED vars
  <2>1. FormulaInv'
    BY <1>8 DEF vars, FormulaInv, Written
  <2>2. RunsInv'
    BY <1>8, Zenon DEF vars, RunsInv
  <2>3. PlaceInv'
    BY <1>8, Zenon DEF vars, PlaceInv
  <2> QED
    BY <2>1, <2>2, <2>3
<1> QED
  BY <1>1, <1>2, <1>3, <1>4, <1>5, <1>6, <1>7, <1>8, Zenon DEF Next

\* When EvaluateRow returns, its machine represents the formula.
LEMMA ReturnedRepresents ==
    ASSUME IInv, phase = "returned"
    PROVE  /\ Represents(machine, formula, row) /\ Written = 1 /\ formula.operator = "none"
           /\ result = Answer(machine)
<1>1. row \in Rows /\ Written = 1 /\ formula.operator = "none"
  BY DEF IInv, FormulaInv
<1>2. PICK t : IsRun(t, row, calls, formula)
  BY <1>1, Zenon DEF IInv, RunsInv
<1>3. machine = t[pc] /\ pc = Len(calls) + 1 /\ result = Answer(machine)
  BY <1>2, Zenon DEF IInv, PlaceInv
<1>4. Represents(t[Len(calls) + 1], formula, row)
  BY <1>2, Zenon DEF IsRun
<1> QED
  BY <1>1, <1>3, <1>4, Zenon

(***************************************************************************)
(* InterpreterAnswersTheFormula: whatever predicate the builder made, in   *)
(* infix or in postfix order, with no null test as the right operand of an *)
(* infix And or Or, and whatever rows were evaluated before, EvaluateRow   *)
(* returns whether the row satisfies it.  The assumption is needed: a null *)
(* test does not call FoldPending, so an And or Or deferred before it      *)
(* stays deferred.                                                         *)
(***************************************************************************)
THEOREM InterpreterAnswersTheFormula ==
    ASSUME ~RightNullTests
    PROVE  Spec => []AnswersTheFormula
<1>1. IInv => AnswersTheFormula
  <2> SUFFICES ASSUME IInv, phase = "returned" PROVE result <=> row \in formula.operands[1]
    BY DEF AnswersTheFormula
  <2>1. Agree(machine.stack, formula.operands, row) /\ Len(formula.operands) = 1
        /\ result = Answer(machine)
    BY ReturnedRepresents, Zenon DEF Represents, Written
  <2>2. Len(machine.stack) = 1 /\ \A k \in 1 .. Len(machine.stack) :
            machine.stack[k] <=> row \in formula.operands[k]
    BY <2>1 DEF Agree
  <2>3. 1 \in 1 .. Len(machine.stack) /\ machine.stack # <<>>
    BY <2>2, EmptySeq
  <2>4. machine.stack[1] <=> row \in formula.operands[1]
    BY <2>2, <2>3, Zenon
  <2> QED
    BY <2>1, <2>2, <2>3, <2>4, Zenon DEF Answer
<1> QED
  BY <1>1, InterpreterInit, InterpreterStep, PTL DEF Spec

(***************************************************************************)
(* InterpreterNothingLeftOver: when EvaluateRow returns, for a predicate   *)
(* under the same assumption, its stack holds the answer alone and no And  *)
(* or Or is still deferred.                                                *)
(***************************************************************************)
THEOREM InterpreterNothingLeftOver ==
    ASSUME ~RightNullTests
    PROVE  Spec => []NothingLeftOver
<1>1. IInv => NothingLeftOver
  <2> SUFFICES ASSUME IInv, phase = "returned"
               PROVE  /\ Len(machine.stack) = 1
                      /\ ~machine.pendingAnd /\ ~machine.pendingOr
    BY DEF NothingLeftOver
  <2>1. /\ Represents(machine, formula, row) /\ Len(formula.operands) = 1
        /\ formula.operator = "none"
    BY ReturnedRepresents DEF Written
  <2> QED
    BY <2>1 DEF Represents, Agree
<1> QED
  BY <1>1, InterpreterInit, InterpreterStep, PTL DEF Spec
=============================================================================
