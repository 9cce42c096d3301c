---------------------------- MODULE CommandProofs ---------------------------
(***************************************************************************)
(* What a scan is asked for is what it does: reorderArgs and package flag,   *)
(* one after the other, read from any arguments what a single pass reads.    *)
(***************************************************************************)
EXTENDS CommandLine, ReportProofs, WellFoundedInduction

-----------------------------------------------------------------------------
(***************************************************************************)
(* Counting up to n, and passes: the state after each argument.              *)
(***************************************************************************)
\* The library's induction theorem takes an operator; this one takes the set
\* of which the numbers are to be members.
LEMMA CountUp ==
    ASSUME NEW n \in Nat, NEW S, 0 \in S, \A k \in 0..n : k < n /\ k \in S => k + 1 \in S
    PROVE  0..n \subseteq S
PROOF
<1> DEFINE missing == {k \in 0..n : k \notin S}
           before == {ss \in Nat \X Nat : ss[1] < ss[2]}
<1> SUFFICES ASSUME missing # {} PROVE FALSE
  OBVIOUS
<1>1. IsWellFoundedOn(before, Nat)
  BY NatLessThanWellFounded, SMT DEF OpToRel
<1>2. \A x, y \in Nat : y < x => <<y, x>> \in before
  OBVIOUS
<1> HIDE DEF before
<1>3. missing \subseteq Nat
  OBVIOUS
<1>4. PICK x \in missing : \A y \in missing : ~(<<y, x>> \in before)
  <2> HIDE DEF missing
  <2> QED BY <1>1, <1>3, WFMin
<1>5. x \in 0..n /\ x # 0 /\ x - 1 \in 0..n /\ x - 1 < x
  BY <1>4
<1>6. x - 1 \notin missing
  <2>1. x \in Nat /\ x - 1 \in Nat
    BY <1>5
  <2>2. <<x - 1, x>> \in before
    BY <1>2, <1>5, <2>1
  <2> HIDE DEF missing
  <2> QED BY <1>4, <2>2
<1>7. x - 1 \in S
  BY <1>5, <1>6
<1>8. (x - 1) + 1 \in S
  BY <1>5, <1>7
<1> QED BY <1>4, <1>5, <1>8

\* g holds the states of a pass over args that starts in s0 and steps by F.
follows(g, F, s0, args) ==
    g[0] = s0 /\ \A i \in 1..Len(args) : g[i] = F[<<g[i - 1], args[i]>>]

\* c does too, as long as it stays in S.
tracks(c, F, s0, args, S) ==
    c[0] = s0 /\ \A i \in 1..Len(args) : c[i - 1] \in S => c[i] = F[<<c[i - 1], args[i]>>]

onlyPass(g, F, s0, args, S) ==
    /\ follows(g, F, s0, args)
    /\ \A c : tracks(c, F, s0, args, S) => c[Len(args)] = g[Len(args)]

\* There is such a pass for the CHOOSE of a recursive function to find, and only one.
LEMMA PassExists ==
    ASSUME NEW S, NEW A, NEW F \in [S \X A -> S], NEW s0 \in S, NEW args \in Seq(A)
    PROVE  \E g \in [0..Len(args) -> S] : onlyPass(g, F, s0, args, S)
PROOF
<1> DEFINE upTo(k, g) == g[0] = s0 /\ \A i \in 1..k : g[i] = F[<<g[i - 1], args[i]>>]
           K == {k \in 0..Len(args) : \E g \in [0..k -> S] : upTo(k, g)}
<1>1. Len(args) \in Nat /\ \A i \in 1..Len(args) : args[i] \in A
  OBVIOUS
<1>2. 0 \in K
  <2> DEFINE g == [i \in 0..0 |-> s0]
  <2>1. g \in [0..0 -> S] /\ upTo(0, g)
    OBVIOUS
  <2>2. 0 \in 0..Len(args)
    BY <1>1
  <2> HIDE DEF upTo, g
  <2> QED BY <2>1, <2>2
<1>3. ASSUME NEW k \in 0..Len(args), k < Len(args), k \in K PROVE k + 1 \in K
  <2>1. PICK g \in [0..k -> S] : upTo(k, g)
    BY <1>3
  <2> DEFINE e == F[<<g[k], args[k + 1]>>]
             h == [i \in 0..(k + 1) |-> IF i = k + 1 THEN e ELSE g[i]]
  <2>2. k + 1 \in 1..Len(args) /\ k \in 0..k /\ g[k] \in S /\ args[k + 1] \in A
    BY <1>1, <1>3
  <2>3. e \in S
    BY <2>2
  <2>4. h \in [0..(k + 1) -> S]
    <3> HIDE DEF e
    <3> QED BY <1>1, <2>3
  <2>5. upTo(k + 1, h)
    <3>1. h[0] = s0
      BY <1>1, <2>1
    <3>2. ASSUME NEW i \in 1..k PROVE h[i] = F[<<h[i - 1], args[i]>>]
      <4>1. h[i] = g[i] /\ h[i - 1] = g[i - 1]
        BY <1>1, <3>2
      <4> QED BY <2>1, <4>1
    <3>3. h[k + 1] = F[<<h[(k + 1) - 1], args[k + 1]>>]
      <4>1. h[k + 1] = e /\ h[(k + 1) - 1] = g[k]
        BY <1>1, <2>2
      <4> QED BY <4>1
    <3>4. \A i \in 1..(k + 1) : i \in 1..k \/ i = k + 1
      BY <1>1
    <3> QED BY <3>1, <3>2, <3>3, <3>4
  <2>6. k + 1 \in 0..Len(args)
    BY <1>1, <1>3
  <2> QED BY <2>4, <2>5, <2>6
<1>4. Len(args) \in K
  <2>1. Len(args) \in 0..Len(args)
    BY <1>1
  <2> HIDE DEF K
  <2> QED BY <1>1, <1>2, <1>3, <2>1, CountUp
<1>5. PICK g \in [0..Len(args) -> S] : follows(g, F, s0, args)
  BY <1>4 DEF follows
<1>6. ASSUME NEW c, tracks(c, F, s0, args, S) PROVE c[Len(args)] = g[Len(args)]
  <2> DEFINE L == {k \in 0..Len(args) : c[k] = g[k]}
  <2>1. 0 \in L
    BY <1>1, <1>5, <1>6 DEF follows, tracks
  <2>2. ASSUME NEW k \in 0..Len(args), k < Len(args), k \in L PROVE k + 1 \in L
    <3>1. k + 1 \in 1..Len(args) /\ (k + 1) - 1 = k /\ k + 1 \in 0..Len(args)
      BY <1>1, <2>2
    <3>2. c[k] = g[k] /\ g[k] \in S
      BY <2>2
    <3>3. c[k + 1] = F[<<c[k], args[k + 1]>>] /\ g[k + 1] = F[<<g[k], args[k + 1]>>]
      BY <1>5, <1>6, <3>1, <3>2 DEF follows, tracks
    <3> QED BY <3>1, <3>2, <3>3
  <2>3. Len(args) \in L
    <3>1. Len(args) \in 0..Len(args)
      BY <1>1
    <3> HIDE DEF L
    <3> QED BY <1>1, <2>1, <2>2, <3>1, CountUp
  <2> QED BY <2>3
<1> QED BY <1>5, <1>6 DEF onlyPass

-----------------------------------------------------------------------------
(***************************************************************************)
(* The steps of reorderArgs and of package flag.                             *)
(***************************************************************************)
ReorderState == [mode : {"any", "value", "operands"}, flags : Seq(Arg), positional : Seq(Arg)]

\* The strings a flag's name and value are taken from.
Text == {"", "table", "true", "false"} \cup Arg \cup {Lex[a].name : a \in Arg}
            \cup {Lex[a].value : a \in Arg}

ParseState == [mode : {"any", "value", "operands", "error"}, flag : Text, format : Text,
               recursive : BOOLEAN, rest : Seq(Arg)]

\* Two states of the parser that differ in their operands only.
alike(s, t) ==
    s.mode = t.mode /\ s.flag = t.flag /\ s.format = t.format /\ s.recursive = t.recursive

\* One argument of reorderArgs, by what it is.
LEMMA ReorderStep ==
    ASSUME NEW cmd, NEW s \in ReorderState, NEW a \in Arg
    PROVE  /\ reorderStep(cmd, s, a) \in ReorderState
           /\ s.mode = "operands" => reorderStep(cmd, s, a) =
                 [mode |-> "operands", flags |-> s.flags, positional |-> Append(s.positional, a)]
           /\ s.mode = "value" => reorderStep(cmd, s, a) =
                 [mode |-> "any", flags |-> Append(s.flags, a), positional |-> s.positional]
           /\ s.mode = "any" /\ a = "--" => reorderStep(cmd, s, a) =
                 [mode |-> "operands", flags |-> s.flags, positional |-> s.positional]
           /\ s.mode = "any" /\ a # "--" /\ dashed(a) => reorderStep(cmd, s, a) =
                 [mode |-> IF takesNext(cmd, a) THEN "value" ELSE "any",
                  flags |-> Append(s.flags, a), positional |-> s.positional]
           /\ s.mode = "any" /\ ~dashed(a) => reorderStep(cmd, s, a) =
                 [mode |-> "any", flags |-> s.flags, positional |-> Append(s.positional, a)]
PROOF
<1> DEFINE t == reorderStep(cmd, s, a)
           rec(m, f, p) == [mode |-> m, flags |-> f, positional |-> p]
<1>1. a = "--" => dashed(a)
  BY LexAssumption DEF dashed
<1>2. /\ s = rec(s.mode, s.flags, s.positional)
      /\ s.mode \in {"any", "value", "operands"} /\ s.flags \in Seq(Arg) /\ s.positional \in Seq(Arg)
  BY DEF ReorderState
<1>3. Append(s.flags, a) \in Seq(Arg) /\ Append(s.positional, a) \in Seq(Arg)
  BY <1>2
<1>4. \A m \in {"any", "value", "operands"}, f, p \in Seq(Arg) : rec(m, f, p) \in ReorderState
  BY DEF ReorderState
<1>5. ASSUME s.mode = "operands" PROVE t = rec("operands", s.flags, Append(s.positional, a))
  BY <1>2, <1>5 DEF reorderStep
<1>6. ASSUME s.mode = "value" PROVE t = rec("any", Append(s.flags, a), s.positional)
  BY <1>2, <1>6 DEF reorderStep
<1>7. ASSUME s.mode = "any", a = "--" PROVE t = rec("operands", s.flags, s.positional)
  BY <1>1, <1>2, <1>7 DEF reorderStep
<1>8. ASSUME s.mode = "any", dashed(a), a # "--"
      PROVE  t = rec(IF takesNext(cmd, a) THEN "value" ELSE "any", Append(s.flags, a), s.positional)
  BY <1>2, <1>8 DEF reorderStep
<1>9. ASSUME s.mode = "any", ~dashed(a) PROVE t = rec("any", s.flags, Append(s.positional, a))
  BY <1>1, <1>2, <1>9 DEF reorderStep
<1>10. t \in ReorderState
  <2>1. CASE s.mode = "operands" BY <1>2, <1>3, <1>4, <1>5, <2>1
  <2>2. CASE s.mode = "value" BY <1>2, <1>3, <1>4, <1>6, <2>2
  <2>3. CASE s.mode = "any" /\ a = "--" BY <1>2, <1>4, <1>7, <2>3
  <2>4. CASE s.mode = "any" /\ a # "--" /\ dashed(a) BY <1>2, <1>3, <1>4, <1>8, <2>4
  <2>5. CASE s.mode = "any" /\ ~dashed(a) BY <1>2, <1>3, <1>4, <1>9, <2>5
  <2> QED BY <1>2, <2>1, <2>2, <2>3, <2>4, <2>5
<1> QED BY <1>5, <1>6, <1>7, <1>8, <1>9, <1>10

\* An argument is moved behind the flags before it, or not moved.
LEMMA FlagsGrow ==
    ASSUME NEW cmd, NEW r \in ReorderState, NEW a \in Arg
    PROVE  \/ reorderStep(cmd, r, a).flags = r.flags
           \/ reorderStep(cmd, r, a).flags = Append(r.flags, a)
PROOF
<1> DEFINE u == reorderStep(cmd, r, a)
<1>1. r.mode \in {"any", "value", "operands"} /\ (a = "--" => dashed(a))
  BY LexAssumption DEF ReorderState, dashed
<1>2. CASE r.mode = "operands"
  <2>1. u = [mode |-> "operands", flags |-> r.flags, positional |-> Append(r.positional, a)]
    BY <1>2, ReorderStep, Zenon
  <2> QED BY <2>1
<1>3. CASE r.mode = "value"
  <2>1. u = [mode |-> "any", flags |-> Append(r.flags, a), positional |-> r.positional]
    BY <1>3, ReorderStep, Zenon
  <2> QED BY <2>1
<1>4. CASE r.mode = "any" /\ a = "--"
  <2>1. u = [mode |-> "operands", flags |-> r.flags, positional |-> r.positional]
    BY <1>4, ReorderStep, Zenon
  <2> QED BY <2>1
<1>5. CASE r.mode = "any" /\ a # "--" /\ dashed(a)
  <2>1. u = [mode |-> IF takesNext(cmd, a) THEN "value" ELSE "any",
             flags |-> Append(r.flags, a), positional |-> r.positional]
    BY <1>5, ReorderStep, Zenon
  <2> QED BY <2>1
<1>6. CASE r.mode = "any" /\ ~dashed(a)
  <2>1. u = [mode |-> "any", flags |-> r.flags, positional |-> Append(r.positional, a)]
    BY <1>6, ReorderStep, Zenon
  <2> QED BY <2>1
<1> QED BY <1>1, <1>2, <1>3, <1>4, <1>5, <1>6

\* What parseFlag does to a state.
LEMMA ParseFlag ==
    ASSUME NEW cmd, NEW s \in ParseState, NEW a \in Arg
    PROVE  /\ parseFlag(cmd, s, a) \in ParseState
           /\ parseFlag(cmd, s, a).rest = s.rest
           /\ parseFlag(cmd, s, a).mode # "operands"
           /\ parseFlag(cmd, s, a).mode # "error" =>
                 (parseFlag(cmd, s, a).mode = "value" <=> takesNext(cmd, a))
PROOF
<1> DEFINE f == Lex[a]
           t == parseFlag(cmd, s, a)
           good(u) == /\ u \in ParseState
                      /\ u.rest = s.rest
                      /\ u.mode # "operands"
                      /\ u.mode # "error" => (u.mode = "value" <=> takesNext(cmd, a))
<1>1. /\ f.dashes \in Nat /\ f.name \in Text /\ f.value \in Text
      /\ "true" \in Text /\ "false" \in Text
  BY LexAssumption DEF Text
<1> DEFINE yes == trueText \cup {NoValue}
<1>b. yes \cap falseText = {}
  BY LexAssumption DEF trueText, falseText
<1>2. f.name \in boolFlags(cmd) => f.name \notin valueFlags
  BY DEF boolFlags, valueFlags
<1>3. takesNext(cmd, a) <=> f.value = NoValue /\ f.name \in valueFlags
  BY DEF takesNext
<1>4. ASSUME NEW v \in Text, ~takesNext(cmd, a) PROVE good(setFlag(s, f.name, v))
  BY <1>1, <1>4 DEF setFlag, ParseState
<1>5. good([s EXCEPT !.mode = "error"])
  BY DEF ParseState
<1>6. ASSUME takesNext(cmd, a) PROVE good([s EXCEPT !.mode = "value", !.flag = f.name])
  BY <1>1, <1>6 DEF ParseState
<1>7. good(t)
  <2> HIDE DEF good
  <2>1. CASE f.dashes > 2 \/ ~(f.name \in boolFlags(cmd) \/ f.name \in valueFlags)
    <3>1. t = [s EXCEPT !.mode = "error"]
      BY <1>1, <2>1 DEF parseFlag
    <3> QED BY <1>5, <3>1
  <2>2. CASE f.dashes <= 2 /\ f.name \in boolFlags(cmd)
    <3>1. t = CASE f.value \in yes -> setFlag(s, f.name, "true")
                [] f.value \in falseText -> setFlag(s, f.name, "false")
                [] OTHER -> [s EXCEPT !.mode = "error"]
      BY <1>1, <1>2, <2>2 DEF parseFlag
    <3>2. ~takesNext(cmd, a)
      BY <1>2, <1>3, <2>2
    <3> HIDE DEF yes
    <3>3. CASE f.value \in yes
      <4>1. f.value \notin falseText
        BY <1>b, <3>3
      <4>2. t = setFlag(s, f.name, "true")
        BY <3>1, <3>3, <4>1
      <4> HIDE DEF f
      <4> QED BY <1>1, <1>4, <3>2, <4>2
    <3>4. CASE f.value \in falseText
      <4>1. f.value \notin yes
        BY <1>b, <3>4
      <4>2. t = setFlag(s, f.name, "false")
        BY <3>1, <3>4, <4>1
      <4> HIDE DEF f
      <4> QED BY <1>1, <1>4, <3>2, <4>2
    <3>5. CASE f.value \notin yes /\ f.value \notin falseText
      <4>1. t = [s EXCEPT !.mode = "error"]
        BY <3>1, <3>5
      <4> QED BY <1>5, <4>1
    <3> QED BY <3>3, <3>4, <3>5
  <2>3. CASE f.dashes <= 2 /\ f.name \in valueFlags
    <3>1. t = IF f.value = NoValue THEN [s EXCEPT !.mode = "value", !.flag = f.name]
              ELSE setFlag(s, f.name, f.value)
      BY <1>1, <1>2, <2>3 DEF parseFlag
    <3>2. CASE f.value = NoValue
      BY <1>3, <1>6, <2>3, <3>1, <3>2
    <3>3. CASE f.value # NoValue
      BY <1>1, <1>3, <1>4, <3>1, <3>3
    <3> QED BY <3>2, <3>3
  <2>4. f.dashes \in Nat
    BY <1>1
  <2>5. f.dashes > 2 \/ f.dashes <= 2
    BY <2>4
  <2> QED BY <2>1, <2>2, <2>3, <2>5
<1> QED BY <1>7

\* The state t is s in mode m with other operands.
becomes(t, s, m, rest) ==
    /\ t.mode = m /\ t.rest = rest
    /\ t.flag = s.flag /\ t.format = s.format /\ t.recursive = s.recursive

\* What setFlag does to a state.
LEMMA SetFlag ==
    ASSUME NEW s \in ParseState, NEW n, NEW v \in Text
    PROVE  /\ setFlag(s, n, v) \in ParseState
           /\ setFlag(s, n, v).mode = "any" /\ setFlag(s, n, v).rest = s.rest
           /\ setFlag(s, n, v).flag = s.flag
           /\ setFlag(s, n, v).format = IF n = "format" THEN v ELSE s.format
           /\ setFlag(s, n, v).recursive = IF n = "recursive" THEN v = "true" ELSE s.recursive
PROOF
<1> DEFINE fmt == IF n = "format" THEN v ELSE s.format
           rcs == IF n = "recursive" THEN v = "true" ELSE s.recursive
<1>1. s = [mode |-> s.mode, flag |-> s.flag, format |-> s.format, recursive |-> s.recursive,
           rest |-> s.rest]
  BY DEF ParseState
<1>2. setFlag(s, n, v) = [mode |-> "any", flag |-> s.flag, format |-> fmt, recursive |-> rcs,
                          rest |-> s.rest]
  <2>1. setFlag(s, n, v) = [s EXCEPT !.mode = "any", !.format = fmt, !.recursive = rcs]
    BY Zenon DEF setFlag
  <2> HIDE DEF fmt, rcs
  <2> QED BY <1>1, <2>1
<1>3. fmt \in Text /\ (rcs \in BOOLEAN) /\ s.flag \in Text /\ s.rest \in Seq(Arg)
  BY DEF ParseState
<1>4. setFlag(s, n, v).format = fmt /\ setFlag(s, n, v).recursive = rcs
  BY <1>2
<1> HIDE DEF fmt, rcs
<1>5. /\ setFlag(s, n, v) \in ParseState
      /\ setFlag(s, n, v).mode = "any" /\ setFlag(s, n, v).rest = s.rest
      /\ setFlag(s, n, v).flag = s.flag
  BY <1>2, <1>3 DEF ParseState
<1> QED BY <1>4, <1>5 DEF fmt, rcs

\* A flag means the same whatever the operands already read.
LEMMA ParseFlagAlike ==
    ASSUME NEW cmd, NEW s \in ParseState, NEW t \in ParseState, NEW a \in Arg, alike(s, t)
    PROVE  alike(parseFlag(cmd, s, a), parseFlag(cmd, t, a))
PROOF
<1> DEFINE f == Lex[a]
           S == parseFlag(cmd, s, a)
           T == parseFlag(cmd, t, a)
<1>1. /\ f.dashes \in Nat /\ f.name \in Text /\ f.value \in Text
      /\ "true" \in Text /\ "false" \in Text
  BY LexAssumption DEF Text
<1> DEFINE yes == trueText \cup {NoValue}
<1>b. yes \cap falseText = {}
  BY LexAssumption DEF trueText, falseText
<1>2. f.name \in boolFlags(cmd) => f.name \notin valueFlags
  BY DEF boolFlags, valueFlags
<1>3. ASSUME NEW n, NEW v \in Text PROVE alike(setFlag(s, n, v), setFlag(t, n, v))
  BY <1>3, SetFlag DEF alike
<1>4. alike([s EXCEPT !.mode = "error"], [t EXCEPT !.mode = "error"])
  BY DEF alike, ParseState
<1>5. CASE f.dashes > 2 \/ ~(f.name \in boolFlags(cmd) \/ f.name \in valueFlags)
  <2>1. S = [s EXCEPT !.mode = "error"] /\ T = [t EXCEPT !.mode = "error"]
    BY <1>1, <1>5 DEF parseFlag
  <2> HIDE DEF S, T
  <2>2. alike(S, T)
    BY <1>4, <2>1
  <2> QED BY <2>2 DEF S, T
<1>6. CASE f.dashes <= 2 /\ f.name \in boolFlags(cmd)
  <2> DEFINE set(u) == CASE f.value \in yes -> setFlag(u, f.name, "true")
                         [] f.value \in falseText -> setFlag(u, f.name, "false")
                         [] OTHER -> [u EXCEPT !.mode = "error"]
  <2>1. S = set(s) /\ T = set(t)
    BY <1>1, <1>2, <1>6 DEF parseFlag
  <2>2. alike(set(s), set(t))
    <3> HIDE DEF yes
    <3>1. CASE f.value \in yes
      <4>1. f.value \notin falseText
        BY <1>b, <3>1
      <4>2. set(s) = setFlag(s, f.name, "true") /\ set(t) = setFlag(t, f.name, "true")
        BY <3>1, <4>1
      <4> HIDE DEF f, set
      <4> QED BY <1>1, <1>3, <4>2
    <3>2. CASE f.value \in falseText
      <4>1. f.value \notin yes
        BY <1>b, <3>2
      <4>2. set(s) = setFlag(s, f.name, "false") /\ set(t) = setFlag(t, f.name, "false")
        BY <3>2, <4>1
      <4> HIDE DEF f, set
      <4> QED BY <1>1, <1>3, <4>2
    <3>3. CASE f.value \notin yes /\ f.value \notin falseText
      <4>1. set(s) = [s EXCEPT !.mode = "error"] /\ set(t) = [t EXCEPT !.mode = "error"]
        BY <3>3
      <4> HIDE DEF f, set
      <4> QED BY <1>4, <4>1
    <3> QED BY <3>1, <3>2, <3>3
  <2> HIDE DEF set, S, T
  <2>3. alike(S, T)
    BY <2>1, <2>2
  <2> QED BY <2>3 DEF S, T
<1>7. CASE f.dashes <= 2 /\ f.name \in valueFlags
  <2>1. CASE f.value = NoValue
    <3>1. /\ S = [s EXCEPT !.mode = "value", !.flag = f.name]
          /\ T = [t EXCEPT !.mode = "value", !.flag = f.name]
      BY <1>1, <1>2, <1>7, <2>1 DEF parseFlag
    <3>2. ASSUME NEW n PROVE alike([s EXCEPT !.mode = "value", !.flag = n],
                                   [t EXCEPT !.mode = "value", !.flag = n])
      BY DEF alike, ParseState
    <3> QED BY <3>1, <3>2
  <2>2. CASE f.value # NoValue
    <3>1. S = setFlag(s, f.name, f.value) /\ T = setFlag(t, f.name, f.value)
      BY <1>1, <1>2, <1>7, <2>2 DEF parseFlag
    <3> QED BY <1>1, <1>3, <3>1
  <2> QED BY <2>1, <2>2
<1>8. f.dashes > 2 \/ f.dashes <= 2
  BY <1>1
<1> QED BY <1>5, <1>6, <1>7, <1>8

LEMMA Becomes ==
    ASSUME NEW s \in ParseState, NEW m \in {"any", "operands"}, NEW a \in Arg
    PROVE  /\ [s EXCEPT !.mode = m] \in ParseState
           /\ becomes([s EXCEPT !.mode = m], s, m, s.rest)
           /\ [s EXCEPT !.mode = m, !.rest = Append(@, a)] \in ParseState
           /\ becomes([s EXCEPT !.mode = m, !.rest = Append(@, a)], s, m, Append(s.rest, a))
PROOF
<1>1. s.rest \in Seq(Arg)
  BY DEF ParseState
<1>2. Append(s.rest, a) \in Seq(Arg)
  BY <1>1
<1>3. [s EXCEPT !.mode = m] \in ParseState /\ becomes([s EXCEPT !.mode = m], s, m, s.rest)
  BY DEF ParseState, becomes
<1>4. ASSUME NEW rest \in Seq(Arg)
      PROVE  /\ [s EXCEPT !.mode = m, !.rest = rest] \in ParseState
             /\ becomes([s EXCEPT !.mode = m, !.rest = rest], s, m, rest)
  BY DEF ParseState, becomes
<1> QED BY <1>2, <1>3, <1>4

\* One argument of Parse, by what it is.
LEMMA ParseStep ==
    ASSUME NEW cmd, NEW s \in ParseState, NEW a \in Arg
    PROVE  /\ parseStep(cmd, s, a) \in ParseState
           /\ s.mode = "error" => parseStep(cmd, s, a) = s
           /\ s.mode = "operands" => becomes(parseStep(cmd, s, a), s, "operands", Append(s.rest, a))
           /\ s.mode = "value" => parseStep(cmd, s, a) = setFlag(s, s.flag, a)
           /\ s.mode = "any" /\ a = "--" => becomes(parseStep(cmd, s, a), s, "operands", s.rest)
           /\ s.mode = "any" /\ a # "--" /\ dashed(a) => parseStep(cmd, s, a) = parseFlag(cmd, s, a)
           /\ s.mode = "any" /\ ~dashed(a) =>
                 becomes(parseStep(cmd, s, a), s, "operands", Append(s.rest, a))
PROOF
<1> DEFINE t == parseStep(cmd, s, a)
<1>1. a = "--" => dashed(a)
  BY LexAssumption DEF dashed
<1>2. s.mode \in {"any", "value", "operands", "error"} /\ s.flag \in Text /\ a \in Text
  <2>1. a \in Text
    BY DEF Text
  <2> QED BY <2>1 DEF ParseState
<1>3. ASSUME s.mode = "error" PROVE t = s
  BY <1>3 DEF parseStep
<1>4. ASSUME s.mode = "operands"
      PROVE  t \in ParseState /\ becomes(t, s, "operands", Append(s.rest, a))
  <2>1. t = [s EXCEPT !.mode = "operands", !.rest = Append(@, a)]
    <3>1. t = [s EXCEPT !.rest = Append(@, a)]
      BY <1>4 DEF parseStep
    <3> QED BY <1>4, <3>1 DEF ParseState
  <2> HIDE DEF t
  <2> QED BY <2>1, Becomes
<1>5. ASSUME s.mode = "value" PROVE t = setFlag(s, s.flag, a) /\ t \in ParseState
  <2>1. t = setFlag(s, s.flag, a)
    BY <1>5 DEF parseStep
  <2> HIDE DEF t
  <2> QED BY <1>2, <2>1, SetFlag
<1>6. ASSUME s.mode = "any", a = "--"
      PROVE  t \in ParseState /\ becomes(t, s, "operands", s.rest)
  <2>1. t = [s EXCEPT !.mode = "operands"]
    BY <1>1, <1>6 DEF parseStep
  <2> HIDE DEF t
  <2> QED BY <2>1, Becomes
<1>7. ASSUME s.mode = "any", a # "--", dashed(a) PROVE t = parseFlag(cmd, s, a) /\ t \in ParseState
  <2>1. t = parseFlag(cmd, s, a)
    BY <1>7 DEF parseStep
  <2> HIDE DEF t
  <2> QED BY <2>1, ParseFlag
<1>8. ASSUME s.mode = "any", ~dashed(a)
      PROVE  t \in ParseState /\ becomes(t, s, "operands", Append(s.rest, a))
  <2>1. t = [s EXCEPT !.mode = "operands", !.rest = Append(@, a)]
    BY <1>1, <1>8 DEF parseStep
  <2> HIDE DEF t
  <2> QED BY <2>1, Becomes
<1>9. t \in ParseState
  <2> HIDE DEF t
  <2> QED BY <1>2, <1>3, <1>4, <1>5, <1>6, <1>7, <1>8
<1> QED BY <1>3, <1>4, <1>5, <1>6, <1>7, <1>8, <1>9

-----------------------------------------------------------------------------
(***************************************************************************)
(* The two passes of run, seen after the same arguments: reorderArgs is in    *)
(* state r, Parse has read what it moved to the front and is in state f, and  *)
(* the single pass is in state p.                                           *)
(***************************************************************************)
agree(r, p, f) ==
    /\ p.mode = "error" <=> f.mode = "error"
    /\ p.mode # "error" =>
          /\ p.mode = r.mode /\ p.rest = r.positional
          /\ f.rest = <<>> /\ f.mode = IF r.mode = "value" THEN "value" ELSE "any"
          /\ p.flag = f.flag /\ p.format = f.format /\ p.recursive = f.recursive

\* The single pass reads like Parse, but goes on behind an operand.
LEMMA PermuteStep ==
    ASSUME NEW cmd, NEW s \in ParseState, NEW a \in Arg
    PROVE  /\ permuteStep(cmd, s, a) \in ParseState
           /\ s.mode # "any" \/ dashed(a) => permuteStep(cmd, s, a) = parseStep(cmd, s, a)
           /\ s.mode = "any" /\ ~dashed(a) =>
                 becomes(permuteStep(cmd, s, a), s, "any", Append(s.rest, a))
PROOF
<1> DEFINE t == permuteStep(cmd, s, a)
<1>1. ASSUME s.mode # "any" \/ dashed(a) PROVE t = parseStep(cmd, s, a) /\ t \in ParseState
  BY <1>1, ParseStep DEF permuteStep
<1>2. ASSUME s.mode = "any", ~dashed(a)
      PROVE  t \in ParseState /\ becomes(t, s, "any", Append(s.rest, a))
  <2>1. t = [s EXCEPT !.mode = "any", !.rest = Append(@, a)]
    <3>1. t = [s EXCEPT !.rest = Append(@, a)]
      BY <1>2 DEF permuteStep
    <3> QED BY <1>2, <3>1 DEF ParseState
  <2> HIDE DEF t
  <2> QED BY <2>1, Becomes
<1> QED BY <1>1, <1>2

\* An argument is moved to the front and read there by Parse, or kept back as
\* an operand; either way the two sides still agree.
LEMMA PassStep ==
    ASSUME NEW cmd, NEW r \in ReorderState, NEW p \in ParseState, NEW f \in ParseState,
           NEW a \in Arg, agree(r, p, f)
    PROVE  \/ /\ reorderStep(cmd, r, a).flags = r.flags
              /\ agree(reorderStep(cmd, r, a), permuteStep(cmd, p, a), f)
           \/ /\ reorderStep(cmd, r, a).flags = Append(r.flags, a)
              /\ agree(reorderStep(cmd, r, a), permuteStep(cmd, p, a), parseStep(cmd, f, a))
PROOF
<1> DEFINE u == reorderStep(cmd, r, a)
           q == permuteStep(cmd, p, a)
           g == parseStep(cmd, f, a)
<1>u. u = reorderStep(cmd, r, a)
  OBVIOUS
<1>q. q = permuteStep(cmd, p, a) /\ g = parseStep(cmd, f, a)
  OBVIOUS
<1> HIDE DEF u, q, g
<1>1. /\ r.mode \in {"any", "value", "operands"}
      /\ a = "--" => dashed(a)
      /\ u.flags = r.flags \/ u.flags = Append(r.flags, a)
  <2>1. r.mode \in {"any", "value", "operands"} /\ (a = "--" => dashed(a))
    BY LexAssumption DEF ReorderState, dashed
  <2>2. u.flags = r.flags \/ u.flags = Append(r.flags, a)
    BY <1>u, FlagsGrow
  <2> QED BY <2>1, <2>2
<1>2. CASE p.mode = "error"
  <2>1. f.mode = "error"
    BY <1>2 DEF agree
  <2>2. q = p /\ g = f
    <3>1. p.mode # "any"
      BY <1>2
    <3>2. q = parseStep(cmd, p, a)
      BY <3>1, <1>q, PermuteStep, Zenon
    <3>3. parseStep(cmd, p, a) = p
      BY <1>2, <1>q, ParseStep, Zenon
    <3>4. g = f
      BY <2>1, <1>q, ParseStep, Zenon
    <3> QED BY <3>2, <3>3, <3>4
  <2>3. agree(u, q, f) /\ agree(u, q, g)
    BY <1>2, <2>1, <2>2 DEF agree
  <2> QED BY <1>1, <2>3 DEF u, q, g
<1>3. CASE p.mode # "error"
  <2>1. /\ f.mode # "error" /\ p.mode = r.mode /\ p.rest = r.positional
        /\ f.rest = <<>> /\ f.mode = IF r.mode = "value" THEN "value" ELSE "any"
        /\ p.flag = f.flag /\ p.format = f.format /\ p.recursive = f.recursive
    BY <1>3 DEF agree
  <2>2. CASE r.mode = "operands"
    <3>1. u = [mode |-> "operands", flags |-> r.flags, positional |-> Append(r.positional, a)]
      BY <2>2, <1>u, ReorderStep, Zenon
    <3>2. becomes(q, p, "operands", Append(p.rest, a))
      <4>1. p.mode = "operands" /\ p.mode # "any"
        BY <2>1, <2>2
      <4>2. q = parseStep(cmd, p, a)
        BY <4>1, <1>q, PermuteStep, Zenon
      <4> QED BY <4>1, <4>2, <1>q, ParseStep, Zenon
    <3>3. agree(u, q, f)
      BY <2>1, <2>2, <3>1, <3>2 DEF agree, becomes
    <3> QED BY <3>1, <3>3 DEF u, q, g
  <2>3. CASE r.mode = "value"
    <3>1. u = [mode |-> "any", flags |-> Append(r.flags, a), positional |-> r.positional]
      BY <2>3, <1>u, ReorderStep, Zenon
    <3>2. q = setFlag(p, p.flag, a) /\ g = setFlag(f, f.flag, a)
      <4>1. p.mode = "value" /\ f.mode = "value" /\ p.mode # "any"
        BY <2>1, <2>3
      <4>2. q = parseStep(cmd, p, a)
        BY <4>1, <1>q, PermuteStep, Zenon
      <4> QED BY <4>1, <4>2, <1>q, ParseStep, Zenon
    <3>3. a \in Text
      BY DEF Text
    <3>4. agree(u, q, g)
      BY <2>1, <2>3, <3>1, <3>2, <3>3, SetFlag DEF agree
    <3> QED BY <3>1, <3>4 DEF u, q, g
  <2>4. CASE r.mode = "any" /\ a = "--"
    <3>1. u = [mode |-> "operands", flags |-> r.flags, positional |-> r.positional]
      BY <2>4, <1>u, ReorderStep, Zenon
    <3>2. becomes(q, p, "operands", p.rest)
      <4>1. p.mode = "any" /\ a = "--" /\ dashed(a)
        BY <1>1, <2>1, <2>4
      <4>2. q = parseStep(cmd, p, a)
        BY <4>1, <1>q, PermuteStep, Zenon
      <4> QED BY <4>1, <4>2, <1>q, ParseStep, Zenon
    <3>3. agree(u, q, f)
      BY <2>1, <2>4, <3>1, <3>2 DEF agree, becomes
    <3> QED BY <3>1, <3>3 DEF u, q, g
  <2>5. CASE r.mode = "any" /\ a # "--" /\ dashed(a)
    <3>1. u = [mode |-> IF takesNext(cmd, a) THEN "value" ELSE "any",
              flags |-> Append(r.flags, a), positional |-> r.positional]
      BY <2>5, <1>u, ReorderStep, Zenon
    <3>2. q = parseFlag(cmd, p, a) /\ g = parseFlag(cmd, f, a)
      <4>1. p.mode = "any" /\ f.mode = "any" /\ a # "--" /\ dashed(a)
        BY <2>1, <2>5
      <4>2. q = parseStep(cmd, p, a)
        BY <4>1, <1>q, PermuteStep, Zenon
      <4> QED BY <4>1, <4>2, <1>q, ParseStep, Zenon
    <3>3. alike(p, f)
      BY <2>1, <2>5 DEF alike
    <3>4. alike(q, g)
      BY <3>2, <3>3, ParseFlagAlike
    <3>5. /\ q \in ParseState /\ q.rest = p.rest /\ g.rest = f.rest
          /\ q.mode # "operands"
          /\ q.mode # "error" => (q.mode = "value" <=> takesNext(cmd, a))
      BY <3>2, ParseFlag
    <3>6. q.mode \in {"any", "value", "operands", "error"}
      BY <3>5 DEF ParseState
    <3>7. q.mode # "error" => q.mode = u.mode /\ u.mode \in {"value", "any"}
      <4>1. u.mode = IF takesNext(cmd, a) THEN "value" ELSE "any"
        BY <3>1
      <4> QED BY <3>5, <3>6, <4>1
    <3>8. agree(u, q, g)
      BY <2>1, <3>1, <3>4, <3>5, <3>7 DEF agree, alike
    <3> QED BY <3>1, <3>8 DEF u, q, g
  <2>6. CASE r.mode = "any" /\ ~dashed(a)
    <3>1. u = [mode |-> "any", flags |-> r.flags, positional |-> Append(r.positional, a)]
      BY <2>6, <1>u, ReorderStep, Zenon
    <3>2. becomes(q, p, "any", Append(p.rest, a))
      <4>1. p.mode = "any"
        BY <2>1, <2>6
      <4> QED BY <2>6, <4>1, <1>q, PermuteStep, Zenon
    <3>3. agree(u, q, f)
      BY <2>1, <2>6, <3>1, <3>2 DEF agree, becomes
    <3> QED BY <3>1, <3>3 DEF u, q, g
  <2> QED BY <1>1, <2>2, <2>3, <2>4, <2>5, <2>6
<1> QED BY <1>2, <1>3 DEF u, q, g

-----------------------------------------------------------------------------
(***************************************************************************)
(* The three passes as sequences of states.                                  *)
(***************************************************************************)
nothingRead == [mode |-> "any", flags |-> <<>>, positional |-> <<>>]

LEMMA PassStarts == nothingRead \in ReorderState /\ unparsed \in ParseState
PROOF
<1>1. "" \in Text /\ "table" \in Text /\ <<>> \in Seq(Arg)
  BY DEF Text
<1>2. unparsed \in ParseState
  <2> HIDE DEF Text
  <2> QED BY <1>1 DEF unparsed, ParseState
<1> QED BY <1>1, <1>2 DEF nothingRead, ReorderState

LEMMA Reordering ==
    ASSUME NEW cmd, NEW args \in Seq(Arg)
    PROVE  \E g \in [0..Len(args) -> ReorderState] :
              /\ g[0] = nothingRead
              /\ \A i \in 1..Len(args) : g[i] = reorderStep(cmd, g[i - 1], args[i])
              /\ reordering(cmd, args) = g[Len(args)]
PROOF
<1> DEFINE F == [x \in ReorderState \X Arg |-> reorderStep(cmd, x[1], x[2])]
           body(h) == [i \in 0..Len(args) |->
                          IF i = 0 THEN nothingRead ELSE reorderStep(cmd, h[i - 1], args[i])]
           c == CHOOSE h : h = body(h)
<1>1. Len(args) \in Nat /\ \A i \in 1..Len(args) : args[i] \in Arg
  OBVIOUS
<1>2. F \in [ReorderState \X Arg -> ReorderState] /\ nothingRead \in ReorderState
  <2>1. \A s \in ReorderState, a \in Arg : reorderStep(cmd, s, a) \in ReorderState
    BY ReorderStep, Zenon
  <2>2. F \in [ReorderState \X Arg -> ReorderState]
    BY <2>1
  <2> QED BY <2>2, PassStarts
<1>3. PICK g \in [0..Len(args) -> ReorderState] : onlyPass(g, F, nothingRead, args, ReorderState)
  <2> HIDE DEF F
  <2> QED BY <1>2, PassExists, Zenon
<1>4. ASSUME NEW i \in 1..Len(args) PROVE g[i] = reorderStep(cmd, g[i - 1], args[i])
  <2>1. g[i - 1] \in ReorderState /\ args[i] \in Arg
    BY <1>1, <1>4
  <2> HIDE DEF F
  <2>2. g[i] = F[<<g[i - 1], args[i]>>]
    BY <1>3 DEF onlyPass, follows
  <2> QED BY <2>1, <2>2 DEF F
<1>5. g = body(g)
  <2>1. ASSUME NEW i \in 0..Len(args) PROVE g[i] = body(g)[i]
    BY <1>1, <1>3, <1>4 DEF onlyPass, follows
  <2> QED BY <2>1
<1>6. c = body(c)
  <2> HIDE DEF body
  <2> QED BY <1>5, Zenon
<1>7. /\ c[0] = nothingRead
      /\ \A i \in 1..Len(args) : c[i] = reorderStep(cmd, c[i - 1], args[i])
  <2> HIDE DEF c
  <2>1. \A i \in 0..Len(args) : c[i] = body(c)[i]
    BY <1>6
  <2> QED BY <1>1, <2>1
<1>8. c[Len(args)] = g[Len(args)]
  <2> HIDE DEF c
  <2>1. tracks(c, F, nothingRead, args, ReorderState)
    BY <1>1, <1>7 DEF tracks
  <2> HIDE DEF F
  <2> QED BY <1>3, <2>1 DEF onlyPass
<1>9. reordering(cmd, args) = c[Len(args)]
  BY DEF reordering, nothingRead
<1> HIDE DEF c
<1>10. reordering(cmd, args) = g[Len(args)]
  BY <1>8, <1>9
<1> QED BY <1>3, <1>4, <1>10 DEF onlyPass, follows

LEMMA Parsed ==
    ASSUME NEW cmd, NEW list \in Seq(Arg)
    PROVE  \E g \in [0..Len(list) -> ParseState] :
              /\ g[0] = unparsed
              /\ \A i \in 1..Len(list) : g[i] = parseStep(cmd, g[i - 1], list[i])
              /\ \A args : list = reorderArgs(cmd, args) =>
                    commandLine(cmd, args) = jobOf(cmd, g[Len(list)])
PROOF
<1> DEFINE F == [x \in ParseState \X Arg |-> parseStep(cmd, x[1], x[2])]
           body(h) == [i \in 0..Len(list) |->
                          IF i = 0 THEN unparsed ELSE parseStep(cmd, h[i - 1], list[i])]
           c == CHOOSE h : h = body(h)
<1>1. Len(list) \in Nat /\ \A i \in 1..Len(list) : list[i] \in Arg
  OBVIOUS
<1>2. F \in [ParseState \X Arg -> ParseState] /\ unparsed \in ParseState
  <2>1. \A s \in ParseState, a \in Arg : parseStep(cmd, s, a) \in ParseState
    BY ParseStep, Zenon
  <2>2. F \in [ParseState \X Arg -> ParseState]
    BY <2>1
  <2> QED BY <2>2, PassStarts
<1>3. PICK g \in [0..Len(list) -> ParseState] : onlyPass(g, F, unparsed, list, ParseState)
  <2> HIDE DEF F
  <2> QED BY <1>2, PassExists, Zenon
<1>4. ASSUME NEW i \in 1..Len(list) PROVE g[i] = parseStep(cmd, g[i - 1], list[i])
  <2>1. g[i - 1] \in ParseState /\ list[i] \in Arg
    BY <1>1, <1>4
  <2> HIDE DEF F
  <2>2. g[i] = F[<<g[i - 1], list[i]>>]
    BY <1>3 DEF onlyPass, follows
  <2> QED BY <2>1, <2>2 DEF F
<1>5. g = body(g)
  <2>1. ASSUME NEW i \in 0..Len(list) PROVE g[i] = body(g)[i]
    BY <1>1, <1>3, <1>4 DEF onlyPass, follows
  <2> QED BY <2>1
<1>6. c = body(c)
  <2> HIDE DEF body
  <2> QED BY <1>5, Zenon
<1>7. /\ c[0] = unparsed
      /\ \A i \in 1..Len(list) : c[i] = parseStep(cmd, c[i - 1], list[i])
  <2> HIDE DEF c
  <2>1. \A i \in 0..Len(list) : c[i] = body(c)[i]
    BY <1>6
  <2> QED BY <1>1, <2>1
<1>8. c[Len(list)] = g[Len(list)]
  <2> HIDE DEF c
  <2>1. tracks(c, F, unparsed, list, ParseState)
    BY <1>1, <1>7 DEF tracks
  <2> HIDE DEF F
  <2> QED BY <1>3, <2>1 DEF onlyPass
<1>9. \A args : list = reorderArgs(cmd, args) => commandLine(cmd, args) = jobOf(cmd, c[Len(list)])
  BY DEF commandLine
<1> HIDE DEF c
<1>10. \A args : list = reorderArgs(cmd, args) => commandLine(cmd, args) = jobOf(cmd, g[Len(list)])
  BY <1>8, <1>9
<1> QED BY <1>3, <1>4, <1>10 DEF onlyPass, follows

LEMMA Permuted ==
    ASSUME NEW cmd, NEW args \in Seq(Arg)
    PROVE  \E g \in [0..Len(args) -> ParseState] :
              /\ g[0] = unparsed
              /\ \A i \in 1..Len(args) : g[i] = permuteStep(cmd, g[i - 1], args[i])
              /\ permuted(cmd, args) = jobOf(cmd, g[Len(args)])
PROOF
<1> DEFINE F == [x \in ParseState \X Arg |-> permuteStep(cmd, x[1], x[2])]
           body(h) == [i \in 0..Len(args) |->
                          IF i = 0 THEN unparsed ELSE permuteStep(cmd, h[i - 1], args[i])]
           c == CHOOSE h : h = body(h)
<1>1. Len(args) \in Nat /\ \A i \in 1..Len(args) : args[i] \in Arg
  OBVIOUS
<1>2. F \in [ParseState \X Arg -> ParseState] /\ unparsed \in ParseState
  <2>1. \A s \in ParseState, a \in Arg : permuteStep(cmd, s, a) \in ParseState
    BY PermuteStep, Zenon
  <2>2. F \in [ParseState \X Arg -> ParseState]
    BY <2>1
  <2> QED BY <2>2, PassStarts
<1>3. PICK g \in [0..Len(args) -> ParseState] : onlyPass(g, F, unparsed, args, ParseState)
  <2> HIDE DEF F
  <2> QED BY <1>2, PassExists, Zenon
<1>4. ASSUME NEW i \in 1..Len(args) PROVE g[i] = permuteStep(cmd, g[i - 1], args[i])
  <2>1. g[i - 1] \in ParseState /\ args[i] \in Arg
    BY <1>1, <1>4
  <2> HIDE DEF F
  <2>2. g[i] = F[<<g[i - 1], args[i]>>]
    BY <1>3 DEF onlyPass, follows
  <2> QED BY <2>1, <2>2 DEF F
<1>5. g = body(g)
  <2>1. ASSUME NEW i \in 0..Len(args) PROVE g[i] = body(g)[i]
    BY <1>1, <1>3, <1>4 DEF onlyPass, follows
  <2> QED BY <2>1
<1>6. c = body(c)
  <2> HIDE DEF body
  <2> QED BY <1>5, Zenon
<1>7. /\ c[0] = unparsed
      /\ \A i \in 1..Len(args) : c[i] = permuteStep(cmd, c[i - 1], args[i])
  <2> HIDE DEF c
  <2>1. \A i \in 0..Len(args) : c[i] = body(c)[i]
    BY <1>6
  <2> QED BY <1>1, <2>1
<1>8. c[Len(args)] = g[Len(args)]
  <2> HIDE DEF c
  <2>1. tracks(c, F, unparsed, args, ParseState)
    BY <1>1, <1>7 DEF tracks
  <2> HIDE DEF F
  <2> QED BY <1>3, <2>1 DEF onlyPass
<1>9. permuted(cmd, args) = jobOf(cmd, c[Len(args)])
  BY DEF permuted
<1> HIDE DEF c
<1>10. permuted(cmd, args) = jobOf(cmd, g[Len(args)])
  BY <1>8, <1>9
<1> QED BY <1>3, <1>4, <1>10 DEF onlyPass, follows

-----------------------------------------------------------------------------
\* What reorderArgs has moved to the front so far begins what Parse will read.
begins(u, v) == Len(u) <= Len(v) /\ \A j \in 1..Len(u) : u[j] = v[j]

\* A sequence begins what it is continued by...
LEMMA Begins ==
    ASSUME NEW u \in Seq(Arg), NEW v \in Seq(Arg), NEW a \in Arg
    PROVE  /\ begins(u, u) /\ begins(u, u \o v)
           /\ begins(u, v) => begins(u, Append(v, a))
PROOF
<1>1. Len(u) \in Nat /\ Len(v) \in Nat
  OBVIOUS
<1> QED BY <1>1 DEF begins

\* In a run of sequences that only grow, each begins the last.
LEMMA BeginsAll ==
    ASSUME NEW n \in Nat, NEW R \in [0..n -> Seq(Arg)],
           \A i \in 1..n : R[i] = R[i - 1] \/ \E a \in Arg : R[i] = Append(R[i - 1], a)
    PROVE  \A i \in 0..n : begins(R[i], R[n])
PROOF
<1> DEFINE K == {k \in 0..n : \A i \in 0..k : begins(R[i], R[k])}
<1>1. 0 \in K
  <2>1. begins(R[0], R[0]) /\ \A i \in 0..0 : i = 0
    BY Begins DEF begins
  <2> QED BY <2>1
<1>2. ASSUME NEW k \in 0..n, k < n, k \in K PROVE k + 1 \in K
  <2>1. k + 1 \in 1..n /\ (k + 1) - 1 = k /\ k + 1 \in 0..n
    BY <1>2
  <2>2. R[k + 1] = R[k] \/ \E a \in Arg : R[k + 1] = Append(R[k], a)
    BY <2>1
  <2>3. ASSUME NEW i \in 0..k PROVE begins(R[i], R[k + 1])
    <3>1. begins(R[i], R[k]) /\ i \in 0..n /\ R[i] \in Seq(Arg) /\ R[k] \in Seq(Arg)
      BY <1>2, <2>3
    <3> QED BY <2>2, <3>1, Begins
  <2>4. begins(R[k + 1], R[k + 1])
    BY <2>1 DEF begins
  <2>5. \A i \in 0..(k + 1) : i \in 0..k \/ i = k + 1
    OBVIOUS
  <2>6. \A i \in 0..(k + 1) : begins(R[i], R[k + 1])
    BY <2>3, <2>4, <2>5
  <2> QED BY <2>1, <2>6
<1>3. n \in K
  <2> HIDE DEF K
  <2>1. n \in 0..n
    OBVIOUS
  <2> QED BY <1>1, <1>2, <2>1, CountUp
<1> QED BY <1>3

\* Parse returns at its first error.
LEMMA ErrorStays ==
    ASSUME NEW cmd, NEW list \in Seq(Arg), NEW C \in [0..Len(list) -> ParseState],
           \A i \in 1..Len(list) : C[i] = parseStep(cmd, C[i - 1], list[i]),
           NEW m \in 0..Len(list), C[m].mode = "error"
    PROVE  C[Len(list)].mode = "error"
PROOF
<1> DEFINE K == {k \in 0..(Len(list) - m) : C[m + k].mode = "error"}
<1>1. Len(list) \in Nat /\ m \in Nat /\ Len(list) - m \in Nat
  OBVIOUS
<1>2. 0 \in K
  BY <1>1
<1>3. ASSUME NEW k \in 0..(Len(list) - m), k < Len(list) - m, k \in K PROVE k + 1 \in K
  <2>1. /\ m + (k + 1) \in 1..Len(list) /\ (m + (k + 1)) - 1 = m + k /\ m + k \in 0..Len(list)
        /\ k + 1 \in 0..(Len(list) - m)
    BY <1>1, <1>3
  <2>2. /\ C[m + (k + 1)] = parseStep(cmd, C[m + k], list[m + (k + 1)])
        /\ list[m + (k + 1)] \in Arg /\ C[m + k] \in ParseState
    BY <2>1
  <2>3. C[m + (k + 1)] = C[m + k]
    BY <1>3, <2>2, ParseStep, Zenon
  <2> QED BY <1>3, <2>1, <2>3
<1>4. Len(list) - m \in K
  <2>1. Len(list) - m \in 0..(Len(list) - m)
    BY <1>1
  <2> HIDE DEF K
  <2> QED BY <1>1, <1>2, <1>3, <2>1, CountUp
<1> QED BY <1>1, <1>4

\* From state c on, state e has read all of list behind m as operands.
hasRead(e, c, list, m) ==
    /\ e.mode = "operands"
    /\ e.format = c.format /\ e.recursive = c.recursive
    /\ Len(e.rest) = Len(list) - m
    /\ \A i \in 1..(Len(list) - m) : e.rest[i] = list[m + i]

\* From an operand that starts with no dash on, everything is an operand.
LEMMA OperandsRead ==
    ASSUME NEW cmd, NEW list \in Seq(Arg), NEW C \in [0..Len(list) -> ParseState],
           \A i \in 1..Len(list) : C[i] = parseStep(cmd, C[i - 1], list[i]),
           NEW m \in 0..Len(list), C[m].mode = "any", C[m].rest = <<>>,
           m < Len(list), ~dashed(list[m + 1])
    PROVE  hasRead(C[Len(list)], C[m], list, m)
PROOF
<1> DEFINE reads(k, e) == /\ e.mode = "operands"
                          /\ e.format = C[m].format /\ e.recursive = C[m].recursive
                          /\ Len(e.rest) = k + 1
                          /\ \A i \in 1..(k + 1) : e.rest[i] = list[m + i]
           last == Len(list) - m - 1
           K == {k \in 0..last : reads(k, C[m + 1 + k])}
<1>1. Len(list) \in Nat /\ m \in Nat /\ last \in Nat /\ m + 1 + last = Len(list) /\ last + 1 = Len(list) - m
  OBVIOUS
<1> HIDE DEF last
<1>2. ASSUME NEW i \in 1..Len(list)
      PROVE  C[i - 1] \in ParseState /\ list[i] \in Arg /\ C[i - 1].rest \in Seq(Arg)
  <2>1. i - 1 \in 0..Len(list)
    BY <1>1
  <2>2. C[i - 1] \in ParseState /\ list[i] \in Arg
    BY <2>1
  <2> QED BY <2>2 DEF ParseState
<1>3. 0 \in K
  <2>1. m + 1 \in 1..Len(list) /\ (m + 1) - 1 = m
    BY <1>1
  <2>2. C[m + 1] = parseStep(cmd, C[m], list[m + 1]) /\ C[m] \in ParseState /\ list[m + 1] \in Arg
    BY <2>1, <1>2
  <2>3. becomes(C[m + 1], C[m], "operands", Append(C[m].rest, list[m + 1]))
    <3>1. C[m].mode = "any" /\ ~dashed(list[m + 1])
      OBVIOUS
    <3> DEFINE a == list[m + 1]
               c == C[m]
    <3>2. c \in ParseState /\ a \in Arg /\ c.mode = "any" /\ ~dashed(a)
      BY <2>2, <3>1
    <3> HIDE DEF a, c
    <3>3. becomes(parseStep(cmd, c, a), c, "operands", Append(c.rest, a))
      BY <3>2, ParseStep, Zenon
    <3> QED BY <2>2, <3>3 DEF a, c
  <2>4. Append(C[m].rest, list[m + 1]) = <<list[m + 1]>>
    OBVIOUS
  <2>5. reads(0, C[m + 1])
    BY <1>1, <2>3, <2>4 DEF becomes
  <2>6. m + 1 + 0 = m + 1 /\ 0 \in 0..last
    BY <1>1
  <2> HIDE DEF reads
  <2> QED BY <2>5, <2>6
<1>4. ASSUME NEW k \in 0..last, k < last, k \in K PROVE k + 1 \in K
  <2> DEFINE j == m + 1 + k
  <2>1. /\ j + 1 \in 1..Len(list) /\ (j + 1) - 1 = j /\ m + 1 + (k + 1) = j + 1
        /\ k + 1 \in 0..last /\ j = m + (k + 1) /\ j \in Nat
    BY <1>1, <1>4
  <2>2. reads(k, C[j])
    BY <1>4
  <2> HIDE DEF j
  <2>3. /\ C[j + 1] = parseStep(cmd, C[j], list[j + 1]) /\ C[j] \in ParseState /\ list[j + 1] \in Arg
        /\ C[j].rest \in Seq(Arg)
    BY <2>1, <1>2
  <2>4. becomes(C[j + 1], C[j], "operands", Append(C[j].rest, list[j + 1]))
    <3>1. C[j].mode = "operands"
      BY <2>2
    <3> QED BY <2>3, <3>1, ParseStep, Zenon
  <2>5. j + 1 = m + (k + 2)
    BY <1>1, <2>1
  <2>6. /\ Len(Append(C[j].rest, list[j + 1])) = k + 2
        /\ \A i \in 1..(k + 2) : Append(C[j].rest, list[j + 1])[i] = list[m + i]
    <3>1. Len(C[j].rest) = k + 1 /\ \A i \in 1..(k + 1) : C[j].rest[i] = list[m + i]
      BY <2>2
    <3>2. \A i \in 1..(k + 2) : i \in 1..(k + 1) \/ i = k + 2
      BY <1>1
    <3> DEFINE w == C[j].rest
               a == list[j + 1]
    <3>3. w \in Seq(Arg) /\ a = list[m + (k + 2)] /\ k \in Nat
      BY <1>1, <2>3, <2>5
    <3>4. Len(w) = k + 1 /\ \A i \in 1..(k + 1) : w[i] = list[m + i]
      BY <3>1
    <3> HIDE DEF w, a
    <3>5. /\ Len(Append(w, a)) = k + 2 /\ Append(w, a)[k + 2] = a
          /\ \A i \in 1..(k + 1) : Append(w, a)[i] = w[i]
      BY <3>3, <3>4
    <3>6. \A i \in 1..(k + 2) : Append(w, a)[i] = list[m + i]
      BY <3>2, <3>3, <3>4, <3>5
    <3> QED BY <3>5, <3>6 DEF w, a
  <2>7. reads(k + 1, C[j + 1])
    <3>1. (k + 1) + 1 = k + 2
      BY <1>1
    <3> QED BY <2>2, <2>4, <2>6, <3>1 DEF becomes
  <2> HIDE DEF reads
  <2> QED BY <2>1, <2>7
<1>5. last \in K
  <2>1. last \in 0..last
    BY <1>1
  <2> HIDE DEF K
  <2> QED BY <1>1, <1>3, <1>4, <2>1, CountUp
<1>6. reads(last, C[Len(list)])
  BY <1>1, <1>5
<1> QED BY <1>1, <1>6 DEF hasRead

\* ...and begins what that begins.
LEMMA BeginsOver ==
    ASSUME NEW u \in Seq(Arg), NEW v \in Seq(Arg), NEW w \in Seq(Arg), begins(u, v), begins(v, w)
    PROVE  begins(u, w) /\ Len(u) \in 0..Len(w)
PROOF
<1>1. Len(u) \in Nat /\ Len(v) \in Nat /\ Len(w) \in Nat
  OBVIOUS
<1> QED BY <1>1 DEF begins

\* Over all the arguments.
LEMMA PassesAgree ==
    ASSUME NEW cmd, NEW args \in Seq(Arg), NEW list \in Seq(Arg),
           NEW R \in [0..Len(args) -> ReorderState], NEW P \in [0..Len(args) -> ParseState],
           NEW C \in [0..Len(list) -> ParseState],
           R[0] = nothingRead, P[0] = unparsed, C[0] = unparsed,
           \A i \in 1..Len(args) : R[i] = reorderStep(cmd, R[i - 1], args[i]),
           \A i \in 1..Len(args) : P[i] = permuteStep(cmd, P[i - 1], args[i]),
           \A i \in 1..Len(list) : C[i] = parseStep(cmd, C[i - 1], list[i]),
           begins(R[Len(args)].flags, list)
    PROVE  agree(R[Len(args)], P[Len(args)], C[Len(R[Len(args)].flags)])
PROOF
<1> DEFINE n == Len(args)
           K == {k \in 0..n : agree(R[k], P[k], C[Len(R[k].flags)])}
<1>1. n \in Nat /\ \A i \in 1..n : args[i] \in Arg
  OBVIOUS
<1>2. \A i \in 0..n : R[i] \in ReorderState /\ R[i].flags \in Seq(Arg) /\ R[i].positional \in Seq(Arg)
  BY DEF ReorderState
<1>3. ASSUME NEW i \in 1..n
      PROVE  R[i].flags = R[i - 1].flags \/ R[i].flags = Append(R[i - 1].flags, args[i])
  <2>1. i - 1 \in 0..n
    BY <1>1
  <2>2. R[i - 1] \in ReorderState /\ args[i] \in Arg /\ R[i] = reorderStep(cmd, R[i - 1], args[i])
    BY <1>1, <1>2, <2>1
  <2> DEFINE r == R[i - 1]
             u == R[i]
             a == args[i]
  <2> HIDE DEF r, u, a
  <2>3. u.flags = r.flags \/ u.flags = Append(r.flags, a)
    <3>1. r \in ReorderState /\ a \in Arg /\ u = reorderStep(cmd, r, a)
      BY <2>2 DEF r, u, a
    <3> QED BY <3>1, FlagsGrow
  <2> QED BY <2>3 DEF r, u, a
<1>4. ASSUME NEW k \in 0..n
      PROVE  /\ Len(R[k].flags) \in 0..Len(list)
             /\ \A j \in 1..Len(R[k].flags) : list[j] = R[k].flags[j]
  <2> DEFINE fl == [i \in 0..n |-> R[i].flags]
  <2>1. fl \in [0..n -> Seq(Arg)]
    BY <1>2
  <2>2. \A i \in 1..n : fl[i] = fl[i - 1] \/ \E a \in Arg : fl[i] = Append(fl[i - 1], a)
    <3> SUFFICES ASSUME NEW i \in 1..n PROVE fl[i] = fl[i - 1] \/ \E a \in Arg : fl[i] = Append(fl[i - 1], a)
      OBVIOUS
    <3>1. fl[i] = R[i].flags /\ fl[i - 1] = R[i - 1].flags /\ args[i] \in Arg
      BY <1>1
    <3> HIDE DEF fl
    <3> QED BY <1>3, <3>1
  <2>3. begins(fl[k], fl[n])
    <3> HIDE DEF fl, n
    <3> QED BY <1>1, <2>1, <2>2, BeginsAll
  <2>4. fl[k] = R[k].flags /\ fl[n] = R[n].flags
    BY <1>1
  <2> HIDE DEF fl
  <2>5. R[k].flags \in Seq(Arg) /\ R[n].flags \in Seq(Arg)
    BY <1>1, <1>2
  <2>6. begins(R[k].flags, R[n].flags) /\ begins(R[n].flags, list)
    BY <2>3, <2>4
  <2>7. begins(R[k].flags, list) /\ Len(R[k].flags) \in 0..Len(list)
    BY <2>5, <2>6, BeginsOver
  <2> QED BY <2>7 DEF begins
<1>5. 0 \in K
  <2>1. Len(R[0].flags) = 0
    BY DEF nothingRead
  <2>2. agree(nothingRead, unparsed, unparsed)
    BY DEF agree, nothingRead, unparsed
  <2>3. agree(R[0], P[0], C[Len(R[0].flags)])
    BY <2>1, <2>2
  <2>4. 0 \in 0..n
    BY <1>1
  <2> QED BY <2>3, <2>4
<1>6. ASSUME NEW k \in 0..n, k < n, k \in K PROVE k + 1 \in K
  <2> DEFINE m == Len(R[k].flags)
             a == args[k + 1]
  <2>1. k + 1 \in 1..n /\ (k + 1) - 1 = k /\ k + 1 \in 0..n /\ a \in Arg
    BY <1>1, <1>6
  <2>2. m \in 0..Len(list) /\ Len(R[k + 1].flags) \in 0..Len(list) /\ agree(R[k], P[k], C[m])
    BY <1>4, <1>6, <2>1
  <2>3. R[k + 1] = reorderStep(cmd, R[k], a) /\ P[k + 1] = permuteStep(cmd, P[k], a)
    BY <2>1
  <2>4. R[k] \in ReorderState /\ P[k] \in ParseState /\ C[m] \in ParseState
    BY <2>2
  <2> HIDE DEF m, a
  <2>5. \/ R[k + 1].flags = R[k].flags /\ agree(R[k + 1], P[k + 1], C[m])
        \/ R[k + 1].flags = Append(R[k].flags, a) /\ agree(R[k + 1], P[k + 1], parseStep(cmd, C[m], a))
    <3> DEFINE r == R[k]
               p == P[k]
               f == C[m]
               u == R[k + 1]
               q == P[k + 1]
               g == parseStep(cmd, f, a)
    <3>1. /\ r \in ReorderState /\ p \in ParseState /\ f \in ParseState /\ a \in Arg /\ agree(r, p, f)
          /\ u = reorderStep(cmd, r, a) /\ q = permuteStep(cmd, p, a) /\ g = parseStep(cmd, f, a)
      BY <2>1, <2>2, <2>3, <2>4
    <3> HIDE DEF r, p, f, u, q, g
    <3>2. \/ u.flags = r.flags /\ agree(u, q, f)
          \/ u.flags = Append(r.flags, a) /\ agree(u, q, g)
      BY <3>1, PassStep
    <3> QED BY <3>2 DEF r, p, f, u, q, g
  <2>6. CASE R[k + 1].flags = R[k].flags /\ agree(R[k + 1], P[k + 1], C[m])
    BY <2>1, <2>6 DEF m
  <2>7. CASE R[k + 1].flags = Append(R[k].flags, a) /\ agree(R[k + 1], P[k + 1], parseStep(cmd, C[m], a))
    <3>1. Len(R[k + 1].flags) = m + 1 /\ R[k + 1].flags[m + 1] = a /\ m \in Nat
      BY <1>2, <2>1, <2>7 DEF m
    <3>2. m + 1 \in 1..Len(list) /\ list[m + 1] = a /\ (m + 1) - 1 = m
      <4>1. m + 1 \in 1..Len(R[k + 1].flags) /\ m + 1 <= Len(list) /\ (m + 1) - 1 = m
        BY <2>2, <3>1
      <4>2. list[m + 1] = R[k + 1].flags[m + 1]
        BY <1>4, <2>1, <4>1
      <4>3. m + 1 \in 1..Len(list)
        BY <3>1, <4>1
      <4> QED BY <3>1, <4>1, <4>2, <4>3
    <3>3. C[m + 1] = parseStep(cmd, C[m], a)
      BY <3>2
    <3> QED BY <2>1, <2>7, <3>1, <3>3
  <2> QED BY <2>5, <2>6, <2>7
<1>7. n \in K
  <2> HIDE DEF K
  <2>1. n \in 0..n
    BY <1>1
  <2> QED BY <1>1, <1>5, <1>6, <2>1, CountUp
<1> QED BY <1>7

(***************************************************************************)
(* What is left of Parse's list when the flags are read are the operands, in  *)
(* the order of the single pass; unless the first looks like a flag, or is    *)
(* taken for the value of the last flag.                                     *)
(***************************************************************************)
LEMMA AsAsked ==
    ASSUME NEW cmd, NEW args \in Seq(Arg), ~dashFirst(cmd, args), ~valueMissing(cmd, args)
    PROVE  /\ permuted(cmd, args).flagsOK <=> commandLine(cmd, args).flagsOK
           /\ permuted(cmd, args).flagsOK => commandLine(cmd, args) = permuted(cmd, args)
PROOF
<1> DEFINE n == Len(args)
           list == reorderArgs(cmd, args)
<1>1. PICK R \in [0..n -> ReorderState] :
         /\ R[0] = nothingRead
         /\ \A i \in 1..n : R[i] = reorderStep(cmd, R[i - 1], args[i])
         /\ reordering(cmd, args) = R[n]
  BY Reordering
<1>2. PICK P \in [0..n -> ParseState] :
         /\ P[0] = unparsed
         /\ \A i \in 1..n : P[i] = permuteStep(cmd, P[i - 1], args[i])
         /\ permuted(cmd, args) = jobOf(cmd, P[n])
  BY Permuted
<1> DEFINE r == R[n]
           p == P[n]
<1>3. n \in Nat /\ n \in 0..n /\ r \in ReorderState /\ p \in ParseState
  OBVIOUS
<1>4. r.flags \in Seq(Arg) /\ r.positional \in Seq(Arg) /\ r.mode \in {"any", "value", "operands"}
  BY <1>3 DEF ReorderState
<1>5. list = r.flags \o r.positional /\ list \in Seq(Arg)
  BY <1>1, <1>4 DEF reorderArgs
<1>6. PICK C \in [0..Len(list) -> ParseState] :
         /\ C[0] = unparsed
         /\ \A i \in 1..Len(list) : C[i] = parseStep(cmd, C[i - 1], list[i])
         /\ commandLine(cmd, args) = jobOf(cmd, C[Len(list)])
  <2> HIDE DEF list
  <2>1. PICK C \in [0..Len(list) -> ParseState] :
           /\ C[0] = unparsed
           /\ \A i \in 1..Len(list) : C[i] = parseStep(cmd, C[i - 1], list[i])
           /\ \A as : list = reorderArgs(cmd, as) => commandLine(cmd, as) = jobOf(cmd, C[Len(list)])
    BY <1>5, Parsed
  <2>2. commandLine(cmd, args) = jobOf(cmd, C[Len(list)])
    BY <2>1 DEF list
  <2> QED BY <2>1, <2>2
<1> DEFINE m == Len(r.flags)
           f == C[m]
           e == C[Len(list)]
<1> HIDE DEF list
<1>7. agree(r, p, f)
  <2>1. begins(r.flags, r.flags \o r.positional)
    <3> DEFINE u == r.flags
               w == r.positional
    <3>1. u \in Seq(Arg) /\ w \in Seq(Arg)
      BY <1>4
    <3> HIDE DEF u, w
    <3>2. begins(u, u \o w)
      <4>1. Len(u) \in Nat /\ Len(w) \in Nat
        BY <3>1
      <4> QED BY <3>1, <4>1 DEF begins
    <3> QED BY <3>2 DEF u, w
  <2>2. begins(r.flags, list)
    BY <1>5, <2>1
  <2> QED BY <1>1, <1>2, <1>5, <1>6, <2>2, PassesAgree
<1>8. m \in 0..Len(list) /\ Len(list) = m + Len(r.positional) /\ m \in Nat
  <2> DEFINE u == r.flags
             w == r.positional
  <2>1. u \in Seq(Arg) /\ w \in Seq(Arg) /\ list = u \o w
    BY <1>4, <1>5
  <2> HIDE DEF u, w
  <2>2. Len(u) \in Nat /\ Len(w) \in Nat /\ Len(list) = Len(u) + Len(w)
    BY <2>1
  <2>3. Len(u) \in 0..Len(list)
    BY <2>2
  <2> QED BY <2>2, <2>3 DEF u, w
<1>9. f \in ParseState /\ e \in ParseState /\ \A i \in 1..Len(list) : C[i] = parseStep(cmd, C[i - 1], list[i])
  <2>1. Len(list) \in 0..Len(list)
    <3>1. list \in Seq(Arg)
      BY <1>5
    <3>2. Len(list) \in Nat
      BY <3>1
    <3> QED BY <3>2
  <2> QED BY <1>6, <1>8, <2>1
<1> HIDE DEF n, r, p
<1>10. /\ r.positional # <<>> => ~dashed(r.positional[1])
       /\ ~(r.mode = "value" /\ r.positional # <<>>)
  BY <1>1 DEF dashFirst, valueMissing, r
<1>11. permuted(cmd, args) = jobOf(cmd, p) /\ commandLine(cmd, args) = jobOf(cmd, e)
  BY <1>2, <1>6 DEF p
<1>12. /\ jobOf(cmd, p).flagsOK <=> p.mode \notin {"error", "value"}
       /\ jobOf(cmd, e).flagsOK <=> e.mode \notin {"error", "value"}
  BY DEF jobOf
<1>13. CASE p.mode = "error"
  <2>1. f.mode = "error"
    BY <1>7, <1>13 DEF agree
  <2>2. e.mode = "error"
    BY <1>5, <1>8, <1>9, <2>1, ErrorStays
  <2> QED BY <1>11, <1>12, <1>13, <2>2
<1>14. CASE p.mode # "error" /\ r.mode = "value"
  <2>1. p.mode = "value" /\ f.mode = "value"
    BY <1>7, <1>14 DEF agree
  <2>2. r.positional = <<>>
    BY <1>10, <1>14
  <2>3. Len(list) = m
    BY <1>8, <2>2
  <2>4. e.mode = "value"
    BY <2>1, <2>3
  <2> QED BY <1>11, <1>12, <2>1, <2>4
<1>15. CASE p.mode # "error" /\ r.mode # "value"
  <2>1. /\ p.mode = r.mode /\ p.mode \in {"any", "operands"} /\ p.rest = r.positional
        /\ f.mode = "any" /\ f.rest = <<>> /\ p.format = f.format /\ p.recursive = f.recursive
    BY <1>4, <1>7, <1>15 DEF agree
  <2>2. /\ e.mode \in {"any", "operands"} /\ e.rest = r.positional
        /\ e.format = f.format /\ e.recursive = f.recursive
    <3>1. CASE r.positional = <<>>
      <4>1. Len(list) = m
        BY <1>8, <3>1
      <4>2. e = f
        BY <4>1
      <4> QED BY <2>1, <3>1, <4>2
    <3>2. CASE r.positional # <<>>
      <4>1. /\ m < Len(list) /\ Len(list) - m = Len(r.positional)
            /\ \A i \in 1..Len(r.positional) : list[m + i] = r.positional[i]
            /\ 1 \in 1..Len(r.positional)
        <5> DEFINE u == r.flags
                   w == r.positional
        <5>1. u \in Seq(Arg) /\ w \in Seq(Arg) /\ w # <<>> /\ list = u \o w
          BY <1>4, <1>5, <3>2
        <5> HIDE DEF u, w
        <5>2. /\ Len(u) \in Nat /\ Len(w) \in Nat /\ Len(w) # 0 /\ Len(list) = Len(u) + Len(w)
              /\ \A i \in 1..Len(w) : list[Len(u) + i] = w[i]
          BY <5>1
        <5>3. Len(u) < Len(list) /\ Len(list) - Len(u) = Len(w) /\ 1 \in 1..Len(w)
          BY <5>2
        <5> QED BY <5>2, <5>3 DEF u, w
      <4>2. ~dashed(list[m + 1])
        BY <1>10, <3>2, <4>1
      <4>3. /\ e.mode = "operands" /\ e.format = f.format /\ e.recursive = f.recursive
            /\ Len(e.rest) = Len(r.positional)
            /\ \A i \in 1..Len(r.positional) : e.rest[i] = list[m + i]
        <5>1. hasRead(C[Len(list)], C[m], list, m)
          <6> HIDE DEF m
          <6>1. C[m].mode = "any" /\ C[m].rest = <<>>
            BY <2>1
          <6>2. list \in Seq(Arg) /\ m \in 0..Len(list) /\ m < Len(list) /\ ~dashed(list[m + 1])
            BY <1>5, <1>8, <4>1, <4>2
          <6> QED BY <1>6, <6>1, <6>2, OperandsRead
        <5> QED BY <4>1, <5>1 DEF hasRead
      <4>4. e.rest \in Seq(Arg)
        BY <1>9 DEF ParseState
      <4>5. e.rest = r.positional
        <5> DEFINE u == e.rest
                   w == r.positional
        <5>1. u \in Seq(Arg) /\ w \in Seq(Arg) /\ Len(u) = Len(w) /\ \A i \in 1..Len(w) : u[i] = w[i]
          BY <1>4, <4>1, <4>3, <4>4
        <5> HIDE DEF u, w
        <5>2. u = w
          BY <5>1
        <5> QED BY <5>2 DEF u, w
      <4> QED BY <4>3, <4>5
    <3> QED BY <3>1, <3>2
  <2>3. jobOf(cmd, e) = jobOf(cmd, p)
    BY <2>1, <2>2 DEF jobOf
  <2> QED BY <1>11, <1>12, <2>1, <2>2, <2>3
<1> QED BY <1>13, <1>14, <1>15

-----------------------------------------------------------------------------
(***************************************************************************)
(* The job of a scan is what run makes of the arguments.                     *)
(***************************************************************************)
LEMMA LinesAside ==
    ASSUME NEW cmd, NEW args \in Seq(Arg), jobIs(commandLine(cmd, args))
    PROVE  /\ job.flagsOK = commandLine(cmd, args).flagsOK
           /\ job.rest = commandLine(cmd, args).rest
           /\ job.format = commandLine(cmd, args).format
PROOF
<1> DEFINE c == commandLine(cmd, args)
<1>1. \E s : c = jobOf(cmd, s)
  BY DEF commandLine
<1> HIDE DEF c
<1>2. PICK s : c = jobOf(cmd, s)
  BY <1>1
<1>3. job = [c EXCEPT !.lines = job.lines]
  BY DEF jobIs, c
<1>4. job.flagsOK = c.flagsOK /\ job.rest = c.rest /\ job.format = c.format
  BY <1>2, <1>3 DEF jobOf
<1> QED BY <1>4 DEF c

obeys == jobIs(commandLine(job.cmd, argv))

\* A job that is not usable gets no further than its exit; one that is has its
\* operands as targets from the start, unless the walk or the list finds them.
ICommand ==
    /\ argv \in Seq(Arg)
    /\ scans => obeys
    /\ phase = "start" => paths = <<>>
    /\ phase = "walk" => job.cmd = "dir"
    /\ phase # "start" /\ scans /\ ~usable => phase = "exit" /\ exit = 1 /\ paths = <<>>
    /\ phase # "start" /\ usable /\ job.cmd = "file" => paths = job.rest

LEMMA CommandStarts == CommandInit => ICommand
  BY DEF CommandInit, Init, ICommand, obeys

LEMMA CommandNext == ICommand /\ [Next /\ UNCHANGED argv]_<<vars, argv>> => ICommand'
PROOF
<1> SUFFICES ASSUME ICommand, [Next]_vars, argv' = argv PROVE ICommand'
  BY DEF vars
<1>1. job' = job
  BY JobKept
<1>2. (scans' <=> scans) /\ (usable' <=> usable) /\ (obeys' <=> obeys)
  BY <1>1 DEF scans, usable, obeys, jobIs
<1>3. \/ phase' = phase /\ exit' = exit /\ paths' = paths
      \/ phase = "start" /\ phase' # "start" /\ ICommand'
      \/ phase = "walk" /\ phase' # "start" /\ ICommand'
      \/ phase \notin {"start", "walk", "exit"} /\ phase' \notin {"start", "walk"} /\ paths' = paths
  <2>1. CASE Usage
    BY <1>1, <1>2, <2>1 DEF Usage, return, ICommand, scans
  <2>2. CASE StartFile
    BY <1>1, <1>2, <2>2 DEF StartFile, ICommand
  <2>3. CASE ReadList \/ StartFails \/ StartDir
    BY <1>1, <1>2, <2>3 DEF ReadList, StartFails, StartDir, return, ICommand
  <2>4. CASE VisitDir \/ ReadDirFails \/ VisitFile \/ WalkDone
    BY <1>1, <1>2, <2>4 DEF VisitDir, ReadDirFails, VisitFile, WalkDone, walking, return, ICommand, usable
  <2>5. CASE NoBinaries \/ OpenFails \/ Open \/ ParseFails \/ Parse \/ RunCheck \/ Return
             \/ PrintReports \/ PrintReportsFails \/ Gate
    BY <2>5
    DEF NoBinaries, OpenFails, Open, ParseFails, Parse, RunCheck, Return,
        PrintReports, PrintReportsFails, Gate, checking, printing, return
  <2>6. CASE Writer \/ UNCHANGED vars
    BY <2>6, WriterKeepsProc DEF vars, procVars
  <2> QED BY <2>1, <2>2, <2>3, <2>4, <2>5, <2>6 DEF Next, scc
<1> QED BY <1>1, <1>2, <1>3 DEF ICommand

(***************************************************************************)
(* A scan that has begun does what one pass over its arguments asks for, for *)
(* every command line but those dashFirst and valueMissing describe.         *)
(***************************************************************************)
THEOREM ScannedAsAskedTheorem == CommandSpec => []ScannedAsAsked
PROOF
<1>1. ASSUME ICommand PROVE ScannedAsAsked
  <2> DEFINE asked == permuted(job.cmd, argv)
             made  == commandLine(job.cmd, argv)
             asks == asked.flagsOK /\ asked.rest # <<>> /\ asked.format \in Format
  <2> SUFFICES ASSUME phase # "start", scans,
                      ~dashFirst(job.cmd, argv), ~valueMissing(job.cmd, argv)
               PROVE  /\ asks => jobIs(asked)
                      /\ asks /\ job.cmd = "file" => paths = asked.rest
                      /\ ~asks => exit = 1 /\ paths = <<>>
    BY DEF ScannedAsAsked
  <2>1. (asked.flagsOK <=> made.flagsOK) /\ (asked.flagsOK => made = asked)
    BY <1>1, AsAsked DEF ICommand
  <2>2. jobIs(made)
    BY <1>1 DEF ICommand, obeys
  <2>3. job.flagsOK = made.flagsOK /\ job.rest = made.rest /\ job.format = made.format
    BY <1>1, <2>2, LinesAside DEF ICommand
  <2> HIDE DEF asked, made
  <2>4. asks <=> usable
    BY <2>1, <2>3 DEF usable
  <2>5. CASE asks
    BY <1>1, <2>1, <2>2, <2>3, <2>4, <2>5 DEF ICommand
  <2>6. CASE ~asks
    BY <1>1, <2>4, <2>6 DEF ICommand
  <2> QED BY <2>5, <2>6
<1>2. ICommand => ScannedAsAsked
  BY <1>1
<1> QED BY <1>2, CommandStarts, CommandNext, PTL DEF CommandSpec
=============================================================================
