------------------------------ MODULE ParamsProofs ------------------------------
(***************************************************************************)
(* Theorems about Params, for any environments and command lines, any       *)
(* lists of parameters, any number of string buffers and commands, and both *)
(* widths of long: the inductive invariant IInv, and from it that the       *)
(* daemon starts with what it was told, that an accepted Param sets what    *)
(* was given, and that no request sees what another set.  Assigned and      *)
(* SetFromString are recursive functions: that they exist is shown first,   *)
(* by induction on the length, then what they yield.                       *)
(***************************************************************************)
EXTENDS Params, FiniteSetTheorems, SequenceTheorems, WellFoundedInduction, TLAPS
-----------------------------------------------------------------------------
(* The table, line by line.                                                *)
LEMMA NamesAre ==
  /\ Len(Names) = 20 /\ DOMAIN Names = 1 .. 20
  /\ Names[1] = "tmpdir" /\ Names[2] = "freq" /\ Names[3] = "snapshot" /\ Names[4] = "snapdir"
  /\ Names[5] = "dev" /\ Names[6] = "range" /\ Names[7] = "bufsz" /\ Names[8] = "window"
  /\ Names[9] = "bufhwm" /\ Names[10] = "sscorr" /\ Names[11] = "syncwait" /\ Names[12] = "rtprio"
  /\ Names[13] = "rdprio" /\ Names[14] = "wrprio" /\ Names[15] = "user" /\ Names[16] = "group"
  /\ Names[17] = "ram" /\ Names[18] = "wof" /\ Names[19] = "chunk" /\ Names[20] = "uuid"
BY DEF Names

(* The names there are.                                                    *)
LEMMA NameIs ==
  Name = {"tmpdir", "freq", "snapshot", "snapdir", "dev", "range", "bufsz", "window", "bufhwm",
          "sscorr", "syncwait", "rtprio", "rdprio", "wrprio", "user", "group", "ram", "wof",
          "chunk", "uuid"}
<1>1. \A i \in 1 .. 20 :
        \/ i = 1 \/ i = 2 \/ i = 3 \/ i = 4 \/ i = 5 \/ i = 6 \/ i = 7 \/ i = 8 \/ i = 9 \/ i = 10
        \/ i = 11 \/ i = 12 \/ i = 13 \/ i = 14 \/ i = 15 \/ i = 16 \/ i = 17 \/ i = 18 \/ i = 19
        \/ i = 20
  OBVIOUS
<1>2. \A x : x \in Name <=> \E i \in 1 .. 20 : x = Names[i]
  BY NamesAre DEF Name
<1>3. \A x : (\E i \in 1 .. 20 : x = Names[i]) <=>
        \/ x = Names[1] \/ x = Names[2] \/ x = Names[3] \/ x = Names[4] \/ x = Names[5]
        \/ x = Names[6] \/ x = Names[7] \/ x = Names[8] \/ x = Names[9] \/ x = Names[10]
        \/ x = Names[11] \/ x = Names[12] \/ x = Names[13] \/ x = Names[14] \/ x = Names[15]
        \/ x = Names[16] \/ x = Names[17] \/ x = Names[18] \/ x = Names[19] \/ x = Names[20]
  BY <1>1
<1> QED BY <1>2, <1>3, NamesAre

(* What a parameter may spill into comes after it in the table.            *)
LEMMA FollowersFollow ==
  \A j, k \in 1 .. 20 : Names[k] \in Follows(Names[j]) => k > j
<1>1. \A i \in 1 .. 20 : /\ Names[i] = "range" => i = 6
                         /\ Names[i] = "bufsz" => i = 7
                         /\ Names[i] = "window" => i = 8
                         /\ Names[i] = "wrprio" => i = 14
                         /\ Names[i] = "ram" => i = 17
                         /\ Names[i] = "chunk" => i = 19
  BY NamesAre
<1>2. ASSUME NEW p PROVE \A q \in Follows(p) : \/ p = "range" /\ q = "bufsz"
                                               \/ p = "bufsz" /\ q = "window"
                                               \/ p = "wrprio" /\ q = "ram"
                                               \/ p = "ram" /\ q = "chunk"
  BY DEF Follows
<1> QED BY <1>1, <1>2
-----------------------------------------------------------------------------
(***************************************************************************)
(* Induction, and the two recursive functions.                             *)
(***************************************************************************)
(* Every set of natural numbers that is not empty has a least one.         *)
LEMMA Least ==
  ASSUME NEW T, T \subseteq Nat, T # {}
  PROVE  \E m \in T : \A k \in T : m <= k
<1> DEFINE R == OpToRel(<, Nat)
<1>1. IsWellFoundedOn(R, Nat)
  BY NatLessThanWellFounded
<1>3. \A a, b \in Nat : a < b => <<a, b>> \in R
  BY DEF OpToRel
<1> HIDE DEF R
<1>2. \E m \in T : \A k \in T : ~(<<k, m>> \in R)
  BY <1>1, WFMin, Zenon
<1>4. PICK m \in T : \A k \in T : ~(<<k, m>> \in R)
  BY <1>2, Zenon
<1>5. \A k \in T : m <= k
  <2> SUFFICES ASSUME NEW k \in T, ~(m <= k) PROVE FALSE
    BY Zenon
  <2>1. m \in Nat /\ k \in Nat
    OBVIOUS
  <2>2. k < m
    BY <2>1
  <2>3. <<k, m>> \in R
    BY <1>3, <2>1, <2>2, Zenon
  <2> QED BY <1>4, <2>3, Zenon
<1> QED BY <1>5, Zenon

(* What holds at first, and after each step, holds up to top.              *)
LEMMA UpTo ==
  ASSUME NEW top \in Nat, NEW T, 0 \in T, \A i \in 1 .. top : i - 1 \in T => i \in T
  PROVE  0 .. top \subseteq T
<1> SUFFICES ASSUME NEW j \in 0 .. top, j \notin T PROVE FALSE
  OBVIOUS
<1> DEFINE U == {k \in 0 .. top : k \notin T}
<1>1. PICK m \in U : \A k \in U : m <= k
  <2> U # {} /\ U \subseteq Nat
    OBVIOUS
  <2> HIDE DEF U
  <2> QED BY Least
<1>2. m \in 1 .. top /\ m - 1 \in 0 .. top
  OBVIOUS
<1>3. m - 1 \notin U
  BY <1>1, <1>2
<1> QED BY <1>1, <1>2, <1>3

(* The function that Assigned defines.                                     *)
IsRun(f, top, s, ps) ==
  f = [i \in 0 .. top |-> IF i = 0 THEN Unassigned ELSE Assign(s, ps, f[i - 1], Names[i])]

(* There is one, however many lines are assigned.                          *)
LEMMA RunExists ==
  ASSUME NEW top \in Nat, NEW s, NEW ps
  PROVE  \E f : IsRun(f, top, s, ps)
<1> DEFINE T == {m \in 0 .. top : \E f : IsRun(f, m, s, ps)}
<1>1. 0 \in T
  <2> DEFINE f == [i \in 0 .. 0 |-> Unassigned]
  <2>1. f = [i \in 0 .. 0 |-> IF i = 0 THEN Unassigned ELSE Assign(s, ps, f[i - 1], Names[i])]
    OBVIOUS
  <2> HIDE DEF f
  <2>2. IsRun(f, 0, s, ps)
    BY <2>1, Zenon DEF IsRun
  <2> QED BY <2>2
<1>2. ASSUME NEW k \in 1 .. top, k - 1 \in T PROVE k \in T
  <2>0. PICK m \in Nat : m = k - 1 /\ k = m + 1
    OBVIOUS
  <2>1. PICK f : IsRun(f, m, s, ps)
    BY <1>2, <2>0
  <2> DEFINE g == [i \in 0 .. k |-> IF i = k THEN Assign(s, ps, f[m], Names[k]) ELSE f[i]]
  <2>2. ASSUME NEW i \in 0 .. k
        PROVE  g[i] = IF i = 0 THEN Unassigned ELSE Assign(s, ps, g[i - 1], Names[i])
    <3>1. \A j \in 0 .. m :
            f[j] = IF j = 0 THEN Unassigned ELSE Assign(s, ps, f[j - 1], Names[j])
      BY <2>1 DEF IsRun
    <3>2. CASE i = k
      <4>1. i - 1 = m /\ m \in 0 .. k /\ m # k /\ i # 0
        BY <2>0, <3>2
      <4>2. g[m] = f[m] /\ g[i] = Assign(s, ps, f[m], Names[k])
        BY <3>2, <4>1
      <4> QED BY <3>2, <4>1, <4>2, Zenon
    <3>3. CASE i # k
      <4>1. i \in 0 .. m /\ g[i] = f[i]
        BY <2>0, <3>3
      <4>2. i # 0 => i - 1 \in 0 .. k /\ i - 1 # k
        BY <2>0, <3>3
      <4>3. i # 0 => g[i - 1] = f[i - 1]
        BY <4>2
      <4> QED BY <3>1, <4>1, <4>3, Zenon
    <3> QED BY <3>2, <3>3
  <2>3. g = [i \in 0 .. k |-> g[i]]
    OBVIOUS
  <2> HIDE DEF g
  <2>4. g = [i \in 0 .. k |-> IF i = 0 THEN Unassigned ELSE Assign(s, ps, g[i - 1], Names[i])]
    BY <2>2, <2>3, Zenon
  <2>5. IsRun(g, k, s, ps)
    BY <2>4, Zenon DEF IsRun
  <2>6. k \in 0 .. top
    OBVIOUS
  <2> QED BY <2>5, <2>6
<1> HIDE DEF T
<1>3. 0 .. top \subseteq T
  BY <1>1, <1>2, UpTo
<1>4. top \in T
  BY <1>3
<1> QED BY <1>4 DEF T

(* What Assigned yields, line by line.                                     *)
LEMMA AssignedIs ==
  ASSUME NEW s, NEW ps
  PROVE  \E f : /\ Assigned(s, ps) = f[20] /\ f[0] = Unassigned
                /\ \A i \in 1 .. 20 : f[i] = Assign(s, ps, f[i - 1], Names[i])
<1> DEFINE f == CHOOSE g : g = [i \in 0 .. Len(Names) |->
                  IF i = 0 THEN Unassigned ELSE Assign(s, ps, g[i - 1], Names[i])]
<1>1. Assigned(s, ps) = f[Len(Names)]
  BY DEF Assigned
<1>2. Len(Names) = 20
  BY NamesAre
<1>3. \E g : IsRun(g, Len(Names), s, ps)
  BY <1>2, RunExists
<1>4. f = [i \in 0 .. Len(Names) |-> IF i = 0 THEN Unassigned ELSE Assign(s, ps, f[i - 1], Names[i])]
  BY <1>3, Zenon DEF IsRun
<1> HIDE DEF f
<1>5. f = [i \in 0 .. 20 |-> IF i = 0 THEN Unassigned ELSE Assign(s, ps, f[i - 1], Names[i])]
  BY <1>2, <1>4
<1>6. \A i \in 0 .. 20 : f[i] = IF i = 0 THEN Unassigned ELSE Assign(s, ps, f[i - 1], Names[i])
  BY <1>5
<1>7. f[0] = Unassigned
  BY <1>6
<1>8. \A i \in 1 .. 20 : f[i] = Assign(s, ps, f[i - 1], Names[i])
  <2> SUFFICES ASSUME NEW i \in 1 .. 20 PROVE f[i] = Assign(s, ps, f[i - 1], Names[i])
    OBVIOUS
  <2>1. i \in 0 .. 20 /\ i # 0
    OBVIOUS
  <2> QED BY <1>6, <2>1, Zenon
<1> QED BY <1>1, <1>2, <1>7, <1>8
-----------------------------------------------------------------------------
(***************************************************************************)
(* Assigning.                                                              *)
(***************************************************************************)
StrRec == [at : {"null", "fixed", "buffer", "heap"}, b : Nat, t : Text]
Values == [Name -> Int]
Followers == {"bufsz", "window", "ram", "chunk"}

(* A text's number.                                                        *)
LEMMA TextIs ==
  /\ \A t \in Text : t.v \in Int /\ t.v >= -1 /\ t.v # Spilt
  /\ \A s \in StrRec : s.t \in Text /\ s.t.v \in Int /\ s.t.v # Spilt
BY DEF Text, StrRec, Spilt, NoNumber

(* Only a follower is spilt into.                                          *)
LEMMA StoredIs ==
  ASSUME NEW v \in Values, NEW p \in Name, NEW x \in Int
  PROVE  /\ Stored(v, p, x) \in Values /\ Stored(v, p, x)[p] = x
         /\ \A q \in Name : q # p /\ q \notin Follows(p) => Stored(v, p, x)[q] = v[q]
         /\ \A q \in Name : q \in Follows(p) => q \in Followers
<1>1. \A q \in Name : q \in Follows(p) => q \in Followers
  BY DEF Follows, Followers
<1>2. Stored(v, p, x) = [q \in Name |-> IF q = p THEN x
                          ELSE IF Wide /\ p \in Int32 /\ q \in Follows(p) THEN Spilt ELSE v[q]]
  BY DEF Stored
<1>3. \A q \in Name : (IF q = p THEN x
                       ELSE IF Wide /\ p \in Int32 /\ q \in Follows(p) THEN Spilt ELSE v[q]) \in Int
  BY DEF Values, Spilt
<1>4. Stored(v, p, x) \in Values
  BY <1>2, <1>3 DEF Values
<1>5. Stored(v, p, x)[p] = x
  BY <1>2
<1>6. \A q \in Name : q # p /\ q \notin Follows(p) => Stored(v, p, x)[q] = v[q]
  BY <1>2
<1> QED BY <1>1, <1>4, <1>5, <1>6

(* If none fails, each parameter assigned has its number, although others  *)
(* spill into it before; the rest keep theirs but for what is spilt.       *)
AsText(s, ps, a, p) ==
  IF p \in ps /\ s[p].at # "null" THEN Scans(p, s[p].t) /\ a.val[p] = s[p].t.v
  ELSE p \notin Followers => a.val[p] = val[p]

LEMMA AssignedFacts ==
  ASSUME NEW s \in [Name -> StrRec], NEW ps \in SUBSET Name, val \in Values
  PROVE  /\ Assigned(s, ps) \in [val : Values, ok : BOOLEAN]
         /\ Assigned(s, ps).ok => \A p \in Name : AsText(s, ps, Assigned(s, ps), p)
<1>1. PICK f : /\ Assigned(s, ps) = f[20] /\ f[0] = Unassigned
               /\ \A i \in 1 .. 20 : f[i] = Assign(s, ps, f[i - 1], Names[i])
  BY AssignedIs
<1> DEFINE A == [val : Values, ok : BOOLEAN]
           Done(i) == \A k \in 1 .. i :
             Names[k] \in ps /\ s[Names[k]].at # "null" =>
               Scans(Names[k], s[Names[k]].t) /\ f[i].val[Names[k]] = s[Names[k]].t.v
           Kept(i) == \A p \in Name : p \notin Followers /\ ~(p \in ps /\ s[p].at # "null") =>
                        f[i].val[p] = val[p]
           T == {i \in 0 .. 20 : f[i] \in A /\ (f[i].ok => Done(i) /\ Kept(i))}
<1>2. 0 \in T
  <2>1. f[0] = [val |-> val, ok |-> TRUE]
    BY <1>1 DEF Unassigned
  <2>2. f[0] \in A /\ f[0].val = val
    BY <2>1
  <2> QED BY <2>2
<1>3. ASSUME NEW i \in 1 .. 20, i - 1 \in T PROVE i \in T
  <2>1. PICK p \in Name : p = Names[i]
    BY NamesAre DEF Name
  <2>2. PICK m \in Nat : m = i - 1 /\ i = m + 1 /\ m \in 0 .. 20
    OBVIOUS
  <2>3. f[i] = Assign(s, ps, f[m], p)
    BY <1>1, <2>1, <2>2
  <2>4. f[m] \in A /\ (f[m].ok => Done(m) /\ Kept(m))
    BY <1>3, <2>2
  <2>5. PICK v \in Values, k \in BOOLEAN : f[m] = [val |-> v, ok |-> k]
    BY <2>4
  <2>6. f[m].val = v /\ f[m].ok = k
    BY <2>5
  <2>7. i \in 0 .. 20
    OBVIOUS
  <2>8. CASE ~k \/ p \notin ps \/ s[p].at = "null"
    <3>1. f[i] = f[m]
      BY <2>3, <2>6, <2>8 DEF Assign
    <3>2. f[i].ok => Kept(i)
      BY <2>4, <3>1
    <3>3. f[i].ok => Done(i)
      <4> SUFFICES ASSUME f[i].ok, NEW j \in 1 .. i, Names[j] \in ps, s[Names[j]].at # "null"
                   PROVE  Scans(Names[j], s[Names[j]].t) /\ f[i].val[Names[j]] = s[Names[j]].t.v
        OBVIOUS
      <4>1. k /\ j # i
        BY <2>1, <2>6, <2>8, <3>1
      <4>2. j \in 1 .. m
        BY <2>2, <4>1
      <4> QED BY <2>4, <3>1, <4>2
    <3> QED BY <2>4, <2>7, <3>1, <3>2, <3>3
  <2>9. CASE k /\ p \in ps /\ s[p].at # "null" /\ Scans(p, s[p].t)
    <3>1. PICK x \in Int : x = s[p].t.v
      BY TextIs
    <3>2. PICK w \in Values : w = Stored(v, p, x)
      BY StoredIs
    <3>3. f[i] = [val |-> w, ok |-> k]
      BY <2>3, <2>5, <2>6, <2>9, <3>1, <3>2 DEF Assign
    <3>4. f[i] \in A /\ f[i].val = w
      BY <3>3
    <3>5. Kept(i)
      <4> SUFFICES ASSUME NEW q \in Name, q \notin Followers, ~(q \in ps /\ s[q].at # "null")
                   PROVE  w[q] = val[q]
        BY <3>4
      <4>1. q # p /\ q \notin Follows(p)
        BY <2>9, StoredIs
      <4>2. w[q] = v[q]
        BY <3>2, <4>1, StoredIs
      <4>3. v[q] = val[q]
        BY <2>4, <2>6, <2>9
      <4> QED BY <4>2, <4>3
    <3>6. Done(i)
      <4> SUFFICES ASSUME NEW j \in 1 .. i, Names[j] \in ps, s[Names[j]].at # "null"
                   PROVE  Scans(Names[j], s[Names[j]].t) /\ w[Names[j]] = s[Names[j]].t.v
        BY <3>4
      <4>1. CASE Names[j] = p
        BY <2>9, <3>1, <3>2, <4>1, StoredIs
      <4>2. CASE Names[j] # p
        <5>1. j \in 1 .. m /\ j \in 1 .. 20 /\ ~(j > i)
          BY <2>1, <2>2, <4>2
        <5>2. Names[j] \in Name /\ Names[j] \notin Follows(p)
          BY <2>1, <5>1, FollowersFollow
        <5>3. w[Names[j]] = v[Names[j]]
          BY <3>2, <4>2, <5>2, StoredIs
        <5>4. Scans(Names[j], s[Names[j]].t) /\ v[Names[j]] = s[Names[j]].t.v
          BY <2>4, <2>6, <2>9, <5>1
        <5> QED BY <5>3, <5>4
      <4> QED BY <4>1, <4>2
    <3> QED BY <2>7, <3>4, <3>5, <3>6
  <2>10. CASE k /\ p \in ps /\ s[p].at # "null" /\ ~Scans(p, s[p].t)
    <3>1. f[i] = [val |-> v, ok |-> FALSE]
      BY <2>3, <2>5, <2>6, <2>10 DEF Assign
    <3>2. f[i] \in A /\ ~f[i].ok
      BY <3>1
    <3> QED BY <2>7, <3>2
  <2> QED BY <2>8, <2>9, <2>10
<1> HIDE DEF T
<1>4. 0 .. 20 \subseteq T
  BY <1>2, <1>3, UpTo
<1>5. 20 \in T
  BY <1>4
<1> USE DEF T
<1>6. f[20] \in A /\ (f[20].ok => Done(20) /\ Kept(20))
  BY <1>5
<1>7. ASSUME f[20].ok, NEW p \in Name PROVE AsText(s, ps, f[20], p)
  <2>1. PICK k \in 1 .. 20 : p = Names[k]
    BY NamesAre DEF Name
  <2>2. CASE p \in ps /\ s[p].at # "null"
    BY <1>6, <1>7, <2>1, <2>2 DEF AsText
  <2>3. CASE ~(p \in ps /\ s[p].at # "null")
    BY <1>6, <1>7, <2>3 DEF AsText
  <2> QED BY <2>2, <2>3
<1> QED BY <1>1, <1>6, <1>7
-----------------------------------------------------------------------------
(***************************************************************************)
(* Finding parameters.                                                     *)
(***************************************************************************)
(* A name that begins one finds one.                                       *)
LEMMA FindIs ==
  ASSUME NEW name, Beginning(name) # {}
  PROVE  Find(name) \in Name /\ Find(name) \in Beginning(name)
<1>1. Beginning(name) \subseteq Name
  BY DEF Beginning
<1> DEFINE I == {i \in 1 .. 20 : Names[i] \in Beginning(name)}
<1>2. I # {} /\ I \subseteq Nat
  BY <1>1, NamesAre DEF Name
<1>3. PICK m \in I : \A k \in I : m <= k
  <2> HIDE DEF I
  <2> QED BY <1>2, Least
<1>4. m \in DOMAIN Names /\ Names[m] \in Beginning(name)
  BY NamesAre
<1>5. \A j \in 1 .. m - 1 : Names[j] \notin Beginning(name)
  <2> SUFFICES ASSUME NEW j \in 1 .. m - 1, Names[j] \in Beginning(name) PROVE FALSE
    OBVIOUS
  <2>1. j \in 1 .. 20 /\ ~(m <= j)
    OBVIOUS
  <2> QED BY <1>3, <2>1
<1>6. PICK i \in DOMAIN Names : Find(name) = Names[i] /\ Names[i] \in Beginning(name)
  <2> DEFINE Q(i) == Names[i] \in Beginning(name)
                       /\ \A j \in 1 .. i - 1 : Names[j] \notin Beginning(name)
             c == CHOOSE i \in DOMAIN Names : Q(i)
  <2>1. Find(name) = Names[c]
    BY DEF Find
  <2>2. Q(m)
    BY <1>4, <1>5
  <2> HIDE DEF Q
  <2>3. c \in DOMAIN Names /\ Q(c)
    BY <1>4, <2>2
  <2> USE DEF Q
  <2> QED BY <2>1, <2>3
<1> QED BY <1>1, <1>6

(* An option is matched to the parameter of its name.                      *)
LEMMA MatchedIs == \A o \in Option : Matched(o) = o
<1> SUFFICES ASSUME NEW o \in Option PROVE Matched(o) = o
  OBVIOUS
<1>1. Beginning(o) = {o}
  BY NamesAssumption, Zenon DEF Option, Beginning
<1> QED BY <1>1, FindIs DEF Matched

(* So a parameter is given if its name is on the command line.             *)
LEMMA GivenIs ==
  ASSUME DOMAIN args \subseteq Name
  PROVE  \A p \in Name : Given(p) <=> p \in DOMAIN args
BY MatchedIs DEF Given, Option

(* A text of the environment.                                              *)
LEMMA EnvIs ==
  ASSUME NEW p, InEnv(p) # {}, env \in Seq([name : STRING, t : Text])
  PROVE  FromEnv(p) \in Text
<1>1. PICK top \in Nat : top = Len(env) /\ DOMAIN env = 1 .. top
  BY LenProperties
<1>2. \A i \in 1 .. top : env[i].t \in Text
  <2>1. \A i \in 1 .. top : env[i] \in [name : STRING, t : Text]
    BY <1>1, ElementOfSeq
  <2> QED BY <2>1
<1> DEFINE I == {i \in 1 .. top : env[i].name = p}
           R == {k \in 0 .. top : top - k \in I}
<1>3. InEnv(p) = I
  BY <1>1 DEF InEnv
<1>4. R # {} /\ R \subseteq Nat
  <2>1. PICK i \in 1 .. top : i \in I
    BY <1>3
  <2>2. top - i \in 0 .. top /\ top - (top - i) = i
    OBVIOUS
  <2>3. top - i \in R
    BY <2>1, <2>2
  <2>4. R \subseteq Nat
    OBVIOUS
  <2> QED BY <2>3, <2>4, Zenon
<1>5. PICK m \in R : \A k \in R : m <= k
  <2> HIDE DEF R
  <2> QED BY <1>4, Least
<1>6. \A j \in I : j <= top - m
  <2> SUFFICES ASSUME NEW j \in I PROVE j <= top - m
    OBVIOUS
  <2>1. top - j \in R
    <3>1. top - j \in 0 .. top /\ top - (top - j) = j
      OBVIOUS
    <3> QED BY <3>1
  <2>2. m <= top - j
    BY <1>5, <2>1
  <2> QED BY <2>2
<1>7. PICK i \in I : FromEnv(p) = env[i].t
  <2> DEFINE Q(i) == \A j \in InEnv(p) : j <= i
             c == CHOOSE i \in InEnv(p) : Q(i)
  <2>1. FromEnv(p) = env[c].t
    BY DEF FromEnv
  <2>2. top - m \in InEnv(p) /\ Q(top - m)
    BY <1>3, <1>6
  <2> HIDE DEF Q
  <2>3. c \in InEnv(p)
    BY <2>2
  <2> QED BY <1>3, <2>1, <2>3
<1> QED BY <1>2, <1>7
-----------------------------------------------------------------------------
(***************************************************************************)
(* The inductive invariant.                                                *)
(***************************************************************************)
Startup == {"env", "assign", "parse", "back", "ids", "prio", "writer", "reader"}
Table == [Name -> StrRec]

(* The types, but for the pool's.                                          *)
TInv ==
  /\ stage \in Startup \cup {"run", "exit", "abort", "crash"}
  /\ env \in Envs /\ args \in Args
  /\ str \in Table /\ dyn \in [Name -> BOOLEAN]
  /\ setby \in [Name -> SUBSET {"env", "arg", "cmd"}]
  /\ val \in Values /\ given \in Values /\ heap \subseteq Name /\ moved \subseteq Name
  /\ n \in 0 .. MaxCommands

(* A string buffer is free or kept by a snapshot, or neither while Param    *)
(* points into it, but never twice in the pool.                            *)
PoolInv ==
  /\ pool \in Seq(1 .. Buffers) /\ \A i, j \in 1 .. Len(pool) : pool[i] = pool[j] => i = j
  /\ kept \subseteq 1 .. Buffers /\ \A i \in 1 .. Len(pool) : pool[i] \notin kept
  /\ Len(pool) + Cardinality(kept) = Buffers

(* What the environment says of a parameter.                               *)
EnvStr(p) ==
  IF InEnv(p) # {} THEN Fixed(FromEnv(p)) ELSE IF p \in Unset THEN Null ELSE Fixed(Literal)
EnvVal(p) == IF InEnv(p) # {} THEN FromEnv(p).v ELSE Literal.v

(* How far start-up has come.                                              *)
StageInv ==
  /\ stage \in Startup => n = 0 /\ last = NoCommandYet
  /\ stage = "env" => \A p \in Name : str[p] = IF p \in Unset THEN Null ELSE Fixed(Literal)
  /\ stage \in {"env", "assign"} => \A p \in Name : val[p] = 0
  /\ stage \in {"assign", "parse", "back"} => \A p \in Name : str[p] = EnvStr(p)
  /\ stage \in {"parse", "back"} => \A p \in Name : val[p] = EnvVal(p)
  /\ stage = "back" => \A o \in DOMAIN args : ArgScans(o, args[o])
  /\ stage \in {"ids", "prio"} => \A p \in Name : val[p] = Told(p)
  /\ stage \in {"writer", "reader"} => \A p \in Name : val[p] = ToldOrCommon(p)

(* After start-up every parameter of commands has a text, and unless it    *)
(* moved it is the one given.                                              *)
TextInv ==
  stage \in {"ids", "prio", "writer", "reader", "run"} =>
    \A p \in CmdSource : str[p].at # "null" /\ (p \notin moved => str[p].t.v = given[p])

IInv ==
  TInv /\ PoolInv /\ StageInv /\ TextInv /\ StartsAsTold /\ SetAsGiven

(* Environment and command line are what the assumption says.              *)
LEMMA ToldIs ==
  ASSUME TInv
  PROVE  /\ env \in Seq([name : STRING, t : Text])
         /\ DOMAIN args \subseteq Name /\ \A o \in DOMAIN args : args[o] \in Text
         /\ \A p \in Name : EnvVal(p) \in Int /\ EnvStr(p) \in StrRec /\ EnvStr(p).t.v = EnvVal(p)
                            /\ (EnvStr(p).at = "null" => p \in Unset)
         /\ \A p \in Name : Told(p) = IF p \in DOMAIN args THEN args[p].v ELSE EnvVal(p)
<1>1. env \in Seq([name : STRING, t : Text])
  BY ParamsAssumption DEF TInv
<1>2. DOMAIN args \subseteq Name /\ args \in [DOMAIN args -> Text]
  BY ParamsAssumption DEF TInv
<1>3. \A o \in DOMAIN args : args[o] \in Text
  BY <1>2
<1>4. Literal \in Text /\ Literal.v = 0
  BY DEF Literal, Text
<1>5. ASSUME NEW p \in Name
      PROVE  EnvVal(p) \in Int /\ EnvStr(p) \in StrRec /\ EnvStr(p).t.v = EnvVal(p)
             /\ (EnvStr(p).at = "null" => p \in Unset)
  <2>1. CASE InEnv(p) # {}
    <3>1. PICK t \in Text : t = FromEnv(p)
      BY <1>1, <2>1, EnvIs
    <3>2. Fixed(t) \in StrRec /\ Fixed(t).t = t /\ Fixed(t).at = "fixed"
      BY DEF Fixed, StrRec
    <3> QED BY <2>1, <3>1, <3>2, TextIs DEF EnvVal, EnvStr
  <2>2. CASE InEnv(p) = {} /\ p \in Unset
    <3>1. Null \in StrRec /\ Null.t.v = 0
      BY <1>4 DEF Null, StrRec, Literal
    <3> QED BY <1>4, <2>2, <3>1 DEF EnvVal, EnvStr
  <2>3. CASE InEnv(p) = {} /\ p \notin Unset
    <3>1. Fixed(Literal) \in StrRec /\ Fixed(Literal).t = Literal /\ Fixed(Literal).at = "fixed"
      BY <1>4 DEF Fixed, StrRec
    <3> QED BY <1>4, <2>3, <3>1 DEF EnvVal, EnvStr
  <2> QED BY <2>1, <2>2, <2>3
<1>6. \A p \in Name : Told(p) = IF p \in DOMAIN args THEN args[p].v ELSE EnvVal(p)
  BY DEF Told, EnvVal
<1> QED BY <1>1, <1>2, <1>3, <1>5, <1>6

(* Those without a text are not spilt into either.                         *)
LEMMA UnsetIs == Unset \cap Followers = {} /\ Unset \cap CmdSource = {} /\ CmdSource \subseteq Name
                 /\ CmdSource \subseteq Double \cup Int32
BY NameIs DEF Unset, Followers, CmdSource, Double, Int32

(* Start-up has no commands, and the pool is not used.                     *)
LEMMA StartStep ==
  ASSUME IInv, stage \in Startup, UNCHANGED <<startVars, poolVars, n, last>>,
         TInv', StageInv', TextInv', StartsAsTold'
  PROVE  IInv'
<1>1. PoolInv'
  BY DEF IInv, PoolInv, poolVars
<1>2. last' = NoCommandYet
  BY DEF IInv, StageInv
<1>3. SetAsGiven'
  BY <1>2 DEF SetAsGiven, NoCommandYet
<1> QED BY <1>1, <1>3 DEF IInv

(* The daemon starts with the literals of its table.                       *)
LEMMA IInit == Init => IInv
<1> SUFFICES ASSUME Init PROVE IInv
  OBVIOUS
<1>1. Literal \in Text /\ Literal.v = 0
  BY DEF Literal, Text
<1>2. Null \in StrRec /\ Fixed(Literal) \in StrRec
  BY <1>1 DEF Null, Fixed, StrRec, Literal
<1>3. str \in Table /\ \A p \in Name : str[p] = IF p \in Unset THEN Null ELSE Fixed(Literal)
  BY <1>2 DEF Init, Table
<1>4. TInv
  BY <1>3, ParamsAssumption DEF Init, TInv, Startup, Values
<1>5. PoolInv
  <2>1. PICK b \in Nat : b = Buffers
    BY ParamsAssumption
  <2>2. pool = [i \in 1 .. b |-> i] /\ kept = {}
    BY <2>1 DEF Init
  <2>3. pool \in Seq(1 .. b) /\ Len(pool) = b
    BY <2>2
  <2>4. Cardinality(kept) = 0
    BY <2>2, FS_EmptySet
  <2>5. \A i, j \in 1 .. Len(pool) : pool[i] = pool[j] => i = j
    BY <2>2, <2>3
  <2> QED BY <2>1, <2>2, <2>3, <2>4, <2>5 DEF PoolInv
<1>6. StageInv /\ TextInv /\ StartsAsTold
  BY <1>3 DEF Init, StageInv, TextInv, StartsAsTold
<1>7. SetAsGiven
  BY DEF Init, NoCommandYet, SetAsGiven
<1> QED BY <1>4, <1>5, <1>6, <1>7 DEF IInv
-----------------------------------------------------------------------------
(***************************************************************************)
(* Start-up.                                                               *)
(***************************************************************************)
(* The environment replaces the literals.                                  *)
LEMMA SSetFromEnv ==
  ASSUME IInv, SetFromEnv
  PROVE  IInv'
<1>1. /\ stage = "env" /\ stage' = "assign" /\ UNCHANGED <<startVars, poolVars, n, last>>
      /\ UNCHANGED <<dyn, heap, val, given, moved>>
  BY DEF SetFromEnv, ghostVars
<1>2. env' = env /\ args' = args
  BY <1>1 DEF startVars
<1>3. \A p \in Name : str'[p] = EnvStr(p)
  BY <1>1 DEF SetFromEnv, EnvStr, IInv, StageInv
<1>4. str' \in Table
  <2>1. str' = [p \in Name |-> EnvStr(p)]
    BY <1>1 DEF SetFromEnv, EnvStr, IInv, StageInv
  <2> QED BY <2>1, ToldIs DEF IInv, Table
<1>5. setby' \in [Name -> SUBSET {"env", "arg", "cmd"}]
  BY DEF SetFromEnv, IInv, TInv
<1>6. TInv'
  BY <1>1, <1>2, <1>4, <1>5 DEF IInv, TInv, Startup
<1>7. \A p : EnvStr(p)' = EnvStr(p)
  BY <1>2 DEF EnvStr, InEnv, FromEnv
<1>8. StageInv' /\ TextInv' /\ StartsAsTold'
  BY <1>1, <1>3, <1>7 DEF IInv, StageInv, TextInv, StartsAsTold, Startup
<1> QED BY <1>1, <1>6, <1>8, StartStep DEF Startup

(* Every variable gets its text's number, in the order of the table.       *)
LEMMA SAssignAll ==
  ASSUME IInv, AssignAll
  PROVE  IInv'
<1>1. /\ stage = "assign" /\ UNCHANGED <<startVars, tableVars, poolVars, n, ghostVars, last>>
      /\ UNCHANGED <<str, dyn, setby, heap, given, moved>> /\ env' = env /\ args' = args
  BY DEF AssignAll, tableVars, ghostVars, startVars
<1>2. PICK a : a = Assigned(str, Name)
  OBVIOUS
<1>3. val' = a.val /\ stage' = IF a.ok THEN "parse" ELSE "abort"
  BY <1>2 DEF AssignAll
<1>4. /\ a \in [val : Values, ok : BOOLEAN]
      /\ a.ok => \A p \in Name : AsText(str, Name, a, p)
  BY <1>2, AssignedFacts DEF IInv, TInv, Table
<1>5. val' \in Values
  BY <1>3, <1>4
<1>6. a.ok => \A p \in Name : val'[p] = EnvVal(p)
  <2> SUFFICES ASSUME a.ok, NEW p \in Name PROVE val'[p] = EnvVal(p)
    OBVIOUS
  <2>1. str[p] = EnvStr(p) /\ val[p] = 0
    BY <1>1 DEF IInv, StageInv
  <2>2. AsText(str, Name, a, p)
    BY <1>4
  <2>3. CASE str[p].at # "null"
    BY <1>3, <2>1, <2>2, <2>3, ToldIs DEF AsText, IInv
  <2>4. CASE str[p].at = "null"
    <3>1. p \notin Followers /\ EnvStr(p) = Null
      <4>1. p \in Unset
        BY <2>1, <2>4, ToldIs DEF IInv
      <4>2. Fixed(FromEnv(p)).at = "fixed"
        BY DEF Fixed
      <4>3. InEnv(p) = {}
        BY <2>1, <2>4, <4>2 DEF EnvStr
      <4> QED BY <4>1, <4>3, UnsetIs DEF EnvStr
    <3>2. val'[p] = 0
      BY <1>3, <2>1, <2>2, <2>4, <3>1 DEF AsText
    <3>3. Null.t.v = 0
      BY DEF Null
    <3> QED BY <3>1, <3>2, <3>3, ToldIs DEF IInv
  <2> QED BY <2>3, <2>4
<1>7. stage' = "parse" \/ stage' = "abort"
  BY <1>3
<1>8. TInv'
  BY <1>1, <1>5, <1>7 DEF IInv, TInv, Startup
<1>9. \A p : EnvStr(p)' = EnvStr(p) /\ EnvVal(p)' = EnvVal(p)
  BY <1>1 DEF EnvStr, EnvVal, InEnv, FromEnv
<1>10. StageInv' /\ TextInv' /\ StartsAsTold'
  <2>1. n = 0 /\ last = NoCommandYet /\ \A p \in Name : str[p] = EnvStr(p)
    BY <1>1 DEF IInv, StageInv, Startup
  <2>2. stage' = "parse" => \A p \in Name : val'[p] = EnvVal(p)
    BY <1>3, <1>6
  <2> QED BY <1>1, <1>7, <1>9, <2>1, <2>2 DEF StageInv, TextInv, StartsAsTold
<1> QED BY <1>1, <1>8, <1>10, StartStep DEF Startup

(* The command line parses, or the program ends.                           *)
LEMMA SParseArgs ==
  ASSUME IInv, ParseArgs
  PROVE  IInv'
<1>1. /\ stage = "parse" /\ UNCHANGED <<startVars, tableVars, poolVars, n, ghostVars, last>>
      /\ UNCHANGED <<str, dyn, setby, heap, val, given, moved>> /\ env' = env /\ args' = args
  BY DEF ParseArgs, tableVars, ghostVars, startVars
<1>2. \/ stage' \in {"abort", "exit"}
      \/ stage' = "back" /\ ~\E o \in DOMAIN args : ~ArgScans(o, args[o])
  BY DEF ParseArgs
<1>3. stage' \in {"abort", "exit", "back"}
  BY <1>2
<1>4. TInv'
  BY <1>1, <1>3 DEF IInv, TInv, Startup
<1>5. \A p : EnvStr(p)' = EnvStr(p) /\ EnvVal(p)' = EnvVal(p)
  BY <1>1 DEF EnvStr, EnvVal, InEnv, FromEnv
<1>6. StageInv' /\ TextInv' /\ StartsAsTold'
  <2>1. n = 0 /\ last = NoCommandYet
        /\ \A p \in Name : str[p] = EnvStr(p) /\ val[p] = EnvVal(p)
    BY <1>1 DEF IInv, StageInv, Startup
  <2> QED BY <1>1, <1>2, <1>5, <2>1 DEF StageInv, TextInv, StartsAsTold
<1> QED BY <1>1, <1>4, <1>6, StartStep DEF Startup

(* What is shown of a number that was scanned is a text.                   *)
LEMMA ShownIs ==
  ASSUME NEW p \in Double \cup Int32, NEW t \in Text, ArgScans(p, t)
  PROVE  [v |-> Shown(p, t.v), whole |-> TRUE] \in Text
<1>1. t.v \in Nat
  BY DEF ArgScans, Text
<1>2. PICK x \in Nat : x = t.v
  BY <1>1
<1>3. Shown(p, x) \in Nat
  <2>1. x % 2 = 1 => x # 0
    OBVIOUS
  <2>2. x % 2 = 1 => x - 1 \in Nat
    BY <2>1
  <2> QED BY <2>2 DEF Shown
<1> QED BY <1>2, <1>3 DEF Text

(* The options given replace values and texts.                             *)
LEMMA SResultsBack ==
  ASSUME IInv, ResultsBack
  PROVE  IInv'
<1>1. /\ stage = "back" /\ stage' = "ids" /\ UNCHANGED <<startVars, poolVars, n, last>>
      /\ env' = env /\ args' = args /\ given' = val'
  BY DEF ResultsBack, startVars
<1>2. /\ n = 0 /\ last = NoCommandYet
      /\ \A p \in Name : str[p] = EnvStr(p) /\ val[p] = EnvVal(p)
      /\ \A o \in DOMAIN args : ArgScans(o, args[o])
  BY <1>1 DEF IInv, StageInv, Startup
<1>t. TInv
  BY DEF IInv
<1>3. \A p \in Name : Given(p) <=> p \in DOMAIN args
  BY <1>t, GivenIs, ToldIs
<1>4. \A p \in DOMAIN args : Data(p) = args[p] /\ args[p] \in Text /\ p \in Name
  BY <1>t, ToldIs DEF Data
<1>5. \A p \in Name : val'[p] = Told(p) /\ Told(p) \in Int
  <2> SUFFICES ASSUME NEW p \in Name PROVE val'[p] = Told(p) /\ Told(p) \in Int
    OBVIOUS
  <2>1. val'[p] = IF Given(p) THEN Data(p).v ELSE val[p]
    BY DEF ResultsBack
  <2>2. CASE p \in DOMAIN args
    <3>1. val'[p] = args[p].v /\ Told(p) = args[p].v
      BY <1>3, <1>4, <2>1, <2>2 DEF Told
    <3> QED BY <1>4, <2>2, <3>1, TextIs
  <2>3. CASE p \notin DOMAIN args
    <3>1. val'[p] = EnvVal(p) /\ Told(p) = EnvVal(p)
      BY <1>2, <1>3, <1>t, <2>1, <2>3, ToldIs
    <3> QED BY <1>t, <3>1, ToldIs
  <2> QED BY <2>2, <2>3
<1>6. val' \in Values
  <2>1. val' = [p \in Name |-> val'[p]]
    BY DEF ResultsBack
  <2> QED BY <1>5, <2>1 DEF Values
<1>7. /\ dyn' = [p \in Name |-> Given(p) /\ p \in Double \cup Int32]
      /\ heap' = {p \in Name : dyn'[p]}
      /\ setby' = [p \in Name |-> IF Given(p) THEN setby[p] \cup {"arg"} ELSE setby[p]]
  BY DEF ResultsBack
<1>8. dyn' \in [Name -> BOOLEAN] /\ \A p \in Name : dyn'[p] <=> Given(p) /\ p \in Double \cup Int32
  <2>1. \A p \in Name : (Given(p) /\ p \in Double \cup Int32) \in BOOLEAN
    OBVIOUS
  <2> QED BY <1>7, <2>1, Zenon
<1>9. setby' \in [Name -> SUBSET {"env", "arg", "cmd"}]
  BY <1>7 DEF IInv, TInv
<1>10. moved' = {p \in DOMAIN args : Shown(p, Data(p).v) # Data(p).v} /\ moved' \subseteq Name
  BY <1>4 DEF ResultsBack
<1>11. str' = [p \in Name |->
                IF ~Given(p) THEN str[p]
                ELSE IF dyn'[p] THEN Block([v |-> Shown(p, Data(p).v), whole |-> TRUE])
                ELSE Fixed(Data(p))]
  BY DEF ResultsBack
<1>12. ASSUME NEW p \in Name
       PROVE  /\ str'[p] \in StrRec
              /\ p \in CmdSource => str'[p].at # "null" /\ (p \notin moved' => str'[p].t.v = val'[p])
  <2>1. CASE p \notin DOMAIN args
    <3>1. str'[p] = EnvStr(p)
      BY <1>2, <1>3, <1>11, <2>1
    <3>2. val'[p] = EnvVal(p)
      BY <1>5, <1>t, <2>1, ToldIs
    <3> QED BY <1>t, <3>1, <3>2, ToldIs, UnsetIs
  <2>2. CASE p \in DOMAIN args /\ p \in Double \cup Int32
    <3>1. PICK t \in Text : t = args[p] /\ t = Data(p) /\ ArgScans(p, t)
      BY <1>2, <1>4, <2>2
    <3>2. PICK u \in Text : u = [v |-> Shown(p, t.v), whole |-> TRUE]
      BY <2>2, <3>1, ShownIs
    <3>3. str'[p] = Block(u)
      BY <1>3, <1>8, <1>11, <2>2, <3>1, <3>2
    <3>4. Block(u) \in StrRec /\ Block(u).at = "heap" /\ Block(u).t = u
      BY DEF Block, StrRec
    <3>5. p \notin moved' => u.v = t.v
      BY <1>10, <2>2, <3>1, <3>2
    <3>6. val'[p] = t.v
      BY <1>5, <1>t, <2>2, <3>1, ToldIs
    <3> QED BY <3>3, <3>4, <3>5, <3>6
  <2>3. CASE p \in DOMAIN args /\ p \notin Double \cup Int32
    <3>1. PICK t \in Text : t = Data(p)
      BY <1>4, <2>3
    <3>2. str'[p] = Fixed(t)
      BY <1>3, <1>8, <1>11, <2>3, <3>1
    <3>3. Fixed(t) \in StrRec /\ p \notin CmdSource
      BY <2>3, UnsetIs DEF Fixed, StrRec
    <3> QED BY <3>2, <3>3
  <2> QED BY <2>1, <2>2, <2>3
<1>13. str' \in Table
  <2>1. str' = [p \in Name |-> str'[p]]
    BY <1>11
  <2> QED BY <1>12, <2>1, Zenon DEF Table
<1>14. TInv'
  BY <1>1, <1>6, <1>7, <1>8, <1>9, <1>10, <1>13 DEF IInv, TInv, Startup
<1>15. \A p : Told(p)' = Told(p)
  BY <1>1 DEF Told, InEnv, FromEnv
<1>16. StageInv' /\ TextInv' /\ StartsAsTold'
  <2>1. \A p \in CmdSource : str'[p].at # "null" /\ (p \notin moved' => str'[p].t.v = given'[p])
    BY <1>1, <1>12, UnsetIs
  <2> QED BY <1>1, <1>2, <1>5, <1>15, <2>1 DEF StageInv, TextInv, StartsAsTold
<1> QED BY <1>1, <1>14, <1>16, StartStep DEF Startup

(* Users, groups and capabilities.                                         *)
LEMMA SFindIds ==
  ASSUME IInv, FindIds
  PROVE  IInv'
<1>1. /\ stage = "ids" /\ stage' \in {"prio", "exit"}
      /\ UNCHANGED <<startVars, tableVars, poolVars, n, ghostVars, last>>
      /\ UNCHANGED <<str, dyn, setby, heap, val, given, moved>> /\ env' = env /\ args' = args
  BY DEF FindIds, afterParsing, tableVars, ghostVars, startVars
<1>2. TInv'
  BY <1>1 DEF IInv, TInv, Startup
<1>3. \A p : Told(p)' = Told(p)
  BY <1>1 DEF Told, InEnv, FromEnv
<1>4. StageInv' /\ TextInv' /\ StartsAsTold'
  BY <1>1, <1>3 DEF IInv, StageInv, TextInv, StartsAsTold, Startup
<1> QED BY <1>1, <1>2, <1>4, StartStep DEF Startup

(* The common priority is given out.                                       *)
LEMMA SSetPriorities ==
  ASSUME IInv, SetPriorities
  PROVE  IInv'
<1>1. /\ stage = "prio" /\ stage' = "writer"
      /\ UNCHANGED <<startVars, tableVars, poolVars, n, ghostVars, last>>
      /\ UNCHANGED <<str, dyn, setby, heap, given, moved>> /\ env' = env /\ args' = args
      /\ val' = [p \in Name |-> Priority(p)]
  BY DEF SetPriorities, afterParsing, tableVars, ghostVars, startVars
<1>2. \A p \in Name : val[p] = Told(p) /\ val[p] \in Int
  BY <1>1 DEF IInv, TInv, StageInv, Values
<1>3. "rtprio" \in Name
  BY NameIs
<1>4. \A p \in Name : Priority(p) = ToldOrCommon(p) /\ Priority(p) \in Int
  BY <1>2, <1>3 DEF Priority, ToldOrCommon
<1>5. val' \in Values
  BY <1>1, <1>4 DEF Values
<1>6. TInv'
  BY <1>1, <1>5 DEF IInv, TInv, Startup
<1>7. \A p : ToldOrCommon(p)' = ToldOrCommon(p)
  BY <1>1 DEF ToldOrCommon, Told, InEnv, FromEnv
<1>8. \A p \in Name : val'[p] = ToldOrCommon(p)
  BY <1>1, <1>4
<1>9. StageInv' /\ TextInv' /\ StartsAsTold'
  BY <1>1, <1>7, <1>8 DEF IInv, StageInv, TextInv, StartsAsTold, Startup
<1> QED BY <1>1, <1>6, <1>9, StartStep DEF Startup

(* The two verifications.                                                  *)
LEMMA SVerify ==
  ASSUME IInv, VerifyWriter \/ VerifyReader
  PROVE  IInv'
<1>1. /\ \/ stage = "writer" /\ stage' \in {"reader", "exit"}
         \/ stage = "reader" /\ stage' \in {"run", "exit"}
      /\ UNCHANGED <<startVars, tableVars, poolVars, n, ghostVars, last>>
      /\ UNCHANGED <<str, dyn, setby, heap, val, given, moved>> /\ env' = env /\ args' = args
  BY DEF VerifyWriter, VerifyReader, Verify, afterParsing, tableVars, ghostVars, startVars
<1>2. TInv'
  BY <1>1 DEF IInv, TInv, Startup
<1>3. \A p : ToldOrCommon(p)' = ToldOrCommon(p)
  BY <1>1 DEF ToldOrCommon, Told, InEnv, FromEnv
<1>4. StageInv' /\ TextInv' /\ StartsAsTold'
  BY <1>1, <1>3 DEF IInv, StageInv, TextInv, StartsAsTold, Startup
<1> QED BY <1>1, <1>2, <1>4, StartStep DEF Startup
-----------------------------------------------------------------------------
(***************************************************************************)
(* What a Param makes of the table.                                        *)
(***************************************************************************)
(* Writing a buffer leaves each text as it is or disturbs it.              *)
LEMMA OverwrittenIs ==
  ASSUME NEW s \in Table, NEW b \in Nat, NEW r \in Overwritten(s, b)
  PROVE  /\ r \in Table /\ Disturbed(s, r) \subseteq Name
         /\ \A p \in Name : (s[p].at # "null" => r[p].at # "null")
                            /\ (p \notin Disturbed(s, r) => r[p].t = s[p].t)
                            /\ (s[p].at # "buffer" => r[p] = s[p])
<1>0. PICK f \in UNION {[X -> Leavings] : X \in SUBSET Into(s, b)} :
        r = [p \in Name |-> IF p \in DOMAIN f THEN InBuffer(b, f[p]) ELSE s[p]]
  BY DEF Overwritten
<1>1. PICK X \in SUBSET Into(s, b) :
        f \in [X -> Leavings]
        /\ r = [p \in Name |-> IF p \in DOMAIN f THEN InBuffer(b, f[p]) ELSE s[p]]
  BY <1>0
<1>2. Leavings \subseteq Text
  BY DEF Leavings, Text
<1>3. ASSUME NEW p \in Name
      PROVE  /\ r[p] \in StrRec
             /\ s[p].at # "null" => r[p].at # "null"
             /\ p \notin Disturbed(s, r) => r[p].t = s[p].t
             /\ s[p].at # "buffer" => r[p] = s[p]
  <2>1. CASE p \in X
    <3>1. PICK t \in Text : t = f[p]
      BY <1>1, <1>2, <2>1
    <3>2. r[p] = InBuffer(b, t)
      BY <1>1, <2>1, <3>1
    <3>3. InBuffer(b, t) \in StrRec /\ InBuffer(b, t).at = "buffer"
      BY DEF InBuffer, StrRec
    <3>4. s[p].at = "buffer"
      BY <2>1 DEF Into
    <3> QED BY <3>2, <3>3, <3>4 DEF Disturbed
  <2>2. CASE p \notin X
    <3>1. r[p] = s[p]
      BY <1>1, <2>2
    <3> QED BY <3>1 DEF Table
  <2> QED BY <2>1, <2>2
<1>4. r \in Table
  <2>1. r = [p \in Name |-> r[p]]
    BY <1>1
  <2> QED BY <1>3, <2>1, Zenon DEF Table
<1> QED BY <1>3, <1>4 DEF Disturbed

(* What is known of the table while a list is worked off: the parameters   *)
(* set have the text given, the others are as they were.                   *)
Accs == [str : Table, dyn : [Name -> BOOLEAN], heap : SUBSET Name,
         setby : [Name -> SUBSET {"env", "arg", "cmd"}], given : Values,
         set : SUBSET CmdSource, bad : BOOLEAN,
         err : {"none", "unknown", "source", "invalid"}]
AccIs(s, acc) ==
  /\ acc \in Accs
  /\ \A p \in Name : /\ p \in acc.set => acc.str[p].at = "buffer" /\ acc.str[p].t.v = acc.given[p]
                     /\ p \notin acc.set => acc.str[p] = s[p] /\ acc.given[p] = given[p]

(* Setting one parameter.                                                  *)
LEMMA SetValueIs ==
  ASSUME NEW s, NEW acc, AccIs(s, acc), NEW p \in CmdSource, NEW b \in Nat, NEW t \in Text
  PROVE  AccIs(s, SetValue(acc, p, InBuffer(b, t)))
<1>1. PICK ptr \in StrRec : ptr = InBuffer(b, t) /\ ptr.at = "buffer" /\ ptr.t = t
  <2>1. InBuffer(b, t) \in StrRec /\ InBuffer(b, t).at = "buffer" /\ InBuffer(b, t).t = t
    BY DEF InBuffer, StrRec
  <2> QED BY <2>1
<1>2. PICK r : r = SetValue(acc, p, ptr)
  OBVIOUS
<1>3. acc \in Accs /\ p \in Name
  BY UnsetIs DEF AccIs
<1>4. PICK c \in BOOLEAN : c = (acc.dyn[p] /\ acc.str[p].at # "null")
  OBVIOUS
<1>5. PICK d \in BOOLEAN : d = (acc.bad \/ (c /\ ~(acc.str[p].at = "heap" /\ p \in acc.heap)))
  OBVIOUS
<1>6. PICK h \in SUBSET Name : h = IF c THEN acc.heap \ {p} ELSE acc.heap
  <2>1. acc.heap \in SUBSET Name
    BY <1>3 DEF Accs
  <2> QED BY <2>1
<1>7. PICK u \in Table : u = [acc.str EXCEPT ![p] = ptr]
  <2>1. acc.str \in Table
    BY <1>3 DEF Accs
  <2> QED BY <1>3, <2>1 DEF Table
<1>8. PICK y \in [Name -> SUBSET {"env", "arg", "cmd"}] : y = [acc.setby EXCEPT ![p] = @ \cup {"cmd"}]
  <2>1. acc.setby \in [Name -> SUBSET {"env", "arg", "cmd"}]
    BY <1>3 DEF Accs
  <2> QED BY <1>3, <2>1
<1>9. PICK g \in Values : g = [acc.given EXCEPT ![p] = t.v]
  <2>1. acc.given \in Values /\ t.v \in Int
    BY <1>3, TextIs DEF Accs
  <2> QED BY <1>3, <2>1 DEF Values
<1>10. PICK z \in SUBSET CmdSource : z = acc.set \cup {p}
  <2>1. acc.set \in SUBSET CmdSource
    BY <1>3 DEF Accs
  <2> QED BY <2>1
<1>11. r = [acc EXCEPT !.bad = d, !.heap = h, !.str = u, !.setby = y, !.set = z, !.given = g]
  BY <1>1, <1>2, <1>3, <1>4, <1>5, <1>6, <1>7, <1>8, <1>9, <1>10 DEF SetValue, Accs
<1>12. r \in Accs /\ r.str = u /\ r.set = z /\ r.given = g
  BY <1>3, <1>11 DEF Accs
<1>13. ASSUME NEW q \in Name
       PROVE  /\ q \in z => u[q].at = "buffer" /\ u[q].t.v = g[q]
              /\ q \notin z => u[q] = s[q] /\ g[q] = given[q]
  <2>1. acc.str \in Table /\ acc.given \in Values
    BY <1>3 DEF Accs
  <2>2. CASE q = p
    BY <1>1, <1>3, <1>7, <1>9, <1>10, <2>1, <2>2 DEF Table, Values
  <2>3. CASE q # p
    <3>1. u[q] = acc.str[q] /\ g[q] = acc.given[q] /\ (q \in z <=> q \in acc.set)
      BY <1>3, <1>7, <1>9, <1>10, <2>1, <2>3 DEF Table, Values
    <3> QED BY <3>1 DEF AccIs
  <2> QED BY <2>2, <2>3
<1>14. AccIs(s, r)
  BY <1>12, <1>13, Zenon DEF AccIs
<1> QED BY <1>1, <1>2, <1>14

(* One parameter of a list.                                                *)
LEMMA SetFromCmdIs ==
  ASSUME NEW s, NEW acc, AccIs(s, acc), Cmd \in Nat,
         NEW a \in [name : STRING, t : Text, eq : BOOLEAN]
  PROVE  AccIs(s, SetFromCmd(acc, a))
<1>1. CASE acc.err # "none" \/ acc.bad
  BY <1>1 DEF SetFromCmd
<1>2. ASSUME NEW e \in {"unknown", "source", "invalid"}
      PROVE  AccIs(s, [acc EXCEPT !.err = e])
  <2>1. [acc EXCEPT !.err = e] \in Accs
    BY DEF AccIs, Accs
  <2>2. /\ [acc EXCEPT !.err = e].str = acc.str /\ [acc EXCEPT !.err = e].set = acc.set
        /\ [acc EXCEPT !.err = e].given = acc.given
    BY DEF AccIs, Accs
  <2> QED BY <2>1, <2>2, Zenon DEF AccIs
<1>3. CASE Beginning(a.name) # {} /\ Find(a.name) \in CmdSource
  <2>1. PICK p \in CmdSource, t \in Text : p = Find(a.name) /\ t = a.t
    BY <1>3
  <2>2. AccIs(s, SetValue(acc, p, InBuffer(Cmd, t)))
    BY <2>1, SetValueIs
  <2> QED BY <1>1, <1>2, <1>3, <2>1, <2>2 DEF SetFromCmd
<1>4. CASE ~(Beginning(a.name) # {} /\ Find(a.name) \in CmdSource)
  BY <1>1, <1>2, <1>4 DEF SetFromCmd
<1> QED BY <1>3, <1>4

(* The function that SetFromString defines.                                *)
IsSetting(f, k, s, list) ==
  f = [i \in 0 .. k |-> IF i = 0 THEN Start(s) ELSE SetFromCmd(f[i - 1], list[i])]

(* There is one, however long the list.                                    *)
LEMMA SettingExists ==
  ASSUME NEW k \in Nat, NEW s, NEW list
  PROVE  \E f : IsSetting(f, k, s, list)
<1> DEFINE T == {m \in 0 .. k : \E f : IsSetting(f, m, s, list)}
<1>1. 0 \in T
  <2> DEFINE f == [i \in 0 .. 0 |-> Start(s)]
  <2>1. f = [i \in 0 .. 0 |-> IF i = 0 THEN Start(s) ELSE SetFromCmd(f[i - 1], list[i])]
    OBVIOUS
  <2> HIDE DEF f
  <2>2. IsSetting(f, 0, s, list)
    BY <2>1, Zenon DEF IsSetting
  <2> QED BY <2>2
<1>2. ASSUME NEW j \in 1 .. k, j - 1 \in T PROVE j \in T
  <2>0. PICK m \in Nat : m = j - 1 /\ j = m + 1
    OBVIOUS
  <2>1. PICK f : IsSetting(f, m, s, list)
    BY <1>2, <2>0
  <2> DEFINE g == [i \in 0 .. j |-> IF i = j THEN SetFromCmd(f[m], list[j]) ELSE f[i]]
  <2>2. ASSUME NEW i \in 0 .. j
        PROVE  g[i] = IF i = 0 THEN Start(s) ELSE SetFromCmd(g[i - 1], list[i])
    <3>1. \A l \in 0 .. m : f[l] = IF l = 0 THEN Start(s) ELSE SetFromCmd(f[l - 1], list[l])
      BY <2>1 DEF IsSetting
    <3>2. CASE i = j
      <4>1. i - 1 = m /\ m \in 0 .. j /\ m # j /\ i # 0
        BY <2>0, <3>2
      <4>2. g[m] = f[m] /\ g[i] = SetFromCmd(f[m], list[j])
        BY <3>2, <4>1
      <4> QED BY <3>2, <4>1, <4>2, Zenon
    <3>3. CASE i # j
      <4>1. i \in 0 .. m /\ g[i] = f[i]
        BY <2>0, <3>3
      <4>2. i # 0 => i - 1 \in 0 .. j /\ i - 1 # j
        BY <2>0, <3>3
      <4>3. i # 0 => g[i - 1] = f[i - 1]
        BY <4>2
      <4> QED BY <3>1, <4>1, <4>3, Zenon
    <3> QED BY <3>2, <3>3
  <2>3. g = [i \in 0 .. j |-> g[i]]
    OBVIOUS
  <2> HIDE DEF g
  <2>4. g = [i \in 0 .. j |-> IF i = 0 THEN Start(s) ELSE SetFromCmd(g[i - 1], list[i])]
    BY <2>2, <2>3, Zenon
  <2>5. IsSetting(g, j, s, list)
    BY <2>4, Zenon DEF IsSetting
  <2>6. j \in 0 .. k
    OBVIOUS
  <2> QED BY <2>5, <2>6
<1> HIDE DEF T
<1>3. 0 .. k \subseteq T
  BY <1>1, <1>2, UpTo
<1>4. k \in T
  BY <1>3
<1> QED BY <1>4 DEF T

(* What a list makes of the table.                                         *)
LEMMA SetFromStringIs ==
  ASSUME TInv, NEW s \in Table, NEW list \in Lists, Cmd \in Nat
  PROVE  AccIs(s, SetFromString(s, list))
<1>1. PICK k \in Nat : k = Len(list) /\ DOMAIN list = 1 .. k
  BY ParamsAssumption, LenProperties
<1>2. \A i \in 1 .. k : list[i] \in [name : STRING, t : Text, eq : BOOLEAN]
  BY <1>1, ParamsAssumption, ElementOfSeq
<1>3. AccIs(s, Start(s))
  <2>1. Start(s) \in Accs
    BY DEF Start, Accs, TInv
  <2>2. Start(s).str = s /\ Start(s).set = {} /\ Start(s).given = given
    BY DEF Start
  <2> QED BY <2>1, <2>2 DEF AccIs
<1>4. AccIs(s, [Start(s) EXCEPT !.err = "invalid"])
  <2>1. PICK acc \in Accs : acc = Start(s)
    BY <1>3 DEF AccIs
  <2>2. [acc EXCEPT !.err = "invalid"] \in Accs
    BY DEF Accs
  <2>3. /\ [acc EXCEPT !.err = "invalid"].str = acc.str /\ [acc EXCEPT !.err = "invalid"].set = acc.set
        /\ [acc EXCEPT !.err = "invalid"].given = acc.given
    BY DEF Accs
  <2> QED BY <1>3, <2>1, <2>2, <2>3, Zenon DEF AccIs
<1> DEFINE f == CHOOSE g : g = [i \in 0 .. Len(list) |->
                  IF i = 0 THEN Start(s) ELSE SetFromCmd(g[i - 1], list[i])]
<1>5. SetFromString(s, list) = IF list = <<>> THEN [Start(s) EXCEPT !.err = "invalid"] ELSE f[Len(list)]
  BY DEF SetFromString
<1>6. \E g : IsSetting(g, Len(list), s, list)
  BY <1>1, SettingExists
<1>7. f = [i \in 0 .. Len(list) |-> IF i = 0 THEN Start(s) ELSE SetFromCmd(f[i - 1], list[i])]
  BY <1>6, Zenon DEF IsSetting
<1> HIDE DEF f
<1>8. f = [i \in 0 .. k |-> IF i = 0 THEN Start(s) ELSE SetFromCmd(f[i - 1], list[i])]
  BY <1>1, <1>7
<1>9. \A i \in 0 .. k : f[i] = IF i = 0 THEN Start(s) ELSE SetFromCmd(f[i - 1], list[i])
  BY <1>8
<1> DEFINE T == {i \in 0 .. k : AccIs(s, f[i])}
<1>10. 0 \in T
  <2>1. 0 \in 0 .. k /\ f[0] = Start(s)
    BY <1>9
  <2> QED BY <1>3, <2>1
<1>11. ASSUME NEW i \in 1 .. k, i - 1 \in T PROVE i \in T
  <2>1. i \in 0 .. k /\ i # 0
    OBVIOUS
  <2>2. f[i] = SetFromCmd(f[i - 1], list[i])
    BY <1>9, <2>1, Zenon
  <2>3. AccIs(s, f[i - 1])
    BY <1>11
  <2>4. AccIs(s, SetFromCmd(f[i - 1], list[i]))
    BY <1>2, <2>3, SetFromCmdIs
  <2> QED BY <2>1, <2>2, <2>4
<1> HIDE DEF T
<1>12. 0 .. k \subseteq T
  BY <1>10, <1>11, UpTo
<1>13. k \in T
  BY <1>12
<1>14. AccIs(s, f[k])
  BY <1>13 DEF T
<1> QED BY <1>1, <1>4, <1>5, <1>14
-----------------------------------------------------------------------------
(***************************************************************************)
(* Commands.                                                               *)
(***************************************************************************)
(* Two sequences, one after the other: u is r, of length h, and then t, of *)
(* length k.                                                               *)
IsJoin(B, u, r, t, h, k) ==
  /\ u \in Seq(B) /\ Len(u) = h + k
  /\ \A i \in 1 .. h + k : u[i] = IF i <= h THEN r[i] ELSE t[i - h]

LEMMA Joined ==
  ASSUME NEW B, NEW r \in Seq(B), NEW t \in Seq(B), NEW h \in Nat, NEW k \in Nat,
         Len(r) = h, Len(t) = k
  PROVE  IsJoin(B, r \o t, r, t, h, k)
<1>1. /\ r \o t \in Seq(B) /\ Len(r \o t) = h + k
      /\ \A i \in 1 .. h + k : (r \o t)[i] = IF i <= h THEN r[i] ELSE t[i - h]
  BY ConcatProperties
<1> QED BY <1>1, Zenon DEF IsJoin

(* The rest of a sequence.                                                 *)
LEMMA RestIs ==
  ASSUME NEW B, NEW q \in Seq(B), NEW h \in Nat, Len(q) = h + 2
  PROVE  /\ SubSeq(q, 3, h + 2) \in Seq(B) /\ Len(SubSeq(q, 3, h + 2)) = h
         /\ \A i \in 1 .. h : SubSeq(q, 3, h + 2)[i] = q[i + 2]
OBVIOUS

(* The first k of s are different; t has nothing that stands in q from the *)
(* third place on; the first k of s are not in K.                          *)
NoneTwice(s, k) == \A i, j \in 1 .. k : s[i] = s[j] => i = j
NoneOfRest(t, k, q, h) == \A i \in 1 .. k : \A j \in 3 .. h + 2 : t[i] # q[j]
NoneIn(s, k, K) == \A i \in 1 .. k : s[i] \notin K
RestNotIn(q, h, K) == \A j \in 3 .. h + 2 : q[j] \notin K
IsNewPool(B, u, m, K) ==
  u \in Seq(B) /\ Len(u) = m /\ NoneTwice(u, m) /\ NoneIn(u, m, K)

(* The rest of a sequence with another behind it has nothing twice, and    *)
(* nothing of K.                                                           *)
LEMMA JoinRest ==
  ASSUME NEW B, NEW q \in Seq(B), NEW t \in Seq(B), NEW h \in Nat, NEW k \in Nat, NEW K,
         Len(q) = h + 2, Len(t) = k,
         NoneTwice(q, h + 2), NoneTwice(t, k), NoneOfRest(t, k, q, h), NoneIn(t, k, K),
         RestNotIn(q, h, K), NEW u, u = SubSeq(q, 3, h + 2) \o t
  PROVE  IsNewPool(B, u, h + k, K)
<1>1. PICK r \in Seq(B) : r = SubSeq(q, 3, h + 2) /\ Len(r) = h /\ \A i \in 1 .. h : r[i] = q[i + 2]
  <2>1. /\ SubSeq(q, 3, h + 2) \in Seq(B) /\ Len(SubSeq(q, 3, h + 2)) = h
        /\ \A i \in 1 .. h : SubSeq(q, 3, h + 2)[i] = q[i + 2]
    BY RestIs
  <2> QED BY <2>1, Zenon
<1>2. u = r \o t
  BY <1>1, Zenon
<1>3. IsJoin(B, r \o t, r, t, h, k)
  BY <1>1, Joined, Zenon
<1>4. /\ u \in Seq(B) /\ Len(u) = h + k
      /\ \A i \in 1 .. h + k : u[i] = IF i <= h THEN r[i] ELSE t[i - h]
  BY <1>2, <1>3, Zenon DEF IsJoin
<1>5. ASSUME NEW i \in 1 .. h + k
      PROVE  \/ i <= h /\ i + 2 \in 3 .. h + 2 /\ i + 2 \in 1 .. h + 2 /\ u[i] = q[i + 2]
             \/ i > h /\ i - h \in 1 .. k /\ u[i] = t[i - h]
  <2>1. CASE i <= h
    <3>1. i \in 1 .. h /\ i + 2 \in 3 .. h + 2 /\ i + 2 \in 1 .. h + 2
      BY <2>1
    <3>2. u[i] = q[i + 2]
      BY <1>1, <1>4, <2>1, <3>1, Zenon
    <3> QED BY <2>1, <3>1, <3>2, Zenon
  <2>2. CASE ~(i <= h)
    <3>1. i > h /\ i - h \in 1 .. k
      BY <2>2
    <3>2. u[i] = t[i - h]
      BY <1>4, <2>2, Zenon
    <3> QED BY <3>1, <3>2, Zenon
  <2> QED BY <2>1, <2>2
<1>6. NoneTwice(u, h + k)
  <2> SUFFICES ASSUME NEW i \in 1 .. h + k, NEW j \in 1 .. h + k, u[i] = u[j] PROVE i = j
    BY DEF NoneTwice
  <2>1. CASE i <= h /\ j <= h
    <3>1. i + 2 \in 1 .. h + 2 /\ j + 2 \in 1 .. h + 2 /\ q[i + 2] = q[j + 2]
      BY <1>5, <2>1
    <3>2. i + 2 = j + 2
      BY <3>1, Zenon DEF NoneTwice
    <3> QED BY <3>2
  <2>2. CASE i > h /\ j > h
    <3>1. i - h \in 1 .. k /\ j - h \in 1 .. k /\ t[i - h] = t[j - h]
      BY <1>5, <2>2
    <3>2. i - h = j - h
      BY <3>1, Zenon DEF NoneTwice
    <3> QED BY <3>2
  <2>3. CASE i <= h /\ j > h
    BY <1>5, <2>3 DEF NoneOfRest
  <2>4. CASE i > h /\ j <= h
    BY <1>5, <2>4 DEF NoneOfRest
  <2> QED BY <2>1, <2>2, <2>3, <2>4
<1>7. NoneIn(u, h + k, K)
  BY <1>5, Zenon DEF NoneIn, RestNotIn
<1> QED BY <1>4, <1>6, <1>7, Zenon DEF IsNewPool

(* There are finitely many buffers.                                        *)
LEMMA KeptFinite ==
  /\ \A K \in SUBSET (1 .. Buffers) : IsFiniteSet(K) /\ Cardinality(K) \in Nat
  /\ PoolInv => IsFiniteSet(kept) /\ Cardinality(kept) \in Nat
<1>1. 1 \in Int /\ Buffers \in Int
  BY ParamsAssumption
<1>2. IsFiniteSet(1 .. Buffers)
  BY <1>1, FS_Interval
<1>3. \A K \in SUBSET (1 .. Buffers) : IsFiniteSet(K) /\ Cardinality(K) \in Nat
  BY <1>2, FS_Subset, FS_CardinalityType
<1> QED BY <1>3 DEF PoolInv

(* The rest of the pool and what is given back, t, are the new pool.       *)
LEMMA PoolJoin ==
  ASSUME PoolInv, Len(pool) >= 2,
         NEW t \in Seq(1 .. Buffers), NEW k \in Nat, Len(t) = k, NEW K \in SUBSET (1 .. Buffers),
         NoneTwice(t, k), NoneIn(t, k, K),
         \A i \in 1 .. k : \A j \in 3 .. Len(pool) : t[i] # pool[j],
         \A j \in 3 .. Len(pool) : pool[j] \notin K,
         k + Cardinality(K) = Cardinality(kept) + 2,
         pool' = SubSeq(pool, 3, Len(pool)) \o t, kept' = K
  PROVE  PoolInv'
<1>1. PICK h \in Nat : Len(pool) = h + 2
  <2>1. Len(pool) - 2 \in Nat /\ Len(pool) = (Len(pool) - 2) + 2
    BY DEF PoolInv
  <2> QED BY <2>1
<1>2. PICK B : B = 1 .. Buffers
  OBVIOUS
<1>3. PICK q : q = pool
  OBVIOUS
<1>4. PICK u : u = SubSeq(q, 3, h + 2) \o t
  OBVIOUS
<1>5. q \in Seq(B) /\ t \in Seq(B) /\ Len(q) = h + 2
  BY <1>1, <1>2, <1>3, Zenon DEF PoolInv
<1>a. NoneTwice(q, h + 2) /\ NoneOfRest(t, k, q, h) /\ RestNotIn(q, h, K)
  <2>1. NoneTwice(q, h + 2)
    BY <1>1, <1>3, Zenon DEF PoolInv, NoneTwice
  <2>2. NoneOfRest(t, k, q, h)
    BY <1>1, <1>3, Zenon DEF NoneOfRest
  <2>3. RestNotIn(q, h, K)
    BY <1>1, <1>3, Zenon DEF RestNotIn
  <2> QED BY <2>1, <2>2, <2>3
<1>6. u \in Seq(B) /\ Len(u) = h + k /\ NoneTwice(u, h + k) /\ NoneIn(u, h + k, K)
  <2>1. IsNewPool(B, u, h + k, K)
    BY <1>4, <1>5, <1>a, JoinRest, Zenon
  <2> QED BY <2>1, Zenon DEF IsNewPool
<1>7. pool' = u
  BY <1>1, <1>3, <1>4, Zenon
<1>8. PICK b \in Nat : b = Buffers
  BY ParamsAssumption
<1>9. PICK c \in Nat : c = Cardinality(kept)
  BY KeptFinite
<1>10. PICK d \in Nat : d = Cardinality(K)
  BY KeptFinite
<1>11. h + 2 + c = b /\ k + d = c + 2
  BY <1>1, <1>8, <1>9, <1>10 DEF PoolInv
<1>12. (h + k) + d = b
  BY <1>11
<1>13. Len(pool') + Cardinality(kept') = Buffers
  BY <1>6, <1>7, <1>8, <1>10, <1>12, Zenon
<1>14. \A i, j \in 1 .. Len(pool') : pool'[i] = pool'[j] => i = j
  BY <1>6, <1>7, Zenon DEF NoneTwice
<1>15. \A i \in 1 .. Len(pool') : pool'[i] \notin kept'
  BY <1>6, <1>7, Zenon DEF NoneIn
<1>16. pool' \in Seq(1 .. Buffers) /\ kept' \subseteq 1 .. Buffers
  BY <1>2, <1>6, <1>7
<1> QED BY <1>13, <1>14, <1>15, <1>16, Zenon DEF PoolInv

(* The two buffers of a command.                                           *)
LEMMA CmdErr ==
  ASSUME PoolInv, Len(pool) >= 2
  PROVE  /\ Cmd \in 1 .. Buffers /\ Err \in 1 .. Buffers /\ Cmd # Err /\ Cmd \in Nat /\ Err \in Nat
         /\ Cmd \notin kept /\ Err \notin kept
         /\ \A j \in 3 .. Len(pool) : pool[j] # Cmd /\ pool[j] # Err /\ pool[j] \notin kept
<1>1. PICK m \in Nat : m = Len(pool) /\ m >= 2
  BY DEF PoolInv
<1>2. 1 \in 1 .. m /\ 2 \in 1 .. m /\ \A j \in 3 .. m : j \in 1 .. m /\ j # 1 /\ j # 2
  BY <1>1
<1>3. \A j \in 1 .. m : pool[j] \in 1 .. Buffers
  BY <1>1, ElementOfSeq DEF PoolInv
<1>4. Buffers \in Nat /\ 1 .. Buffers \subseteq Nat
  BY ParamsAssumption
<1>5. \A i, j \in 1 .. m : pool[i] = pool[j] => i = j
  BY <1>1 DEF PoolInv
<1>6. \A j \in 1 .. m : pool[j] \notin kept
  BY <1>1 DEF PoolInv
<1>7. Cmd \in 1 .. Buffers /\ Err \in 1 .. Buffers
  BY <1>2, <1>3 DEF Cmd, Err
<1>8. Cmd # Err
  <2>1. pool[1] # pool[2]
    BY <1>2, <1>5
  <2> QED BY <2>1 DEF Cmd, Err
<1>9. \A j \in 3 .. m : pool[j] # Cmd /\ pool[j] # Err /\ pool[j] \notin kept
  BY <1>2, <1>5, <1>6 DEF Cmd, Err
<1>10. Cmd \notin kept /\ Err \notin kept
  BY <1>2, <1>6 DEF Cmd, Err
<1> QED BY <1>1, <1>4, <1>7, <1>8, <1>9, <1>10

(* Both buffers are given back, in either order.                           *)
LEMMA BothBack ==
  ASSUME PoolInv, Len(pool) >= 2, GivenBack \/ GivenBackByMain, UNCHANGED kept
  PROVE  PoolInv'
<1>1. PICK t : t \in {<<Cmd, Err>>, <<Err, Cmd>>} /\ pool' = SubSeq(pool, 3, Len(pool)) \o t
  BY Zenon DEF GivenBack, GivenBackByMain
<1>2. /\ t \in Seq(1 .. Buffers) /\ Len(t) = 2
      /\ t[1] # t[2] /\ t[1] \in {Cmd, Err} /\ t[2] \in {Cmd, Err}
  <2>1. CASE t = <<Cmd, Err>>
    BY <2>1, CmdErr
  <2>2. CASE t = <<Err, Cmd>>
    BY <2>2, CmdErr
  <2> QED BY <1>1, <2>1, <2>2
<1>3. \A i \in 1 .. 2 : i = 1 \/ i = 2
  OBVIOUS
<1>4. NoneTwice(t, 2)
  <2>1. ASSUME NEW i \in 1 .. 2, NEW j \in 1 .. 2, t[i] = t[j] PROVE i = j
    BY <1>2, <1>3, <2>1
  <2> QED BY <2>1 DEF NoneTwice
<1>5. NoneIn(t, 2, kept) /\ \A i \in 1 .. 2 : \A j \in 3 .. Len(pool) : t[i] # pool[j]
  <2>1. \A i \in 1 .. 2 : t[i] \in {Cmd, Err}
    BY <1>2, <1>3
  <2> QED BY <2>1, CmdErr, Zenon DEF NoneIn
<1>6. 2 + Cardinality(kept) = Cardinality(kept) + 2
  BY KeptFinite
<1>7. pool' = SubSeq(pool, 3, Len(pool)) \o t /\ kept' = kept
  BY <1>1
<1>8. kept \in SUBSET (1 .. Buffers) /\ \A j \in 3 .. Len(pool) : pool[j] \notin kept
  BY CmdErr DEF PoolInv
<1> QED BY <1>2, <1>4, <1>5, <1>6, <1>7, <1>8, PoolJoin

(* A snapshot keeps the buffer of the command.                             *)
LEMMA OneKept ==
  ASSUME PoolInv, Len(pool) >= 2, kept' = kept \cup {Cmd},
         pool' = SubSeq(pool, 3, Len(pool)) \o <<Err>>
  PROVE  PoolInv'
<1>1. PICK t : t = <<Err>>
  OBVIOUS
<1>2. t \in Seq(1 .. Buffers) /\ Len(t) = 1 /\ t[1] = Err
  BY <1>1, CmdErr
<1>3. \A i \in 1 .. 1 : i = 1
  OBVIOUS
<1>k. PICK K : K = kept \cup {Cmd}
  OBVIOUS
<1>4. NoneTwice(t, 1)
  BY <1>3, Zenon DEF NoneTwice
<1>5. NoneIn(t, 1, K) /\ \A i \in 1 .. 1 : \A j \in 3 .. Len(pool) : t[i] # pool[j]
  BY <1>2, <1>3, <1>k, CmdErr, Zenon DEF NoneIn
<1>6. 1 + Cardinality(K) = Cardinality(kept) + 2
  <2>1. Cardinality(K) = Cardinality(kept) + 1
    BY <1>k, KeptFinite, CmdErr, FS_AddElement
  <2> QED BY <2>1, KeptFinite
<1>7. pool' = SubSeq(pool, 3, Len(pool)) \o t /\ kept' = K
  BY <1>1, <1>k
<1>8. K \in SUBSET (1 .. Buffers) /\ \A j \in 3 .. Len(pool) : pool[j] \notin K
  BY <1>k, CmdErr DEF PoolInv
<1> QED BY <1>2, <1>4, <1>5, <1>6, <1>7, <1>8, PoolJoin

(* The buffer of a snapshot is given back too.                             *)
LEMMA OneBack ==
  ASSUME PoolInv, Len(pool) >= 2, NEW b \in kept, kept' = kept \ {b},
         pool' = SubSeq(pool, 3, Len(pool)) \o <<b, Cmd, Err>>
  PROVE  PoolInv'
<1>0. b \in 1 .. Buffers /\ b # Cmd /\ b # Err /\ \A j \in 3 .. Len(pool) : pool[j] # b
  <2>1. b \in 1 .. Buffers
    BY DEF PoolInv
  <2>2. \A j \in 3 .. Len(pool) : pool[j] # b
    BY CmdErr, Zenon
  <2> QED BY <2>1, <2>2, CmdErr, Zenon
<1>1. PICK t : t = <<b, Cmd, Err>>
  OBVIOUS
<1>2. t \in Seq(1 .. Buffers) /\ Len(t) = 3 /\ t[1] = b /\ t[2] = Cmd /\ t[3] = Err
  BY <1>0, <1>1, CmdErr
<1>3. \A i \in 1 .. 3 : i = 1 \/ i = 2 \/ i = 3
  OBVIOUS
<1>k. PICK K : K = kept \ {b}
  OBVIOUS
<1>4. NoneTwice(t, 3)
  BY <1>0, <1>2, <1>3, CmdErr, Zenon DEF NoneTwice
<1>5. NoneIn(t, 3, K) /\ \A i \in 1 .. 3 : \A j \in 3 .. Len(pool) : t[i] # pool[j]
  BY <1>0, <1>2, <1>3, <1>k, CmdErr, Zenon DEF NoneIn
<1>6. 3 + Cardinality(K) = Cardinality(kept) + 2
  <2>1. Cardinality(K) = Cardinality(kept) - 1
    BY <1>k, KeptFinite, FS_RemoveElement
  <2> QED BY <2>1, KeptFinite
<1>7. pool' = SubSeq(pool, 3, Len(pool)) \o t /\ kept' = K
  BY <1>1, <1>k
<1>8. K \in SUBSET (1 .. Buffers) /\ \A j \in 3 .. Len(pool) : pool[j] \notin K
  BY <1>k, CmdErr DEF PoolInv
<1> QED BY <1>2, <1>4, <1>5, <1>6, <1>7, <1>8, PoolJoin
(* What a list sets, and what became of the texts on the way: s1 is the    *)
(* table when the command has arrived, s2 when it has been answered.       *)
LEMMA ParamText ==
  ASSUME TInv, NEW b \in Nat, NEW e \in Nat, NEW s1 \in Overwritten(str, b),
         NEW r, AccIs(s1, r), NEW s2 \in Overwritten(r.str, e),
         NEW p \in CmdSource, str[p].at # "null", p \notin moved => str[p].t.v = given[p]
  PROVE  /\ r.str[p].at # "null" /\ s2[p].at # "null"
         /\ p \notin ((moved \cup Disturbed(str, s1)) \ r.set) \cup Disturbed(r.str, s2) =>
              r.str[p].t.v = r.given[p] /\ s2[p].t.v = r.given[p]
<1>1. str \in Table /\ p \in Name
  BY UnsetIs DEF TInv
<1>2. s1 \in Table /\ s1[p].at # "null" /\ (p \notin Disturbed(str, s1) => s1[p].t = str[p].t)
  BY <1>1, OverwrittenIs
<1>3. r.str \in Table
  BY DEF AccIs, Accs
<1>4. /\ p \in r.set => r.str[p].at = "buffer" /\ r.str[p].t.v = r.given[p]
      /\ p \notin r.set => r.str[p] = s1[p] /\ r.given[p] = given[p]
  BY <1>1, Zenon DEF AccIs
<1>5. r.str[p].at # "null"
  BY <1>2, <1>4
<1>6. s2[p].at # "null" /\ (p \notin Disturbed(r.str, s2) => s2[p].t = r.str[p].t)
  BY <1>1, <1>3, <1>5, OverwrittenIs
<1>7. ASSUME p \notin ((moved \cup Disturbed(str, s1)) \ r.set) \cup Disturbed(r.str, s2)
      PROVE  r.str[p].t.v = r.given[p] /\ s2[p].t.v = r.given[p]
  <2>1. p \notin Disturbed(r.str, s2)
    BY <1>7
  <2>2. r.str[p].t.v = r.given[p]
    <3>1. CASE p \in r.set
      BY <1>4, <3>1
    <3>2. CASE p \notin r.set
      <4>1. p \notin moved /\ p \notin Disturbed(str, s1)
        BY <1>7, <3>2
      <4> QED BY <1>2, <1>4, <3>2, <4>1
    <3> QED BY <3>1, <3>2
  <2> QED BY <1>6, <2>1, <2>2
<1> QED BY <1>5, <1>6, <1>7

(* Commands carry on from a daemon that runs.                              *)
LEMMA CommandStep ==
  ASSUME IInv, CanCommand, TInv', PoolInv', TextInv', SetAsGiven',
         stage' \in {"run", "crash"}
  PROVE  IInv'
<1>1. n' = n + 1 /\ n \in Nat
  BY ParamsAssumption DEF CanCommand, IInv, TInv
<1>2. n' # 0
  BY <1>1
<1>3. StageInv'
  BY DEF StageInv, Startup
<1>4. StartsAsTold'
  BY <1>2 DEF StartsAsTold
<1> QED BY <1>3, <1>4 DEF IInv

(* Param.                                                                  *)
LEMMA SParam ==
  ASSUME IInv, Param
  PROVE  IInv'
<1>1. /\ TInv /\ PoolInv /\ CanCommand /\ Len(pool) >= 2 /\ stage = "run" /\ n < MaxCommands
      /\ n' = n + 1 /\ GivenBack
      /\ env' = env /\ args' = args /\ kept' = kept
  BY DEF IInv, Param, CanCommand, startVars
<1>2. Cmd \in Nat /\ Err \in Nat
  BY <1>1, CmdErr
<1>3. PICK list \in Lists : \E s1 \in Overwritten(str, Cmd) :
       LET r == SetFromString(s1, list)
           ok == r.err \in {"none", "invalid"}
           a == IF ok THEN Assigned(r.str, CmdSource) ELSE [val |-> val, ok |-> FALSE]
       IN \E s2 \in Overwritten(r.str, Err) :
            /\ str' = s2 /\ heap' = r.heap /\ setby' = r.setby /\ dyn' = r.dyn
            /\ val' = IF r.bad THEN val ELSE a.val
            /\ stage' = IF r.bad THEN "crash" ELSE "run"
            /\ given' = r.given
            /\ moved' = ((moved \cup Disturbed(str, s1)) \ r.set) \cup Disturbed(r.str, s2)
            /\ last' = [kind |-> "Param", ok |-> a.ok /\ ~r.bad, set |-> r.set]
  BY Zenon DEF Param
<1>4. PICK s1 \in Overwritten(str, Cmd) :
       LET r == SetFromString(s1, list)
           ok == r.err \in {"none", "invalid"}
           a == IF ok THEN Assigned(r.str, CmdSource) ELSE [val |-> val, ok |-> FALSE]
       IN \E s2 \in Overwritten(r.str, Err) :
            /\ str' = s2 /\ heap' = r.heap /\ setby' = r.setby /\ dyn' = r.dyn
            /\ val' = IF r.bad THEN val ELSE a.val
            /\ stage' = IF r.bad THEN "crash" ELSE "run"
            /\ given' = r.given
            /\ moved' = ((moved \cup Disturbed(str, s1)) \ r.set) \cup Disturbed(r.str, s2)
            /\ last' = [kind |-> "Param", ok |-> a.ok /\ ~r.bad, set |-> r.set]
  BY <1>3, Zenon
<1>5. PICK r : r = SetFromString(s1, list)
  OBVIOUS
<1>6. PICK a : a = IF r.err \in {"none", "invalid"} THEN Assigned(r.str, CmdSource)
                   ELSE [val |-> val, ok |-> FALSE]
  OBVIOUS
<1>8. PICK s2 \in Overwritten(r.str, Err) :
            /\ str' = s2 /\ heap' = r.heap /\ setby' = r.setby /\ dyn' = r.dyn
            /\ val' = IF r.bad THEN val ELSE a.val
            /\ stage' = IF r.bad THEN "crash" ELSE "run"
            /\ given' = r.given
            /\ moved' = ((moved \cup Disturbed(str, s1)) \ r.set) \cup Disturbed(r.str, s2)
            /\ last' = [kind |-> "Param", ok |-> a.ok /\ ~r.bad, set |-> r.set]
  BY <1>4, <1>5, <1>6, Zenon
<1>9. s1 \in Table
  BY <1>1, <1>2, OverwrittenIs DEF TInv
<1>10. AccIs(s1, r)
  BY <1>1, <1>2, <1>5, <1>9, SetFromStringIs
<1>11. r \in Accs
  BY <1>10, Zenon DEF AccIs
<1>12. /\ r.str \in Table /\ r.dyn \in [Name -> BOOLEAN] /\ r.heap \in SUBSET Name
       /\ r.setby \in [Name -> SUBSET {"env", "arg", "cmd"}] /\ r.given \in Values
       /\ r.set \in SUBSET CmdSource /\ r.bad \in BOOLEAN
  BY <1>11 DEF Accs
<1>13. val \in Values /\ CmdSource \in SUBSET Name
  BY <1>1, UnsetIs DEF TInv
<1>14. /\ a.val \in Values
       /\ a.ok => \A p \in Name : AsText(r.str, CmdSource, a, p)
  <2>1. CASE r.err \in {"none", "invalid"}
    <3>1. a = Assigned(r.str, CmdSource)
      BY <1>6, <2>1
    <3>2. r.str \in [Name -> StrRec]
      BY <1>12 DEF Table
    <3>3. a \in [val : Values, ok : BOOLEAN] /\ (a.ok => \A p \in Name : AsText(r.str, CmdSource, a, p))
      BY <1>13, <3>1, <3>2, AssignedFacts
    <3> QED BY <3>3
  <2>2. CASE ~(r.err \in {"none", "invalid"})
    <3>1. a = [val |-> val, ok |-> FALSE]
      BY <1>6, <2>2
    <3> QED BY <1>13, <3>1
  <2> QED BY <2>1, <2>2
<1>15. s2 \in Table /\ Disturbed(r.str, s2) \subseteq Name
  BY <1>2, <1>12, OverwrittenIs
<1>16. Disturbed(str, s1) \subseteq Name /\ moved \subseteq Name
  BY DEF Disturbed, IInv, TInv
<1>17. moved' \subseteq Name
  BY <1>8, <1>15, <1>16
<1>18. n' \in 0 .. MaxCommands
  BY <1>1, ParamsAssumption DEF TInv
<1>19. stage' \in {"run", "crash"} /\ (stage' = "run" <=> ~r.bad)
  BY <1>8, <1>12
<1>20. val' \in Values
  BY <1>8, <1>13, <1>14
<1>21. TInv'
  <2>1. /\ str' \in Table /\ dyn' \in [Name -> BOOLEAN] /\ heap' \subseteq Name
        /\ setby' \in [Name -> SUBSET {"env", "arg", "cmd"}] /\ given' \in Values
    BY <1>8, <1>12, <1>15
  <2> QED BY <1>1, <1>17, <1>18, <1>19, <1>20, <2>1 DEF TInv
<1>22. PoolInv'
  BY <1>1, BothBack
<1>23. \A p \in CmdSource : str[p].at # "null" /\ (p \notin moved => str[p].t.v = given[p])
  BY <1>1 DEF IInv, TextInv
<1>24. \A p \in CmdSource :
         /\ r.str[p].at # "null" /\ s2[p].at # "null"
         /\ p \notin moved' => r.str[p].t.v = r.given[p] /\ s2[p].t.v = r.given[p]
  <2>1. moved' = ((moved \cup Disturbed(str, s1)) \ r.set) \cup Disturbed(r.str, s2)
    BY <1>8, Zenon
  <2>2. ASSUME NEW p \in CmdSource
        PROVE  /\ r.str[p].at # "null" /\ s2[p].at # "null"
               /\ p \notin moved' => r.str[p].t.v = r.given[p] /\ s2[p].t.v = r.given[p]
    <3>1. TInv /\ str[p].at # "null" /\ (p \notin moved => str[p].t.v = given[p])
      BY <1>1, <1>23
    <3>2. s1 \in Overwritten(str, Cmd) /\ s2 \in Overwritten(r.str, Err)
      OBVIOUS
    <3> QED BY <1>2, <1>10, <2>1, <3>1, <3>2, ParamText
  <2> QED BY <2>2, Zenon
<1>25. TextInv'
  BY <1>8, <1>24, Zenon DEF TextInv
<1>26. SetAsGiven'
  <2> SUFFICES ASSUME last'.ok, NEW p \in CmdSource
               PROVE  val'[p] # Spilt /\ (p \notin moved' => val'[p] = given'[p])
    BY DEF SetAsGiven
  <2>1. a.ok /\ ~r.bad
    <3>1. last'.ok = (a.ok /\ ~r.bad)
      BY <1>8
    <3> QED BY <3>1
  <2>2. val'[p] = r.str[p].t.v
    <3>1. p \in Name
      BY <1>13
    <3>2. AsText(r.str, CmdSource, a, p)
      BY <1>14, <2>1, <3>1
    <3>3. a.val[p] = r.str[p].t.v
      BY <1>24, <3>2 DEF AsText
    <3> QED BY <1>8, <2>1, <3>3
  <2>3. r.str[p].t.v # Spilt
    BY <1>12, <1>13, TextIs DEF Table
  <2> QED BY <1>8, <1>24, <2>2, <2>3
<1> QED BY <1>1, <1>19, <1>21, <1>22, <1>25, <1>26, CommandStep
(* A command and its answer are written over texts of the table.           *)
LEMMA WrittenIs ==
  ASSUME TInv, TextInv, stage = "run", Cmd \in Nat, Err \in Nat, WrittenOver, given' = given
  PROVE  /\ str' \in Table /\ moved' \subseteq Name
         /\ \A p \in CmdSource : str'[p].at # "null" /\ (p \notin moved' => str'[p].t.v = given'[p])
<1>1. PICK s1 \in Overwritten(str, Cmd) : \E s2 \in Overwritten(s1, Err) :
        str' = s2 /\ moved' = moved \cup Disturbed(str, s2)
  BY DEF WrittenOver
<1>2. PICK s2 \in Overwritten(s1, Err) : str' = s2 /\ moved' = moved \cup Disturbed(str, s2)
  BY <1>1
<1>3. str \in Table
  BY DEF TInv
<1>4. /\ s1 \in Table
      /\ \A p \in Name : (str[p].at # "null" => s1[p].at # "null")
                         /\ (str[p].at # "buffer" => s1[p] = str[p])
  BY <1>3, OverwrittenIs
<1>5. /\ s2 \in Table
      /\ \A p \in Name : (s1[p].at # "null" => s2[p].at # "null")
                         /\ (s1[p].at # "buffer" => s2[p] = s1[p])
  BY <1>4, OverwrittenIs
<1>6. Disturbed(str, s2) \subseteq Name /\ moved \subseteq Name
  BY DEF Disturbed, TInv
<1>7. ASSUME NEW p \in CmdSource
      PROVE  s2[p].at # "null" /\ (p \notin moved' => s2[p].t.v = given'[p])
  <2>1. p \in Name /\ str[p].at # "null" /\ (p \notin moved => str[p].t.v = given[p])
    BY UnsetIs DEF TextInv
  <2>2. s2[p].at # "null"
    BY <1>4, <1>5, <2>1
  <2>3. ASSUME p \notin moved' PROVE s2[p].t.v = given'[p]
    <3>1. p \notin moved /\ p \notin Disturbed(str, s2)
      BY <1>2, <2>3
    <3>2. s2[p].t = str[p].t
      <4>1. CASE str[p].at = "buffer"
        BY <2>1, <3>1, <4>1 DEF Disturbed
      <4>2. CASE str[p].at # "buffer"
        BY <1>4, <1>5, <2>1, <4>2
      <4> QED BY <4>1, <4>2
    <3> QED BY <2>1, <3>1, <3>2
  <2> QED BY <2>2, <2>3
<1> QED BY <1>2, <1>5, <1>6, <1>7

(* The types after such a command.                                         *)
LEMMA WrittenStep ==
  ASSUME IInv, CanCommand, WrittenOver, PoolInv', last'.kind # "Param",
         UNCHANGED <<stage, startVars, dyn, setby, heap, val, given>>
  PROVE  IInv'
<1>1. /\ TInv /\ PoolInv /\ TextInv /\ stage = "run" /\ Len(pool) >= 2 /\ n < MaxCommands /\ n' = n + 1
      /\ stage' = stage /\ env' = env /\ args' = args /\ dyn' = dyn /\ setby' = setby
      /\ heap' = heap /\ val' = val /\ given' = given
  BY DEF IInv, CanCommand, startVars
<1>2. Cmd \in Nat /\ Err \in Nat
  BY <1>1, CmdErr
<1>3. /\ str' \in Table /\ moved' \subseteq Name
      /\ \A p \in CmdSource : str'[p].at # "null" /\ (p \notin moved' => str'[p].t.v = given'[p])
  BY <1>1, <1>2, WrittenIs
<1>4. n' \in 0 .. MaxCommands
  BY <1>1, ParamsAssumption DEF TInv
<1>5. TInv'
  BY <1>1, <1>3, <1>4 DEF TInv
<1>6. TextInv'
  BY <1>3, Zenon DEF TextInv
<1>7. SetAsGiven'
  BY DEF SetAsGiven
<1> QED BY <1>1, <1>5, <1>6, <1>7, CommandStep

(* Other commands.                                                         *)
LEMMA SOther ==
  ASSUME IInv, Other
  PROVE  IInv'
<1>1. CanCommand /\ WrittenOver /\ (GivenBack \/ GivenBackByMain) /\ kept' = kept
      /\ UNCHANGED <<stage, startVars, dyn, setby, heap, val, given>>
  BY DEF Other
<1>2. PoolInv /\ Len(pool) >= 2
  BY <1>1 DEF IInv, CanCommand
<1>3. PoolInv'
  BY <1>1, <1>2, BothBack
<1>4. last'.kind = "other"
  BY DEF Other, NoCommandYet
<1> QED BY <1>1, <1>3, <1>4, WrittenStep

(* Requests of the WRITER.                                                 *)
LEMMA SRequest ==
  ASSUME IInv, Request
  PROVE  IInv'
<1>1. CanCommand /\ WrittenOver
      /\ UNCHANGED <<stage, startVars, dyn, setby, heap, val, given>>
  BY DEF Request
<1>2. PoolInv /\ Len(pool) >= 2
  BY <1>1 DEF IInv, CanCommand
<1>3. PoolInv'
  <2>1. CASE GivenBack /\ UNCHANGED kept
    BY <1>2, <2>1, BothBack
  <2>2. CASE kept' = kept \cup {Cmd} /\ pool' = SubSeq(pool, 3, Len(pool)) \o <<Err>>
    BY <1>2, <2>2, OneKept
  <2>3. CASE \E b \in kept : /\ kept' = kept \ {b}
                             /\ pool' = SubSeq(pool, 3, Len(pool)) \o <<b, Cmd, Err>>
    BY <1>2, <2>3, OneBack
  <2> QED BY <2>1, <2>2, <2>3 DEF Request
<1>4. last'.kind = "request"
  BY DEF Request, NoCommandYet
<1> QED BY <1>1, <1>3, <1>4, WrittenStep
-----------------------------------------------------------------------------
(***************************************************************************)
(* The theorems.                                                           *)
(***************************************************************************)
(* No action breaks the invariant.                                         *)
LEMMA INext == IInv /\ [Next]_vars => IInv'
<1> SUFFICES ASSUME IInv, [Next]_vars PROVE IInv'
  OBVIOUS
<1>1. CASE SetFromEnv
  BY <1>1, SSetFromEnv
<1>2. CASE AssignAll
  BY <1>2, SAssignAll
<1>3. CASE ParseArgs
  BY <1>3, SParseArgs
<1>4. CASE ResultsBack
  BY <1>4, SResultsBack
<1>5. CASE FindIds
  BY <1>5, SFindIds
<1>6. CASE SetPriorities
  BY <1>6, SSetPriorities
<1>7. CASE VerifyWriter
  BY <1>7, SVerify
<1>8. CASE VerifyReader
  BY <1>8, SVerify
<1>9. CASE Param
  BY <1>9, SParam
<1>10. CASE Other
  BY <1>10, SOther
<1>11. CASE Request
  BY <1>11, SRequest
<1>12. CASE UNCHANGED vars
  <2>1. UNCHANGED <<stage, env, args, str, dyn, setby, heap, val, pool, kept, n, given, moved, last>>
    BY <1>12 DEF vars, startVars, tableVars, poolVars, ghostVars
  <2>2. TInv' /\ PoolInv'
    BY <2>1 DEF IInv, TInv, PoolInv
  <2>3. StageInv'
    <3>1. \A p : EnvStr(p)' = EnvStr(p) /\ EnvVal(p)' = EnvVal(p) /\ ToldOrCommon(p)' = ToldOrCommon(p)
                 /\ Told(p)' = Told(p)
      BY <2>1 DEF EnvStr, EnvVal, ToldOrCommon, Told, InEnv, FromEnv
    <3> QED BY <2>1, <3>1 DEF IInv, StageInv
  <2>4. TextInv' /\ SetAsGiven'
    BY <2>1 DEF IInv, TextInv, SetAsGiven
  <2>5. StartsAsTold'
    <3>1. \A p : ToldOrCommon(p)' = ToldOrCommon(p)
      BY <2>1 DEF ToldOrCommon, Told, InEnv, FromEnv
    <3> QED BY <2>1, <3>1 DEF IInv, StartsAsTold
  <2> QED BY <2>2, <2>3, <2>4, <2>5 DEF IInv
<1> QED BY <1>1, <1>2, <1>3, <1>4, <1>5, <1>6, <1>7, <1>8, <1>9, <1>10, <1>11, <1>12 DEF Next

(* The invariant holds throughout.                                         *)
THEOREM Invariance == Spec => []IInv
<1> QED BY IInit, INext, PTL DEF Spec

(* The daemon starts with what it was told, whatever the environment and   *)
(* the command line are: AssignAll and ResultsBack leave each variable with *)
(* the last word said of it, and in the order of the table no long that is *)
(* scanned into an int spills into what has its value already.             *)
THEOREM StartsWithWhatItWasTold == Spec => []StartsAsTold
<1>1. IInv => StartsAsTold
  BY DEF IInv
<1> QED BY <1>1, Invariance, PTL

(* After a Param that was accepted, each parameter of commands has the     *)
(* value last given for it unless its text was lost, and no half of        *)
(* another's, whichever list it was given.                                 *)
THEOREM ParamSetsWhatWasGiven == Spec => []SetAsGiven
<1>1. IInv => SetAsGiven
  BY DEF IInv
<1> QED BY <1>1, Invariance, PTL

(* Types; and no string buffer is lost or twice in the pool.               *)
THEOREM TypeCorrect == Spec => []TypeOK
<1>1. IInv => TypeOK
  <2> SUFFICES ASSUME IInv PROVE TypeOK
    OBVIOUS
  <2>1. TInv /\ PoolInv
    BY DEF IInv
  <2>2. \A p \in Name : str[p].at \in {"null", "fixed", "buffer", "heap"} /\ val[p] \in Int
    BY <2>1 DEF TInv, Table, StrRec, Values
  <2>3. IsInjective(pool)
    <3>1. DOMAIN pool = 1 .. Len(pool)
      BY <2>1, LenProperties DEF PoolInv
    <3> QED BY <2>1, <3>1 DEF PoolInv, IsInjective
  <2>4. stage \in {"env", "assign", "parse", "back", "ids", "prio", "writer", "reader",
                   "run", "exit", "abort", "crash"}
    BY <2>1 DEF TInv, Startup
  <2> QED BY <2>1, <2>2, <2>3, <2>4 DEF TInv, PoolInv, TypeOK
<1> QED BY <1>1, Invariance, PTL
=============================================================================
