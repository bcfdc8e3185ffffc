----------------------------- MODULE OptionsProofs -----------------------------
(***************************************************************************)
(* Proofs about Options: what the two loops over a line leave behind,      *)
(* whatever its length, and from that the six invariants.                  *)
(*                                                                         *)
(* A loop is Scan, a recursive function over the line; its cells are       *)
(* related one by one, and facts about all of them are proved by           *)
(* SetInduction.                                                           *)
(***************************************************************************)
EXTENDS Options, TLAPS, WellFoundedInduction

Words == Word \cup {""}

(* Induction over a set of numbers, from the minimum of its complement.    *)
LEMMA SetInduction ==
  ASSUME NEW S, 0 \in S, \A n \in S \cap Nat : n + 1 \in S
  PROVE  Nat \subseteq S
<1> SUFFICES ASSUME Nat \ S # {} PROVE FALSE
  OBVIOUS
<1>1. PICK x \in Nat \ S : \A y \in Nat \ S : ~ (<<y, x>> \in OpToRel(<, Nat))
  BY NatLessThanWellFounded, WFMin
<1>2. x # 0 /\ x - 1 \in Nat
  OBVIOUS
<1>3. <<x - 1, x>> \in OpToRel(<, Nat)
  BY <1>2 DEF OpToRel
<1>4. x - 1 \in S
  BY <1>1, <1>2, <1>3
<1>5. (x - 1) + 1 \in S
  BY <1>2, <1>4
<1> QED
  BY <1>5

(* Every set of numbers has a least one.                                   *)
LEMMA Least ==
  ASSUME NEW S \in SUBSET Nat, S # {}
  PROVE  \E x \in S : \A y \in S : x <= y
<1>1. PICK x \in S : \A y \in S : ~ (<<y, x>> \in OpToRel(<, Nat))
  BY NatLessThanWellFounded, WFMin
<1>2. ASSUME NEW y \in S PROVE x <= y
  <2> SUFFICES ASSUME y < x PROVE FALSE
    OBVIOUS
  <2>1. <<y, x>> \in OpToRel(<, Nat)
    BY DEF OpToRel
  <2> QED
    BY <1>1, <2>1
<1> QED
  BY <1>2

(* The same, up to a bound.                                                *)
LEMMA UpTo ==
  ASSUME NEW k \in Nat, NEW T, 0 \in T, \A i \in 0 .. k - 1 : i \in T => i + 1 \in T
  PROVE  0 .. k \subseteq T
<1> DEFINE S == {i \in Nat : i <= k => i \in T}
<1>1. 0 \in S
  OBVIOUS
<1>2. \A n \in S \cap Nat : n + 1 \in S
  OBVIOUS
<1>3. Nat \subseteq S
  <2> HIDE DEF S
  <2> QED BY <1>1, <1>2, SetInduction
<1> QED
  BY <1>3

-----------------------------------------------------------------------------
(* The first loop: its cells and their type.                               *)

SelectScan ==
  [path : Words, explicit : BOOLEAN, seen : BOOLEAN, expects : BOOLEAN,
   over : BOOLEAN, error : {"", "twice"}]

(* One step, field by field.                                               *)
LEMMA SelectTable ==
  ASSUME NEW scan \in SelectScan, NEW word \in Words
  PROVE  /\ Select(scan, word) \in SelectScan
         /\ scan.over => Select(scan, word) = scan
         /\ ~scan.over =>
              /\ Select(scan, word).over <=> (~scan.expects /\ word = "--")
              /\ Select(scan, word).expects <=> (~scan.expects /\ word = "--config")
              /\ Select(scan, word).path = IF scan.expects THEN word ELSE scan.path
              /\ Select(scan, word).explicit <=>
                   (scan.explicit \/ (~scan.expects /\ word = "--config"))
         /\ word = "--" /\ ~scan.expects => 
              Select(scan, word).error = scan.error
  BY DEF Select, SelectScan

(* What the first loop starts with.                                        *)
LEMMA SelectStarts ==
  ASSUME env \in Environments
  PROVE  /\ SelectStart \in SelectScan
         /\ ~SelectStart.over /\ ~SelectStart.expects /\ SelectStart.path = env.config
         /\ SelectStart.explicit <=> env.config # ""
<1>1. SelectStart \in SelectScan
  BY EnvironmentAssumption DEF SelectStart, SelectScan, Words
<1>2. ~SelectStart.over /\ ~SelectStart.expects /\ SelectStart.path = env.config
  BY DEF SelectStart
<1>3. SelectStart.explicit <=> env.config # ""
  BY DEF SelectStart
<1> QED
  BY <1>1, <1>2, <1>3

SelectRun(at, args) ==
  /\ at[0] = SelectStart
  /\ \A i \in 1 .. Len(args) : at[i] = Select(at[i - 1], args[i])

SelectIs(at, args, n) ==
  at = [i \in 0 .. n |-> IF i = 0 THEN SelectStart ELSE Select(at[i - 1], args[i])]

(* The loop has cells.                                                     *)
LEMMA SelectRuns ==
  ASSUME NEW args \in Seq(Words)
  PROVE  \E at : SelectRun(at, args) /\ SelectedConfig(args) = Selected(at[Len(args)])
<1> DEFINE S == {n \in Nat : \E at : SelectIs(at, args, n)}
<1>1. 0 \in S
  <2> DEFINE g == [i \in 0 .. 0 |-> SelectStart]
  <2>1. SelectIs(g, args, 0)
    BY DEF SelectIs
  <2> QED
    BY <2>1
<1>2. ASSUME NEW n \in S
      PROVE  n + 1 \in S
  <2>1. PICK at : SelectIs(at, args, n)
    OBVIOUS
  <2> DEFINE g == [i \in 0 .. n + 1 |-> IF i = n + 1 THEN Select(at[n], args[n + 1]) ELSE at[i]]
  <2>2. ASSUME NEW i \in 0 .. n + 1
        PROVE  g[i] = IF i = 0 THEN SelectStart ELSE Select(g[i - 1], args[i])
    <3>1. at = [j \in 0 .. n |-> IF j = 0 THEN SelectStart ELSE Select(at[j - 1], args[j])]
      BY <2>1 DEF SelectIs
    <3>2. CASE i = n + 1
      BY <3>2
    <3>3. CASE i # n + 1
      <4>1. at[i] = IF i = 0 THEN SelectStart ELSE Select(at[i - 1], args[i])
        <5>1. i \in 0 .. n
          BY <3>3
        <5> QED
          BY <3>1, <5>1, Zenon
      <4>2. g[i] = at[i] /\ (i # 0 => g[i - 1] = at[i - 1])
        BY <3>3
      <4> QED
        BY <4>1, <4>2
    <3> QED
      BY <3>2, <3>3
  <2>3. SelectIs(g, args, n + 1)
    <3> DEFINE h == [i \in 0 .. n + 1 |-> IF i = 0 THEN SelectStart ELSE Select(g[i - 1], args[i])]
    <3>1. g = h
      <4>1. \A i \in 0 .. n + 1 : g[i] = h[i]
        <5> HIDE DEF g
        <5> QED BY <2>2
      <4> QED
        BY <4>1
    <3> QED
      BY <3>1, Zenon DEF SelectIs
  <2> QED
    BY <2>3
<1>3. Len(args) \in S
  <2> HIDE DEF S
  <2> QED BY <1>1, <1>2, SetInduction
<1>4. PICK g : SelectIs(g, args, Len(args))
  BY <1>3
<1> DEFINE at[i \in 0 .. Len(args)] == IF i = 0 THEN SelectStart ELSE Select(at[i - 1], args[i])
<1>5. SelectIs(at, args, Len(args))
  BY <1>4, Zenon DEF SelectIs
<1>6. SelectedConfig(args) = Selected(at[Len(args)])
  BY Zenon DEF Scan, SelectedConfig
<1>7. SelectRun(at, args)
  <2> HIDE DEF at
  <2>1. at = [i \in 0 .. Len(args) |-> IF i = 0 THEN SelectStart ELSE Select(at[i - 1], args[i])]
    BY <1>5 DEF SelectIs
  <2>2. at[0] = SelectStart
    BY <2>1
  <2>3. ASSUME NEW i \in 1 .. Len(args)
        PROVE  at[i] = Select(at[i - 1], args[i])
    <3>1. i \in 0 .. Len(args) /\ i # 0
      OBVIOUS
    <3> QED
      BY <2>1, <3>1, Zenon
  <2> QED
    BY <2>2, <2>3 DEF SelectRun
<1> QED
  BY <1>6, <1>7

(* Its cells are of its type.                                              *)
LEMMA SelectTyped ==
  ASSUME env \in Environments, NEW args \in Seq(Words), NEW at, SelectRun(at, args)
  PROVE  \A i \in 0 .. Len(args) : at[i] \in SelectScan
<1> DEFINE S == {i \in 0 .. Len(args) : at[i] \in SelectScan}
<1>1. 0 \in S
  <2>1. at[0] \in SelectScan
    BY SelectStarts, Zenon DEF SelectRun
  <2> QED
    BY <2>1
<1>2. ASSUME NEW i \in 0 .. Len(args) - 1, at[i] \in SelectScan
      PROVE  at[i + 1] \in SelectScan
  <2>1. i + 1 \in 1 .. Len(args) /\ (i + 1) - 1 = i
    OBVIOUS
  <2>2. at[i + 1] = Select(at[i], args[i + 1])
    BY <2>1 DEF SelectRun
  <2> QED
    BY <1>2, <2>1, <2>2, SelectTable
<1>3. \A i \in 0 .. Len(args) - 1 : i \in S => i + 1 \in S
  BY <1>2
<1> QED
  <2>1. 0 .. Len(args) \subseteq S
    <3>1. 0 \in S /\ \A i \in 0 .. Len(args) - 1 : i \in S => i + 1 \in S
      BY <1>1, <1>3
    <3>2. Len(args) \in Nat
      OBVIOUS
    <3> HIDE DEF S
    <3> QED BY <3>1, <3>2, UpTo
  <2> QED
    BY <2>1

-----------------------------------------------------------------------------
(* The line up to "--".                                                    *)

Valued == Dashed \ {"--all", "--json", "--no-config", "--bad"}

(* k words are nvault's own.                                               *)
OwnEnd(args, k) ==
  /\ k \in 0 .. Len(args)
  /\ \A i \in 1 .. k : args[i] # "--"
  /\ k < Len(args) => args[k + 1] = "--"

(* Every flag has a value, which does not look like an option.             *)
Fed(args, k) ==
  \A i \in 1 .. k : args[i] \in Valued => i < k /\ Plain(args[i + 1])

OwnPart(args, k) ==
  /\ OwnEnd(args, k)
  /\ Own(args) = SubSeq(args, 1, k) /\ Len(Own(args)) = k
  /\ Own(args) # args => k < Len(args)
  /\ WellFormed(args) => Fed(args, k)

(* nvault's own words of a line are those before the first "--".           *)
LEMMA OwnIs ==
  ASSUME NEW args \in Seq(Words)
  PROVE  \E k : OwnPart(args, k)
<1> DEFINE at == {i \in DOMAIN args : args[i] = "--"}
<1>1. CASE at = {}
  <2>1. ~ \E i \in DOMAIN args : args[i] = "--"
    BY <1>1
  <2>2. Own(args) = args
    BY <2>1 DEF Own
  <2>3. args = SubSeq(args, 1, Len(args))
    OBVIOUS
  <2>4. OwnEnd(args, Len(args))
    BY <2>1 DEF OwnEnd
  <2>5. WellFormed(args) => Fed(args, Len(args))
    BY <2>2 DEF WellFormed, Fed, Valued
  <2> QED
    BY <2>2, <2>3, <2>4, <2>5 DEF OwnPart
<1>2. CASE at # {}
  <2>0. at \in SUBSET Nat
    OBVIOUS
  <2>1. PICK x \in at : \A y \in at : x <= y
    <3> HIDE DEF at
    <3> QED BY <1>2, <2>0, Least
  <2>2. x \in 1 .. Len(args) /\ args[x] = "--" /\ \A j \in 1 .. x - 1 : args[j] # "--"
    BY <2>1
  <2>3. \A i \in DOMAIN args : (args[i] = "--" /\ \A j \in 1 .. i - 1 : args[j] # "--") => i = x
    <3> SUFFICES ASSUME NEW i \in DOMAIN args, args[i] = "--",
                        \A j \in 1 .. i - 1 : args[j] # "--"
                 PROVE  i = x
      OBVIOUS
    <3>1. x <= i
      BY <2>1
    <3>2. ~ (x < i)
      BY <2>2
    <3> QED
      BY <2>2, <3>1, <3>2
  <2> DEFINE c == CHOOSE i \in DOMAIN args : args[i] = "--" /\ \A j \in 1 .. i - 1 : args[j] # "--"
  <2>4. c = x
    BY <2>2, <2>3
  <2>5. Own(args) = SubSeq(args, 1, x - 1)
    BY <2>2, <2>4 DEF Own
  <2>6. Len(Own(args)) = x - 1
    BY <2>2, <2>5
  <2>7. OwnEnd(args, x - 1)
    BY <2>2 DEF OwnEnd
  <2>8. DOMAIN Own(args) = 1 .. x - 1
    BY <2>2, <2>5
  <2>9. WellFormed(args) => Fed(args, x - 1)
    BY <2>6, <2>8 DEF WellFormed, Fed, Valued
  <2> QED
    BY <2>2, <2>5, <2>6, <2>7, <2>9 DEF OwnPart
<1> QED
  BY <1>1, <1>2

(* The last value of flag among the first n words is v.                    *)
LastIs(args, flag, n, v) ==
  \E j \in 1 .. n - 1 :
    /\ args[j] = flag /\ v = args[j + 1]
    /\ \A m \in j + 1 .. n - 1 : args[m] # flag

NoneIs(args, flag, n) == \A m \in 1 .. n - 1 : args[m] # flag

(* It stays so unless the next word is its value.                          *)
LEMMA LastStays ==
  ASSUME NEW args \in Seq(Words), NEW flag, NEW n \in Nat, NEW v
  PROVE  /\ (n = 0 \/ args[n] # flag) /\ LastIs(args, flag, n, v) => LastIs(args, flag, n + 1, v)
         /\ (n = 0 \/ args[n] # flag) /\ NoneIs(args, flag, n) => NoneIs(args, flag, n + 1)
         /\ n # 0 /\ args[n] = flag => LastIs(args, flag, n + 1, args[n + 1])
<1>1. ASSUME n = 0 \/ args[n] # flag, LastIs(args, flag, n, v)
      PROVE  LastIs(args, flag, n + 1, v)
  <2>1. PICK j \in 1 .. n - 1 : /\ args[j] = flag /\ v = args[j + 1]
                               /\ \A m \in j + 1 .. n - 1 : args[m] # flag
    BY <1>1 DEF LastIs
  <2>2. \A m \in j + 1 .. (n + 1) - 1 : args[m] # flag
    BY <1>1, <2>1
  <2> QED
    BY <2>1, <2>2 DEF LastIs
<1>2. ASSUME n = 0 \/ args[n] # flag, NoneIs(args, flag, n)
      PROVE  NoneIs(args, flag, n + 1)
  BY <1>2 DEF NoneIs
<1>3. ASSUME n # 0, args[n] = flag
      PROVE  LastIs(args, flag, n + 1, args[n + 1])
  <2>1. \A m \in n + 1 .. (n + 1) - 1 : args[m] # flag
    OBVIOUS
  <2>2. n \in 1 .. (n + 1) - 1
    BY <1>3
  <2> QED
    BY <1>3, <2>1, <2>2 DEF LastIs
<1> QED
  BY <1>1, <1>2, <1>3

(* Where only "--" may follow, it is the value of the properties.          *)
LEMMA GivenIs ==
  ASSUME NEW args \in Seq(Words), NEW k, OwnEnd(args, k), Fed(args, k),
         Len(args) <= k + 1, NEW flag \in Valued
  PROVE  /\ \A v : LastIs(args, flag, k, v) => Given(args, flag) = v /\ Plain(v) /\ v # ""
         /\ NoneIs(args, flag, k) => Given(args, flag) = ""
         /\ (\E i \in DOMAIN args : args[i] = flag) <=> Given(args, flag) # ""
<1> DEFINE at == {i \in DOMAIN args : args[i] = flag /\ i < Len(args)}
<1>0. flag # "--"
  BY DEF Valued, Dashed, Modal, Flag, Setting
<1>1. \A i \in DOMAIN args : args[i] = flag => i \in 1 .. k - 1 /\ Plain(args[i + 1])
  <2> SUFFICES ASSUME NEW i \in DOMAIN args, args[i] = flag
               PROVE  i \in 1 .. k - 1 /\ Plain(args[i + 1])
    OBVIOUS
  <2>1. i <= k
    BY <1>0 DEF OwnEnd
  <2> QED
    BY <2>1 DEF Fed, OwnEnd
<1>2. ASSUME NEW v, LastIs(args, flag, k, v)
      PROVE  Given(args, flag) = v /\ Plain(v) /\ v # ""
  <2>1. PICK j \in 1 .. k - 1 : /\ args[j] = flag /\ v = args[j + 1]
                               /\ \A m \in j + 1 .. k - 1 : args[m] # flag
    BY <1>2 DEF LastIs
  <2>2. j \in at
    BY <2>1 DEF OwnEnd
  <2>3. \A i \in at : i <= j
    BY <1>1, <2>1 DEF OwnEnd
  <2>4. \A i \in at : (\A m \in at : m <= i) => i = j
    BY <2>2, <2>3
  <2>5. (CHOOSE i \in at : \A m \in at : m <= i) = j
    BY <2>2, <2>3, <2>4
  <2>6. Given(args, flag) = args[1 + j]
    BY <2>2, <2>5 DEF Given
  <2>7. Plain(v)
    BY <1>1, <2>1, <2>2
  <2>8. Given(args, flag) = v
    BY <2>1, <2>6
  <2> QED
    BY <2>7, <2>8 DEF Plain
<1>3. ASSUME NoneIs(args, flag, k)
      PROVE  /\ Given(args, flag) = ""
             /\ ~ \E i \in DOMAIN args : args[i] = flag
  <2>1. ~ \E i \in DOMAIN args : args[i] = flag
    BY <1>1, <1>3 DEF NoneIs
  <2>2. at = {}
    BY <2>1
  <2> QED
    BY <2>1, <2>2 DEF Given
<1>4. ASSUME ~ NoneIs(args, flag, k)
      PROVE  \E v : LastIs(args, flag, k, v)
  <2>1. PICK m \in 1 .. k - 1 : args[m] = flag
    BY <1>4 DEF NoneIs
  <2> DEFINE S == {d \in Nat : d < k /\ k - d \in 1 .. k - 1 /\ args[k - d] = flag}
  <2>2. k - m \in S
    BY <2>1 DEF OwnEnd
  <2>3. PICK x \in S : \A y \in S : x <= y
    BY <2>2, Least
  <2>4. \A i \in (k - x) + 1 .. k - 1 : args[i] # flag
    <3> SUFFICES ASSUME NEW i \in (k - x) + 1 .. k - 1, args[i] = flag PROVE FALSE
      OBVIOUS
    <3>1. k - i \in Nat /\ k - (k - i) = i /\ i \in 1 .. k - 1 /\ k - i < x
      BY <2>3 DEF OwnEnd
    <3>2. k - i \in S
      <4>1. k - i < k
        BY <3>1 DEF OwnEnd
      <4>2. args[k - (k - i)] = flag
        BY <3>1
      <4> QED
        BY <3>1, <4>1, <4>2
    <3> QED
      BY <2>3, <3>1, <3>2
  <2> QED
    BY <2>3, <2>4 DEF LastIs
<1>5. (\E i \in DOMAIN args : args[i] = flag) <=> Given(args, flag) # ""
  <2>1. CASE NoneIs(args, flag, k)
    BY <1>3, <2>1
  <2>2. CASE ~ NoneIs(args, flag, k)
    <3>1. Given(args, flag) # ""
      BY <1>2, <1>4, <2>2
    <3>2. \E i \in DOMAIN args : args[i] = flag
      BY <2>2 DEF NoneIs, OwnEnd
    <3> QED
      BY <3>1, <3>2
  <2> QED
    BY <2>1, <2>2
<1> QED
  BY <1>2, <1>3, <1>5

-----------------------------------------------------------------------------
(* What the first loop has after each of these words, and at the end.      *)

LEMMA SelectOwn ==
  ASSUME env \in Environments, NEW args \in Seq(Words), NEW k,
         OwnEnd(args, k), Fed(args, k), NEW at, SelectRun(at, args)
  PROVE  \A i \in 0 .. k :
           /\ ~at[i].over
           /\ at[i].expects <=> (i # 0 /\ args[i] = "--config")
           /\ \/ LastIs(args, "--config", i, at[i].path)
              \/ NoneIs(args, "--config", i) /\ at[i].path = env.config
           /\ at[i].explicit <=> (env.config # "" \/ \E j \in 1 .. i : args[j] = "--config")
<1> DEFINE P(i) ==
      /\ ~at[i].over
      /\ at[i].expects <=> (i # 0 /\ args[i] = "--config")
      /\ \/ LastIs(args, "--config", i, at[i].path)
         \/ NoneIs(args, "--config", i) /\ at[i].path = env.config
      /\ at[i].explicit <=> (env.config # "" \/ \E j \in 1 .. i : args[j] = "--config")
    S == {i \in 0 .. k : P(i)}
<1>0. k \in Nat
  BY DEF OwnEnd
<1>1. P(0)
  <2>1. at[0] = SelectStart
    BY DEF SelectRun
  <2>2. NoneIs(args, "--config", 0)
    BY DEF NoneIs
  <2>3. ~ \E j \in 1 .. 0 : args[j] = "--config"
    OBVIOUS
  <2> QED
    BY <2>1, <2>2, <2>3, SelectStarts
<1>2. ASSUME NEW i \in 0 .. k - 1, P(i) PROVE P(i + 1)
  <2>0. i \in Nat
    BY <1>0
  <2>1. P(i)
    BY <1>2
  <2>2. /\ i \in 0 .. Len(args) /\ i + 1 \in 1 .. Len(args) /\ i + 1 \in 1 .. k
        /\ args[i + 1] \in Words /\ args[i + 1] # "--"
    BY DEF OwnEnd
  <2>3. at[i + 1] = Select(at[i], args[i + 1])
    <3>1. (i + 1) - 1 = i
      OBVIOUS
    <3> QED
      BY <2>2, <3>1 DEF SelectRun
  <2>4. at[i] \in SelectScan
    BY <2>2, SelectTyped
  <2>5. at[i].expects => i # 0 /\ Plain(args[i + 1])
    <3>1. "--config" \in Valued
      BY DEF Valued, Dashed
    <3>2. i # 0 => i \in 1 .. k
      BY <2>2 DEF OwnEnd
    <3> QED
      BY <2>1, <3>1, <3>2 DEF Fed
  <2>6. Plain(args[i + 1]) => args[i + 1] # "--config"
    BY DEF Plain, Dashed
  <2> DEFINE new == at[i + 1]
  <2>7. /\ ~new.over
        /\ new.expects <=> (~at[i].expects /\ args[i + 1] = "--config")
        /\ new.path = IF at[i].expects THEN args[i + 1] ELSE at[i].path
        /\ new.explicit <=> (at[i].explicit \/ (~at[i].expects /\ args[i + 1] = "--config"))
    <3>1. ~at[i].over
      BY <2>1
    <3>2. /\ Select(at[i], args[i + 1]).over <=> (~at[i].expects /\ args[i + 1] = "--")
          /\ Select(at[i], args[i + 1]).expects <=> (~at[i].expects /\ args[i + 1] = "--config")
          /\ Select(at[i], args[i + 1]).path = IF at[i].expects THEN args[i + 1] ELSE at[i].path
          /\ Select(at[i], args[i + 1]).explicit <=>
               (at[i].explicit \/ (~at[i].expects /\ args[i + 1] = "--config"))
      <4> HIDE DEF P
      <4> QED BY <2>2, <2>4, <3>1, SelectTable
    <3> QED
      BY <2>2, <2>3, <3>2
  <2>8. new.expects <=> (args[i + 1] = "--config")
    BY <2>5, <2>6, <2>7
  <2>9. new.explicit <=> (env.config # "" \/ \E j \in 1 .. i + 1 : args[j] = "--config")
    <3>1. (\E j \in 1 .. i + 1 : args[j] = "--config") <=>
            (args[i + 1] = "--config" \/ \E j \in 1 .. i : args[j] = "--config")
      BY <2>2
    <3>2. new.explicit <=> (at[i].explicit \/ args[i + 1] = "--config")
      BY <2>5, <2>6, <2>7
    <3> QED
      BY <2>1, <3>1, <3>2
  <2>10. \/ LastIs(args, "--config", i + 1, new.path)
         \/ NoneIs(args, "--config", i + 1) /\ new.path = env.config
    <3>1. CASE at[i].expects
      <4>1. i # 0 /\ args[i] = "--config" /\ new.path = args[i + 1]
        BY <2>1, <2>7, <3>1
      <4>2. LastIs(args, "--config", i + 1, args[i + 1])
        <5> HIDE DEF new, P
        <5> QED BY <2>0, <4>1, LastStays
      <4> QED
        BY <4>1, <4>2
    <3>2. CASE ~at[i].expects
      <4>1. (i = 0 \/ args[i] # "--config") /\ new.path = at[i].path
        BY <2>1, <2>7, <3>2
      <4>2. LastIs(args, "--config", i, at[i].path) => LastIs(args, "--config", i + 1, at[i].path)
        <5> HIDE DEF new, P
        <5> QED BY <2>0, <4>1, LastStays
      <4>3. NoneIs(args, "--config", i) => NoneIs(args, "--config", i + 1)
        <5> HIDE DEF new, P
        <5> QED BY <2>0, <4>1, LastStays
      <4> QED
        BY <2>1, <4>1, <4>2, <4>3
    <3> QED
      BY <3>1, <3>2
  <2>11. i + 1 # 0
    BY <2>0
  <2> HIDE DEF new
  <2>12. new = at[i + 1]
    BY DEF new
  <2> QED
    BY <2>7, <2>8, <2>9, <2>10, <2>11, <2>12
<1>3. 0 \in S /\ \A i \in 0 .. k - 1 : i \in S => i + 1 \in S
  <2> HIDE DEF P
  <2> QED BY <1>0, <1>1, <1>2
<1>4. 0 .. k \subseteq S
  <2> HIDE DEF S
  <2> QED BY <1>0, <1>3, UpTo
<1> QED
  BY <1>4

(* Nothing changes from "--" on.                                           *)
LEMMA SelectBeyondOwn ==
  ASSUME env \in Environments, NEW args \in Seq(Words), NEW k,
         OwnEnd(args, k), Fed(args, k), NEW at, SelectRun(at, args)
  PROVE  Selected(at[Len(args)]) = Selected(at[k])
<1> DEFINE Same(i) == /\ at[i].over
                       /\ at[i].path = at[k].path /\ at[i].explicit = at[k].explicit
                       /\ at[i].expects = at[k].expects /\ at[i].error = at[k].error
           S == {i \in 0 .. Len(args) : i > k => Same(i)}
<1>0. k \in 0 .. k /\ k \in Nat /\ k \in 0 .. Len(args)
  BY DEF OwnEnd
<1>1. ASSUME k + 1 <= Len(args) PROVE Same(k + 1)
  <2>1. args[k + 1] = "--" /\ k + 1 \in 1 .. Len(args) /\ (k + 1) - 1 = k
    BY <1>0, <1>1 DEF OwnEnd
  <2>2. at[k + 1] = Select(at[k], "--")
    BY <2>1 DEF SelectRun
  <2>3. at[k] \in SelectScan
    BY <1>0, SelectTyped
  <2>4. ~at[k].over /\ ~at[k].expects
    <3>1. "--config" \in Valued
      BY DEF Valued, Dashed
    <3>2. k # 0 => args[k] # "--config"
      BY <1>0, <3>1 DEF Fed
    <3>3. /\ ~at[k].over
          /\ at[k].expects <=> (k # 0 /\ args[k] = "--config")
      BY <1>0, SelectOwn
    <3> QED
      BY <3>2, <3>3, Zenon
  <2>5. at[k + 1] = [at[k] EXCEPT !.over = TRUE]
    BY <2>2, <2>4 DEF Select
  <2> QED
    BY <2>3, <2>5 DEF SelectScan
<1>2. ASSUME NEW i \in 0 .. Len(args) - 1, i > k, Same(i)
      PROVE  Same(i + 1)
  <2>1. i + 1 \in 1 .. Len(args) /\ (i + 1) - 1 = i
    OBVIOUS
  <2>2. at[i + 1] = Select(at[i], args[i + 1])
    BY <2>1 DEF SelectRun
  <2>3. at[i + 1] = at[i]
    BY <1>2, <2>2 DEF Select
  <2> QED
    BY <1>2, <2>3
<1>3. 0 .. Len(args) \subseteq S
  <2> HIDE DEF Same
  <2>1. 0 \in S /\ \A i \in 0 .. Len(args) - 1 : i \in S => i + 1 \in S
    BY <1>0, <1>1, <1>2
  <2>2. Len(args) \in Nat
    OBVIOUS
  <2> HIDE DEF S
  <2> QED BY <2>1, <2>2, UpTo
<1>4. CASE k = Len(args)
  BY <1>4
<1>5. CASE k # Len(args)
  <2>1. Same(Len(args))
    BY <1>0, <1>3, <1>5
  <2> QED
    BY <2>1 DEF Selected
<1> QED
  BY <1>4, <1>5

(* What is made of the last cell.                                          *)
LEMMA SelectedFields ==
  ASSUME NEW scan
  PROVE  /\ Selected(scan).path = IF scan.path = "" THEN "D" ELSE scan.path
         /\ Selected(scan).explicit = scan.explicit
         /\ Selected(scan).error = IF scan.expects THEN "value" ELSE scan.error
<1>1. Selected(scan).path = IF scan.path = "" THEN "D" ELSE scan.path
  BY DEF Selected
<1>2. Selected(scan).explicit = scan.explicit
  BY DEF Selected
<1>3. Selected(scan).error = IF scan.expects THEN "value" ELSE scan.error
  BY DEF Selected
<1> QED
  BY <1>1, <1>2, <1>3

(* The file that is selected is one, and which.                            *)
LEMMA SelectedTyped ==
  ASSUME env \in Environments, NEW args \in Seq(Words)
  PROVE  /\ SelectedConfig(args).path \in Word
         /\ SelectedConfig(args).explicit \in BOOLEAN
         /\ SelectedConfig(args).error \in {"", "twice", "value"}
<1>1. PICK at : SelectRun(at, args) /\ SelectedConfig(args) = Selected(at[Len(args)])
  BY SelectRuns
<1>2. at[Len(args)] \in SelectScan
  BY <1>1, SelectTyped
<1>3. PICK scan : scan = at[Len(args)]
  OBVIOUS
<1>4. /\ scan.path \in Words /\ scan.explicit \in BOOLEAN /\ scan.expects \in BOOLEAN
      /\ scan.error \in {"", "twice"}
  BY <1>2, <1>3 DEF SelectScan
<1>5. Selected(scan).path \in Word /\ Selected(scan).explicit \in BOOLEAN
  BY <1>4, SelectedFields, WordAssumption DEF Words
<1>6. Selected(scan).error \in {"", "twice", "value"}
  BY <1>4, SelectedFields
<1> QED
  BY <1>1, <1>3, <1>5, <1>6

(* The last --config wins, then the environment, then the default.         *)
LEMMA SelectedIs ==
  ASSUME env \in Environments, NEW args \in Seq(Words), NEW k,
         OwnEnd(args, k), Fed(args, k), Len(args) <= k + 1
  PROVE  /\ SelectedConfig(args).path = Over(Given(args, "--config"), Over(env.config, "D"))
         /\ SelectedConfig(args).explicit <=> env.config # "" \/ Given(args, "--config") # ""
<1>1. PICK at : SelectRun(at, args) /\ SelectedConfig(args) = Selected(at[Len(args)])
  BY SelectRuns
<1>2. SelectedConfig(args) = Selected(at[k])
  BY <1>1, SelectBeyondOwn
<1>3. k \in 0 .. k
  BY DEF OwnEnd
<1>4. "--config" \in Valued
  BY DEF Valued, Dashed
<1>5. \/ LastIs(args, "--config", k, at[k].path)
      \/ NoneIs(args, "--config", k) /\ at[k].path = env.config
  <2>1. \A i \in 0 .. k :
          /\ ~at[i].over
          /\ at[i].expects <=> (i # 0 /\ args[i] = "--config")
          /\ \/ LastIs(args, "--config", i, at[i].path)
             \/ NoneIs(args, "--config", i) /\ at[i].path = env.config
          /\ at[i].explicit <=> (env.config # "" \/ \E j \in 1 .. i : args[j] = "--config")
    BY <1>1, SelectOwn
  <2> QED
    BY <1>3, <2>1
<1>6. \/ at[k].path = Given(args, "--config") /\ Given(args, "--config") # ""
      \/ at[k].path = env.config /\ Given(args, "--config") = ""
  BY <1>4, <1>5, GivenIs
<1>7. SelectedConfig(args).path = IF at[k].path = "" THEN "D" ELSE at[k].path
  BY <1>2, SelectedFields
<1>8. SelectedConfig(args).explicit = at[k].explicit
  BY <1>2, SelectedFields, Zenon
<1>9. at[k].explicit <=> (env.config # "" \/ \E j \in 1 .. k : args[j] = "--config")
  BY <1>1, <1>3, SelectOwn
<1>10. (\E i \in DOMAIN args : args[i] = "--config") <=> Given(args, "--config") # ""
  BY <1>4, GivenIs
<1>11. (\E i \in DOMAIN args : args[i] = "--config") <=> \E j \in 1 .. k : args[j] = "--config"
  <2>1. \A i \in DOMAIN args : i \in 1 .. k \/ args[i] = "--"
    BY DEF OwnEnd
  <2>2. 1 .. k \subseteq DOMAIN args
    BY DEF OwnEnd
  <2> QED
    BY <2>1, <2>2
<1> QED
  BY <1>6, <1>7, <1>8, <1>9, <1>10, <1>11 DEF Over

(* The words of the child do not select a file.                            *)
LEMMA SelectOwnOnly ==
  ASSUME env \in Environments, NEW args \in Seq(Words), NEW k,
         OwnEnd(args, k), Fed(args, k)
  PROVE  SelectedConfig(SubSeq(args, 1, k)) = SelectedConfig(args)
<1> DEFINE own == SubSeq(args, 1, k)
<1>1. own \in Seq(Words) /\ Len(own) = k /\ k \in Nat /\ \A i \in 1 .. k : own[i] = args[i]
  BY DEF OwnEnd
<1>2. PICK at : SelectRun(at, args) /\ SelectedConfig(args) = Selected(at[Len(args)])
  BY SelectRuns
<1>3. PICK bt : SelectRun(bt, own) /\ SelectedConfig(own) = Selected(bt[k])
  <2> HIDE DEF own
  <2> QED BY <1>1, SelectRuns
<1> HIDE DEF own
<1> DEFINE S == {i \in 0 .. k : bt[i] = at[i]}
<1>4. 0 \in S
  BY <1>1, <1>2, <1>3 DEF SelectRun
<1>5. ASSUME NEW i \in 0 .. k - 1, bt[i] = at[i] PROVE bt[i + 1] = at[i + 1]
  <2>1. i + 1 \in 1 .. k /\ i + 1 \in 1 .. Len(args) /\ (i + 1) - 1 = i
    BY <1>1 DEF OwnEnd
  <2>2. bt[i + 1] = Select(bt[i], own[i + 1])
    BY <1>1, <1>3, <2>1 DEF SelectRun
  <2>3. at[i + 1] = Select(at[i], args[i + 1])
    BY <1>2, <2>1 DEF SelectRun
  <2> QED
    BY <1>1, <1>5, <2>1, <2>2, <2>3
<1>6. 0 .. k \subseteq S
  <2>1. \A i \in 0 .. k - 1 : i \in S => i + 1 \in S
    BY <1>1, <1>5
  <2> HIDE DEF S
  <2> QED BY <1>1, <1>4, <2>1, UpTo
<1>7. bt[k] = at[k]
  BY <1>1, <1>6
<1>8. Selected(at[Len(args)]) = Selected(at[k])
  BY <1>2, SelectBeyondOwn
<1>9. SelectedConfig(own) = SelectedConfig(args)
  BY <1>2, <1>3, <1>7, <1>8
<1> QED
  BY <1>9 DEF own

-----------------------------------------------------------------------------
(* The second loop: what it starts with, its cells and their type.         *)

Source == {"environment-key", "environment", "config", "default", "environment-secret",
           "interactive", "flag"}
Problem == {"", "twice", "value", "config", "mode", "option", "only", "line"}

Opts ==
  [config : Word, exists : BOOLEAN, error : Problem, keyed : BOOLEAN,
   value : [Setting -> Words], source : [Setting -> Source],
   noConfig : BOOLEAN, all : BOOLEAN, only : Seq(Words), rest : Seq(Words),
   expects : Words, over : BOOLEAN]

Files == [Word -> [is : {"valid", "broken", "missing"}, sets : [Setting -> Words]]]

(* localDefaults returns options without an open flag or positionals.      *)
LEMMA StartTyped ==
  ASSUME env \in Environments, NEW args \in Seq(Words), NEW c, NEW files \in Files
  PROVE  /\ Defaults(args, c, files) \in Opts
         /\ Defaults(args, c, files).expects = "" /\ ~Defaults(args, c, files).over
         /\ ~Defaults(args, c, files).noConfig /\ Defaults(args, c, files).rest = <<>>
<1> DEFINE selected == SelectedConfig(args)
           ignored == IgnoresConfig(args)
           file == files[selected.path]
           exists == ~ignored /\ file.is = "valid"
           config == IF exists THEN file.sets ELSE NoConfig
           below == [s \in Setting |-> Over(config[s], Default[s])]
           start == Defaults(args, c, files)
<1>1. /\ selected.path \in Word /\ selected.explicit \in BOOLEAN
      /\ selected.error \in {"", "twice", "value"}
  BY SelectedTyped
<1>2. file \in [is : {"valid", "broken", "missing"}, sets : [Setting -> Words]]
  BY <1>1 DEF Files
<1>3. config \in [Setting -> Words]
  BY <1>2 DEF NoConfig, Words
<1>4. \A s \in Setting : Default[s] \in Words
  <2> SUFFICES ASSUME NEW s \in Setting PROVE Default[s] \in Words
    OBVIOUS
  <2>1. Default["identity"] = "D" /\ Default["store"] = "D" /\ Default["scope"] = "D"
    BY DEF Default
  <2>2. Default["passphrase"] = ""
    BY DEF Default
  <2> QED
    BY <2>1, <2>2, WordAssumption DEF Setting, Words
<1>5. below \in [Setting -> Words]
  BY <1>3, <1>4 DEF Over
<1>6. env.files \in [Setting -> Words]
  BY EnvironmentAssumption DEF Words
<1> HIDE DEF selected, below, config, file
<1>7. start.error \in Problem
  BY <1>1 DEF Defaults, Layers, Problem, selected, file
<1>8. start.value \in [Setting -> Words]
  <2>1. start.value = [s \in Setting |->
          IF s = "identity" /\ env.key # "" THEN "" ELSE Over(env.files[s], below[s])]
    BY DEF Defaults, Layers, below, config, file, selected
  <2> QED
    BY <1>5, <1>6, <2>1 DEF Over, Words
<1>9. start.source \in [Setting -> Source]
  BY DEF Defaults, Layers, Source
<1>10. start.config \in Word /\ start.exists \in BOOLEAN
  BY <1>1 DEF Defaults, Layers, selected
<1>11. /\ start.keyed \in BOOLEAN /\ start.noConfig = FALSE /\ start.all = FALSE
       /\ start.only = <<>> /\ start.rest = <<>> /\ start.expects = "" /\ start.over = FALSE
  BY DEF Defaults, Layers
<1>12. start = [config |-> start.config, exists |-> start.exists, error |-> start.error,
                keyed |-> start.keyed, value |-> start.value, source |-> start.source,
                noConfig |-> start.noConfig, all |-> start.all, only |-> start.only,
                rest |-> start.rest, expects |-> start.expects, over |-> start.over]
  BY DEF Defaults, Layers
<1> HIDE DEF start
<1>13. start \in Opts
  <2>1. <<>> \in Seq(Words) /\ "" \in Words
    <3>1. "" \in Words
      BY DEF Words
    <3>2. <<>> \in Seq(Words)
      OBVIOUS
    <3> QED
      BY <3>1, <3>2
  <2>2. /\ start.noConfig \in BOOLEAN /\ start.all \in BOOLEAN /\ start.over \in BOOLEAN
        /\ start.only \in Seq(Words) /\ start.rest \in Seq(Words) /\ start.expects \in Words
    BY <1>11, <2>1
  <2> QED
    BY <1>7, <1>8, <1>9, <1>10, <1>11, <1>12, <2>2, Zenon DEF Opts
<1> QED
  BY <1>11, <1>13 DEF start

(* One step, field by field.                                               *)
LEMMA FlagOf ==
  /\ Flag["identity"] = "--identity" /\ Flag["store"] = "--store"
  /\ Flag["passphrase"] = "--passphrase-file" /\ Flag["scope"] = "--scope"
  /\ {Flag[s] : s \in Setting} = {"--identity", "--store", "--passphrase-file", "--scope"}
  /\ \A s \in Setting : Flag[s] \in Valued /\ (Flag[s] = "--identity" <=> s = "identity")
<1>1. /\ Flag["identity"] = "--identity" /\ Flag["store"] = "--store"
      /\ Flag["passphrase"] = "--passphrase-file" /\ Flag["scope"] = "--scope"
  BY DEF Flag
<1>2. {Flag[s] : s \in Setting} = {"--identity", "--store", "--passphrase-file", "--scope"}
  BY <1>1 DEF Setting
<1>3. \A s \in Setting : Flag[s] \in Valued /\ (Flag[s] = "--identity" <=> s = "identity")
  BY <1>1, <1>2 DEF Setting, Valued, Dashed
<1> QED
  BY <1>1, <1>2, <1>3

Fine(o) == o.error = ""
Idle(o) == o.expects = ""

(* The value of a flag, field by field.                                    *)
LEMMA TakeTable ==
  ASSUME NEW o \in Opts, NEW flag \in Words, NEW word \in Words
  PROVE  /\ Take(o, flag, word) \in Opts
         /\ Take(o, flag, word).config = o.config /\ Take(o, flag, word).exists = o.exists
         /\ Take(o, flag, word).rest = o.rest /\ Take(o, flag, word).noConfig = o.noConfig
         /\ Take(o, flag, word).all = o.all
         /\ Take(o, flag, word).over = o.over /\ Idle(Take(o, flag, word))
<1> DEFINE value == [s \in Setting |-> IF Flag[s] = flag THEN word ELSE o.value[s]]
           source == [s \in Setting |-> IF Flag[s] = flag THEN "flag" ELSE o.source[s]]
           only == IF flag = "--only" THEN Append(o.only, word) ELSE o.only
           error == IF flag = "--only" /\ word = "" THEN "only" ELSE o.error
           keyed == o.keyed /\ flag # "--identity"
<1>1. value \in [Setting -> Words] /\ source \in [Setting -> Source]
  BY DEF Opts, Source
<1>2. only \in Seq(Words) /\ error \in Problem /\ keyed \in BOOLEAN
  <2>1. o.only \in Seq(Words) /\ o.error \in Problem
    BY DEF Opts
  <2>2. Append(o.only, word) \in Seq(Words)
    BY <2>1
  <2> QED
    BY <2>1, <2>2 DEF Problem
<1>3. Take(o, flag, word) =
        [o EXCEPT !.expects = "", !.value = value, !.source = source, !.keyed = keyed,
                  !.only = only, !.error = error]
  BY DEF Take
<1> HIDE DEF value, source, only, error, keyed
<1> DEFINE p == Take(o, flag, word)
<1>6. /\ p.config = o.config /\ p.exists = o.exists /\ p.rest = o.rest
      /\ p.noConfig = o.noConfig /\ p.all = o.all /\ p.over = o.over /\ p.expects = ""
      /\ p.value = value /\ p.source = source /\ p.keyed = keyed /\ p.only = only
      /\ p.error = error
  BY <1>3 DEF Opts
<1>7. p \in Opts
  <2>1. "" \in Words
    BY DEF Words
  <2> QED
    BY <1>1, <1>2, <1>3, <2>1 DEF Opts
<1> HIDE DEF p
<1> QED
  BY <1>6, <1>7 DEF p, Idle

(* Only --identity says that the raw key is not used.                      *)
LEMMA TakeKeyed ==
  ASSUME NEW o \in Opts, NEW flag \in Words, NEW word \in Words
  PROVE  Take(o, flag, word).keyed <=> o.keyed /\ flag # "--identity"
  BY DEF Take, Opts

(* The flag of a setting sets its value and source, and no other does.     *)
LEMMA TakeSettings ==
  ASSUME NEW o \in Opts, NEW flag \in Words, NEW word \in Words, NEW s \in Setting
  PROVE  /\ Take(o, flag, word).value[s] = IF Flag[s] = flag THEN word ELSE o.value[s]
         /\ Take(o, flag, word).source[s] = IF Flag[s] = flag THEN "flag" ELSE o.source[s]
<1>1. /\ Take(o, flag, word).value = [t \in Setting |-> IF Flag[t] = flag THEN word ELSE o.value[t]]
      /\ Take(o, flag, word).source = [t \in Setting |-> IF Flag[t] = flag THEN "flag" ELSE o.source[t]]
  BY DEF Take, Opts
<1> QED
  BY <1>1

(* One turn of the second loop, field by field.                            *)
LEMMA ParseTable ==
  ASSUME NEW o \in Opts, NEW word \in Words, NEW c
  PROVE  /\ Parse(o, word, c) \in Opts
         /\ Parse(o, word, c).config = o.config /\ Parse(o, word, c).exists = o.exists
         /\ Fine(o) /\ ~o.over /\ Idle(o) =>
              /\ Parse(o, word, c).value = o.value /\ Parse(o, word, c).source = o.source
              /\ Parse(o, word, c).keyed = o.keyed
              /\ Parse(o, word, c).over <=> word = "--"
              /\ word = "--" => /\ Parse(o, word, c).rest = o.rest
                               /\ Parse(o, word, c).only = o.only
                               /\ Idle(Parse(o, word, c))
              /\ word # "--" /\ Fine(Parse(o, word, c)) =>
                   /\ word \in Valued => Parse(o, word, c).expects = word
                   /\ word \notin Valued => Idle(Parse(o, word, c))
                   /\ Parse(o, word, c).noConfig <=> o.noConfig \/ word = "--no-config"
<1> DEFINE p == Parse(o, word, c)
<1>1. CASE ~Fine(o)
  BY <1>1 DEF Parse, Fine, Idle
<1>2. CASE Fine(o) /\ o.over
  <2>1. p = [o EXCEPT !.rest = Append(@, word)]
    BY <1>2 DEF Parse, Fine, Idle
  <2>2. p \in Opts /\ p.config = o.config /\ p.exists = o.exists
    <3>1. Append(o.rest, word) \in Seq(Words)
      BY DEF Opts, Fine, Idle
    <3> QED
      BY <2>1, <3>1 DEF Opts, Fine, Idle
  <2> QED
    BY <1>2, <2>1, <2>2
<1>3. CASE Fine(o) /\ ~o.over /\ ~Idle(o)
  <2>1. p = Take(o, o.expects, word)
    BY <1>3 DEF Parse, Fine, Idle
  <2>2. o.expects \in Words
    BY DEF Opts, Fine, Idle
  <2>3. Take(o, o.expects, word) \in Opts
    BY <2>2, TakeTable
  <2>4. /\ Take(o, o.expects, word).config = o.config
        /\ Take(o, o.expects, word).exists = o.exists
    BY <2>2, TakeTable
  <2> QED
    BY <1>3, <2>1, <2>3, <2>4
<1>4. CASE Fine(o) /\ ~o.over /\ Idle(o)
  <2>1. CASE word = "--"
    <3>1. p = [o EXCEPT !.over = TRUE]
      BY <1>4, <2>1 DEF Parse, Fine, Idle
    <3> QED
      BY <1>4, <2>1, <3>1 DEF Opts, Fine, Idle
  <2>2. CASE word # "--"
    <3>1. CASE word \in Modal /\ ~Allows(c, word)
      <4>1. p = [o EXCEPT !.error = "mode"]
        BY <1>4, <2>2, <3>1 DEF Parse, Fine, Idle
      <4> QED
        BY <1>4, <2>2, <4>1 DEF Opts, Fine, Idle, Problem
    <3>2. CASE ~(word \in Modal /\ ~Allows(c, word)) /\ word = "--all"
      <4>1. p = [o EXCEPT !.all = TRUE]
        BY <1>4, <2>2, <3>2 DEF Parse, Fine, Idle
      <4> QED
        BY <1>4, <2>2, <3>2, <4>1 DEF Opts, Fine, Idle, Valued
    <3>3. CASE ~(word \in Modal /\ ~Allows(c, word)) /\ word = "--no-config"
      <4>1. p = [o EXCEPT !.noConfig = TRUE]
        BY <1>4, <2>2, <3>3 DEF Parse, Fine, Idle
      <4> QED
        BY <1>4, <2>2, <3>3, <4>1 DEF Opts, Fine, Idle, Valued
    <3>4. CASE ~(word \in Modal /\ ~Allows(c, word)) /\ word = "--json"
      <4>1. p = o
        BY <1>4, <2>2, <3>4 DEF Parse, Fine, Idle
      <4> QED
        BY <1>4, <2>2, <3>4, <4>1 DEF Opts, Fine, Idle, Valued
    <3>5. CASE word = "--bad"
      <4>1. p = [o EXCEPT !.error = "option"]
        BY <1>4, <2>2, <3>5 DEF Parse, Fine, Idle, Modal
      <4> QED
        BY <1>4, <2>2, <4>1 DEF Opts, Fine, Idle, Problem
    <3>6. CASE /\ ~(word \in Modal /\ ~Allows(c, word))
               /\ word \notin {"--all", "--no-config", "--json", "--bad"} /\ word \in Dashed
      <4>1. p = [o EXCEPT !.expects = word]
        BY <1>4, <2>2, <3>6 DEF Parse, Fine, Idle
      <4>2. word \in Valued /\ word # "--no-config"
        BY <3>6 DEF Valued
      <4> QED
        BY <1>4, <2>2, <4>1, <4>2 DEF Opts, Fine, Idle
    <3>7. CASE word \notin Dashed
      <4>1. /\ word \notin Modal /\ word \notin Valued
            /\ word \notin {"--all", "--no-config", "--json", "--bad"}
        BY <3>7 DEF Dashed, Valued, Modal
      <4>2. p = [o EXCEPT !.rest = Append(@, word)]
        BY <1>4, <2>2, <3>7, <4>1 DEF Parse, Fine, Idle
      <4>3. p \in Opts
        <5>1. Append(o.rest, word) \in Seq(Words)
          BY DEF Opts, Fine, Idle
        <5> QED
          BY <4>2, <5>1 DEF Opts, Fine, Idle
      <4>4. /\ p.config = o.config /\ p.exists = o.exists /\ p.value = o.value
            /\ p.source = o.source /\ p.keyed = o.keyed /\ p.only = o.only
            /\ p.over = o.over /\ p.expects = o.expects /\ p.noConfig = o.noConfig
        BY <4>2 DEF Opts, Fine, Idle
      <4>5. Idle(p)
        BY <1>4, <4>4 DEF Idle
      <4> QED
        BY <1>4, <2>2, <4>1, <4>3, <4>4, <4>5
    <3> QED
      BY <3>1, <3>2, <3>3, <3>4, <3>5, <3>6, <3>7
  <2> QED
    BY <2>1, <2>2
<1> QED
  BY <1>1, <1>2, <1>3, <1>4 DEF Opts, Fine, Idle

ParseRun(at, start, args, c) ==
  /\ at[0] = start
  /\ \A i \in 1 .. Len(args) : at[i] = Parse(at[i - 1], args[i], c)

ParseIs(at, start, args, c, n) ==
  at = [i \in 0 .. n |-> IF i = 0 THEN start ELSE Parse(at[i - 1], args[i], c)]

(* The loop has cells.                                                     *)
LEMMA ParseRuns ==
  ASSUME NEW args \in Seq(Words), NEW c, NEW files, NEW start,
         start = Defaults(args, c, files)
  PROVE  \E at : /\ ParseRun(at, start, args, c)
                  /\ ParseOptions(args, c, files) = Checked(at[Len(args)], args, c)
<1> DEFINE S == {n \in Nat : \E at : ParseIs(at, start, args, c, n)}
<1>1. 0 \in S
  <2> DEFINE g == [i \in 0 .. 0 |-> start]
  <2>1. ParseIs(g, start, args, c, 0)
    BY DEF ParseIs
  <2> QED
    BY <2>1
<1>2. ASSUME NEW n \in S
      PROVE  n + 1 \in S
  <2>1. PICK at : ParseIs(at, start, args, c, n)
    OBVIOUS
  <2> DEFINE g == [i \in 0 .. n + 1 |-> IF i = n + 1 THEN Parse(at[n], args[n + 1], c) ELSE at[i]]
  <2>2. ASSUME NEW i \in 0 .. n + 1
        PROVE  g[i] = IF i = 0 THEN start ELSE Parse(g[i - 1], args[i], c)
    <3>1. at = [j \in 0 .. n |-> IF j = 0 THEN start ELSE Parse(at[j - 1], args[j], c)]
      BY <2>1 DEF ParseIs
    <3>2. CASE i = n + 1
      BY <3>2
    <3>3. CASE i # n + 1
      <4>1. at[i] = IF i = 0 THEN start ELSE Parse(at[i - 1], args[i], c)
        <5>1. i \in 0 .. n
          BY <3>3
        <5> QED
          BY <3>1, <5>1, Zenon
      <4>2. g[i] = at[i] /\ (i # 0 => g[i - 1] = at[i - 1])
        BY <3>3
      <4> QED
        BY <4>1, <4>2
    <3> QED
      BY <3>2, <3>3
  <2>3. ParseIs(g, start, args, c, n + 1)
    <3> DEFINE h == [i \in 0 .. n + 1 |-> IF i = 0 THEN start ELSE Parse(g[i - 1], args[i], c)]
    <3>1. g = h
      <4>1. \A i \in 0 .. n + 1 : g[i] = h[i]
        <5> HIDE DEF g
        <5> QED BY <2>2
      <4> QED
        BY <4>1
    <3> QED
      BY <3>1, Zenon DEF ParseIs
  <2> QED
    BY <2>3
<1>3. Len(args) \in S
  <2> HIDE DEF S
  <2> QED BY <1>1, <1>2, SetInduction
<1>4. PICK g : ParseIs(g, start, args, c, Len(args))
  BY <1>3
<1> DEFINE at[i \in 0 .. Len(args)] == IF i = 0 THEN start ELSE Parse(at[i - 1], args[i], c)
<1>5. ParseIs(at, start, args, c, Len(args))
  BY <1>4, Zenon DEF ParseIs
<1>6. Scan(LAMBDA o, word : Parse(o, word, c), start, args) = at[Len(args)]
  BY Zenon DEF Scan
<1>7. ParseRun(at, start, args, c)
  <2> HIDE DEF at
  <2>1. at = [i \in 0 .. Len(args) |-> IF i = 0 THEN start ELSE Parse(at[i - 1], args[i], c)]
    BY <1>5 DEF ParseIs
  <2>2. at[0] = start
    BY <2>1
  <2>3. ASSUME NEW i \in 1 .. Len(args)
        PROVE  at[i] = Parse(at[i - 1], args[i], c)
    <3>1. i \in 0 .. Len(args) /\ i # 0
      OBVIOUS
    <3> QED
      BY <2>1, <3>1, Zenon
  <2> QED
    BY <2>2, <2>3 DEF ParseRun
<1>8. ParseOptions(args, c, files) = Checked(at[Len(args)], args, c)
  <2> HIDE DEF at
  <2> QED BY <1>6, Zenon DEF ParseOptions
<1> QED
  BY <1>7, <1>8

(* No turn changes the configuration.                                      *)
LEMMA ParseKeeps ==
  ASSUME NEW o \in Opts, NEW word \in Words, NEW c
  PROVE  /\ Parse(o, word, c) \in Opts
         /\ Parse(o, word, c).config = o.config /\ Parse(o, word, c).exists = o.exists
  BY ParseTable

(* Its cells are of its type.                                              *)
LEMMA ParseTyped ==
  ASSUME NEW args \in Seq(Words), NEW c, NEW start \in Opts, NEW at,
         ParseRun(at, start, args, c)
  PROVE  \A i \in 0 .. Len(args) :
           at[i] \in Opts /\ at[i].config = start.config /\ at[i].exists = start.exists
<1> DEFINE P(i) == at[i] \in Opts /\ at[i].config = start.config /\ at[i].exists = start.exists
           S == {i \in 0 .. Len(args) : P(i)}
<1>1. P(0)
  BY DEF ParseRun
<1>2. ASSUME NEW i \in 0 .. Len(args) - 1, P(i)
      PROVE  P(i + 1)
  <2>1. i + 1 \in 1 .. Len(args) /\ (i + 1) - 1 = i
    OBVIOUS
  <2>2. at[i + 1] = Parse(at[i], args[i + 1], c)
    BY <2>1 DEF ParseRun
  <2>3. args[i + 1] \in Words
    BY <2>1
  <2>4. at[i] \in Opts
    BY <1>2
  <2>5. /\ Parse(at[i], args[i + 1], c) \in Opts
        /\ Parse(at[i], args[i + 1], c).config = at[i].config
        /\ Parse(at[i], args[i + 1], c).exists = at[i].exists
    BY <2>3, <2>4, ParseKeeps
  <2> QED
    BY <1>2, <2>2, <2>5
<1> QED
  <2>1. 0 .. Len(args) \subseteq S
    <3> HIDE DEF P
    <3>1. 0 \in S /\ \A i \in 0 .. Len(args) - 1 : i \in S => i + 1 \in S
      BY <1>1, <1>2
    <3>2. Len(args) \in Nat
      OBVIOUS
    <3> HIDE DEF S
    <3> QED BY <3>1, <3>2, UpTo
  <2> QED
    BY <2>1

(* An error stays.                                                         *)
LEMMA ErrorStays ==
  ASSUME NEW args \in Seq(Words), NEW c, NEW start, NEW at,
         ParseRun(at, start, args, c), NEW i \in 0 .. Len(args), ~Fine(at[i])
  PROVE  at[Len(args)] = at[i]
<1> DEFINE n == Len(args)
           S == {d \in 0 .. n - i : at[i + d] = at[i]}
<1>0. n \in Nat /\ i \in Nat /\ i <= n
  OBVIOUS
<1>1. 0 \in S
  BY <1>0
<1>2. ASSUME NEW d \in 0 .. n - i - 1, at[i + d] = at[i]
      PROVE  at[i + (d + 1)] = at[i]
  <2>1. i + (d + 1) \in 1 .. n /\ (i + (d + 1)) - 1 = i + d
    BY <1>0
  <2>2. at[i + (d + 1)] = Parse(at[i + d], args[i + (d + 1)], c)
    BY <2>1 DEF ParseRun
  <2> QED
    BY <1>2, <2>2 DEF Parse, Fine
<1> HIDE DEF n
<1>3. 0 .. n - i \subseteq S
  <2>1. n - i \in Nat
    BY <1>0
  <2>2. \A d \in 0 .. n - i - 1 : d \in S => d + 1 \in S
    BY <1>0, <1>2
  <2> HIDE DEF S
  <2> QED BY <1>1, <2>1, <2>2, UpTo
<1>4. n - i \in S /\ i + (n - i) = n
  BY <1>0, <1>3
<1>5. at[n] = at[i]
  BY <1>4
<1> QED
  BY <1>5 DEF n

LEMMA ValuedNames == "" \notin Valued /\ "--" \notin Valued
  BY FlagOf DEF Valued, Dashed, Modal

(* A line that is accepted, k words of it nvault's own.                    *)
Accepts(at, start, args, c, k) ==
  /\ ParseRun(at, start, args, c) /\ \A i \in 0 .. Len(args) : Fine(at[i])
  /\ start \in Opts /\ Idle(start) /\ ~start.over
  /\ OwnEnd(args, k) /\ Fed(args, k)

Feeds(args, i) == i # 0 /\ args[i] \in Valued

OwnState(o, args, i) ==
  /\ ~o.over
  /\ Feeds(args, i) => o.expects = args[i]
  /\ ~Feeds(args, i) => Idle(o)

(* After each of nvault's words, the flag that waits for its value.        *)
LEMMA ParseOwn ==
  ASSUME NEW args \in Seq(Words), NEW c, NEW start, NEW at, NEW k \in Nat,
         Accepts(at, start, args, c, k)
  PROVE  \A i \in 0 .. k : OwnState(at[i], args, i)
<1> DEFINE P(i) == OwnState(at[i], args, i)
           S == {i \in 0 .. k : P(i)}
<1>1. P(0)
  BY DEF Accepts, ParseRun, Feeds, OwnState
<1>2. ASSUME NEW i \in 0 .. k - 1, P(i) PROVE P(i + 1)
  <2>1. /\ i \in 0 .. Len(args) /\ i + 1 \in 1 .. Len(args) /\ (i + 1) - 1 = i
        /\ i + 1 \in 0 .. Len(args) /\ i + 1 \in 1 .. k
    BY DEF Accepts, OwnEnd
  <2>2. at[i + 1] = Parse(at[i], args[i + 1], c)
    BY <2>1 DEF Accepts, ParseRun
  <2>3. at[i] \in Opts
    BY <2>1, ParseTyped DEF Accepts
  <2>4. Fine(at[i]) /\ Fine(at[i + 1])
    BY <2>1 DEF Accepts
  <2>5. args[i + 1] # "--" /\ args[i + 1] \in Words
    BY <2>1 DEF Accepts, OwnEnd
  <2>6. CASE Feeds(args, i)
    <3>1. at[i].expects = args[i] /\ ~at[i].over /\ args[i] \in Words
      BY <1>2, <2>3, <2>6 DEF Opts, OwnState
    <3>2. ~Idle(at[i]) /\ Plain(args[i + 1])
      <4>1. args[i] # ""
        BY <2>6, ValuedNames DEF Feeds
      <4>2. Plain(args[i + 1])
        BY <2>1, <2>6 DEF Feeds, Accepts, Fed
      <4> QED
        BY <3>1, <4>1, <4>2 DEF Idle
    <3>3. at[i + 1] = Take(at[i], args[i], args[i + 1])
      BY <2>2, <2>4, <3>1, <3>2 DEF Parse, Fine, Idle
    <3>4. ~Feeds(args, i + 1)
      BY <3>2 DEF Feeds, Plain, Valued
    <3>5. ~at[i + 1].over /\ Idle(at[i + 1])
      <4>1. /\ Take(at[i], args[i], args[i + 1]).over = at[i].over
            /\ Idle(Take(at[i], args[i], args[i + 1]))
        BY <2>3, <2>5, <3>1, TakeTable
      <4> QED
        BY <3>1, <3>3, <4>1
    <3> QED
      BY <3>4, <3>5 DEF OwnState
  <2>7. CASE ~Feeds(args, i)
    <3>1. Idle(at[i]) /\ ~at[i].over
      BY <1>2, <2>7 DEF OwnState
    <3>2. /\ ~Parse(at[i], args[i + 1], c).over
          /\ args[i + 1] \in Valued => Parse(at[i], args[i + 1], c).expects = args[i + 1]
          /\ args[i + 1] \notin Valued => Idle(Parse(at[i], args[i + 1], c))
      BY <2>2, <2>3, <2>4, <2>5, <3>1, ParseTable
    <3> QED
      BY <2>1, <2>2, <3>2 DEF Feeds, OwnState
  <2> QED
    BY <2>6, <2>7
<1>3. 0 .. k \subseteq S
  <2> HIDE DEF P
  <2>1. 0 \in S /\ \A i \in 0 .. k - 1 : i \in S => i + 1 \in S
    BY <1>1, <1>2
  <2> HIDE DEF S
  <2> QED BY <2>1, UpTo
<1> QED
  BY <1>3

(* One of nvault's words: the value of the flag before it, or not.         *)
LEMMA OwnStep ==
  ASSUME NEW args \in Seq(Words), NEW c, NEW start, NEW at, NEW k \in Nat,
         Accepts(at, start, args, c, k), NEW i \in 0 .. k - 1
  PROVE  /\ Feeds(args, i) => /\ at[i + 1] = Take(at[i], args[i], args[i + 1])
                             /\ Plain(args[i + 1])
         /\ ~Feeds(args, i) =>
              /\ at[i + 1].value = at[i].value /\ at[i + 1].source = at[i].source
              /\ at[i + 1].keyed = at[i].keyed
              /\ at[i + 1].noConfig <=> at[i].noConfig \/ args[i + 1] = "--no-config"
<1>1. /\ i \in 0 .. Len(args) /\ i + 1 \in 1 .. Len(args) /\ (i + 1) - 1 = i
      /\ i + 1 \in 0 .. Len(args) /\ i + 1 \in 1 .. k /\ i \in 0 .. k
  BY DEF Accepts, OwnEnd
<1>2. at[i + 1] = Parse(at[i], args[i + 1], c)
  BY <1>1 DEF Accepts, ParseRun
<1>3. at[i] \in Opts
  BY <1>1, ParseTyped DEF Accepts
<1>4. Fine(at[i]) /\ Fine(at[i + 1])
  BY <1>1 DEF Accepts
<1>5. args[i + 1] # "--" /\ args[i + 1] \in Words
  BY <1>1 DEF Accepts, OwnEnd
<1>6. /\ ~at[i].over
      /\ Feeds(args, i) => at[i].expects = args[i]
      /\ ~Feeds(args, i) => Idle(at[i])
  <2>1. OwnState(at[i], args, i)
    BY <1>1, ParseOwn
  <2> QED
    BY <2>1 DEF OwnState
<1>7. ASSUME Feeds(args, i)
      PROVE  /\ at[i + 1] = Take(at[i], args[i], args[i + 1])
             /\ Plain(args[i + 1])
  <2>1. args[i] # ""
    BY <1>7, ValuedNames DEF Feeds
  <2>2. Plain(args[i + 1])
    BY <1>1, <1>7 DEF Feeds, Accepts, Fed
  <2> QED
    BY <1>2, <1>4, <1>6, <1>7, <2>1, <2>2 DEF Parse, Fine
<1>8. ASSUME ~Feeds(args, i)
      PROVE  /\ at[i + 1].value = at[i].value /\ at[i + 1].source = at[i].source
             /\ at[i + 1].keyed = at[i].keyed
             /\ at[i + 1].noConfig <=> at[i].noConfig \/ args[i + 1] = "--no-config"
  BY <1>2, <1>3, <1>4, <1>5, <1>6, <1>8, ParseTable
<1> QED
  BY <1>7, <1>8

(* Values and sources after nvault's words.                                *)
SettingIs(o, start, args, i, s) ==
  \/ LastIs(args, Flag[s], i, o.value[s]) /\ o.source[s] = "flag"
  \/ /\ NoneIs(args, Flag[s], i)
     /\ o.value[s] = start.value[s] /\ o.source[s] = start.source[s]

(* After each of nvault's words, a setting is what its last flag says.     *)
LEMMA SettingsOwn ==
  ASSUME NEW args \in Seq(Words), NEW c, NEW start, NEW at, NEW k \in Nat,
         Accepts(at, start, args, c, k), NEW s \in Setting
  PROVE  \A i \in 0 .. k : SettingIs(at[i], start, args, i, s)
<1> DEFINE S == {i \in 0 .. k : SettingIs(at[i], start, args, i, s)}
<1>1. 0 \in S
  <2>1. NoneIs(args, Flag[s], 0) /\ at[0] = start
    BY DEF NoneIs, Accepts, ParseRun
  <2> QED
    BY <2>1 DEF SettingIs
<1>2. ASSUME NEW i \in 0 .. k - 1, SettingIs(at[i], start, args, i, s)
      PROVE  SettingIs(at[i + 1], start, args, i + 1, s)
  <2>1. i \in Nat /\ i \in 0 .. Len(args) /\ i + 1 \in 1 .. Len(args) /\ Flag[s] \in Valued
    BY FlagOf DEF Accepts, OwnEnd
  <2>2. at[i] \in Opts /\ args[i + 1] \in Words
    <3>1. at[i] \in Opts
      BY <2>1, ParseTyped DEF Accepts
    <3> QED
      BY <2>1, <3>1
  <2>3. CASE i # 0 /\ args[i] = Flag[s]
    <3>1. Feeds(args, i) /\ args[i] \in Words
      BY <2>1, <2>3 DEF Feeds
    <3>2. at[i + 1] = Take(at[i], args[i], args[i + 1])
      BY <3>1, OwnStep
    <3>3. at[i + 1].value[s] = args[i + 1] /\ at[i + 1].source[s] = "flag"
      BY <2>2, <2>3, <3>1, <3>2, TakeSettings
    <3>4. LastIs(args, Flag[s], i + 1, args[i + 1])
      BY <2>1, <2>3, LastStays
    <3> QED
      BY <3>3, <3>4 DEF SettingIs
  <2>4. CASE i = 0 \/ args[i] # Flag[s]
    <3>1. at[i + 1].value[s] = at[i].value[s] /\ at[i + 1].source[s] = at[i].source[s]
      <4>1. CASE Feeds(args, i)
        <5>1. at[i + 1] = Take(at[i], args[i], args[i + 1]) /\ args[i] \in Words /\ args[i] # Flag[s]
          BY <2>1, <2>4, <4>1, OwnStep DEF Feeds
        <5> QED
          BY <2>2, <5>1, TakeSettings
      <4>2. CASE ~Feeds(args, i)
        BY <4>2, OwnStep
      <4> QED
        BY <4>1, <4>2
    <3>2. /\ LastIs(args, Flag[s], i, at[i].value[s]) => LastIs(args, Flag[s], i + 1, at[i].value[s])
          /\ NoneIs(args, Flag[s], i) => NoneIs(args, Flag[s], i + 1)
      BY <2>1, <2>4, LastStays
    <3> QED
      BY <1>2, <3>1, <3>2 DEF SettingIs
  <2> QED
    BY <2>3, <2>4
<1>3. 0 .. k \subseteq S
  <2>1. \A i \in 0 .. k - 1 : i \in S => i + 1 \in S
    BY <1>2
  <2> HIDE DEF S
  <2> QED BY <1>1, <2>1, UpTo
<1> QED
  BY <1>3

(* The raw key is used until a flag names a file.                          *)
LEMMA KeyedOwn ==
  ASSUME NEW args \in Seq(Words), NEW c, NEW start, NEW at, NEW k \in Nat,
         Accepts(at, start, args, c, k)
  PROVE  \A i \in 0 .. k : NoneIs(args, "--identity", i) => (at[i].keyed <=> start.keyed)
<1> DEFINE P(i) == NoneIs(args, "--identity", i) => (at[i].keyed <=> start.keyed)
           S == {i \in 0 .. k : P(i)}
<1>1. P(0)
  BY DEF Accepts, ParseRun
<1>2. ASSUME NEW i \in 0 .. k - 1, P(i) PROVE P(i + 1)
  <2> SUFFICES ASSUME NoneIs(args, "--identity", i + 1)
               PROVE  at[i + 1].keyed <=> start.keyed
    OBVIOUS
  <2>1. i \in Nat /\ i \in 0 .. Len(args) /\ i + 1 \in 1 .. Len(args)
    BY DEF Accepts, OwnEnd
  <2>2. NoneIs(args, "--identity", i) /\ (i # 0 => args[i] # "--identity")
    BY <2>1 DEF NoneIs
  <2>3. at[i].keyed <=> start.keyed
    BY <1>2, <2>2
  <2>4. at[i] \in Opts /\ args[i + 1] \in Words
    <3>1. at[i] \in Opts
      BY <2>1, ParseTyped DEF Accepts
    <3> QED
      BY <2>1, <3>1
  <2>5. CASE Feeds(args, i)
    <3>1. at[i + 1] = Take(at[i], args[i], args[i + 1]) /\ args[i] \in Words
      BY <2>1, <2>5, OwnStep DEF Feeds
    <3>2. Take(at[i], args[i], args[i + 1]).keyed <=> at[i].keyed /\ args[i] # "--identity"
      BY <2>4, <3>1, TakeKeyed
    <3> QED
      BY <2>2, <2>3, <2>5, <3>1, <3>2 DEF Feeds
  <2>6. CASE ~Feeds(args, i)
    BY <2>3, <2>6, OwnStep
  <2> QED
    BY <2>5, <2>6
<1>3. 0 .. k \subseteq S
  <2> HIDE DEF P
  <2>1. 0 \in S /\ \A i \in 0 .. k - 1 : i \in S => i + 1 \in S
    BY <1>1, <1>2
  <2> HIDE DEF S
  <2> QED BY <2>1, UpTo
<1> QED
  BY <1>3

LEMMA NoConfigOwn ==
  ASSUME NEW args \in Seq(Words), NEW c, NEW start, NEW at, NEW k \in Nat,
         Accepts(at, start, args, c, k)
  PROVE  \A i \in 0 .. k : (\E j \in 1 .. i : args[j] = "--no-config") => at[i].noConfig
<1> DEFINE P(i) == (\E j \in 1 .. i : args[j] = "--no-config") => at[i].noConfig
           S == {i \in 0 .. k : P(i)}
<1>1. P(0)
  OBVIOUS
<1>2. ASSUME NEW i \in 0 .. k - 1, P(i) PROVE P(i + 1)
  <2> SUFFICES ASSUME NEW j \in 1 .. i + 1, args[j] = "--no-config"
               PROVE  at[i + 1].noConfig
    OBVIOUS
  <2>1. i \in Nat /\ i \in 0 .. Len(args) /\ i + 1 \in 1 .. Len(args)
    BY DEF Accepts, OwnEnd
  <2>2. at[i] \in Opts /\ args[i + 1] \in Words
    <3>1. at[i] \in Opts
      BY <2>1, ParseTyped DEF Accepts
    <3> QED
      BY <2>1, <3>1
  <2>3. at[i].noConfig \/ args[i + 1] = "--no-config"
    BY <1>2, <2>1
  <2>4. CASE Feeds(args, i)
    <3>1. /\ at[i + 1] = Take(at[i], args[i], args[i + 1]) /\ args[i] \in Words
          /\ Plain(args[i + 1])
      BY <2>1, <2>4, OwnStep DEF Feeds
    <3>2. Take(at[i], args[i], args[i + 1]).noConfig = at[i].noConfig
      BY <2>2, <3>1, TakeTable
    <3> QED
      BY <2>3, <3>1, <3>2 DEF Plain, Dashed, Modal
  <2>5. CASE ~Feeds(args, i)
    BY <2>3, <2>5, OwnStep
  <2> QED
    BY <2>4, <2>5
<1>3. 0 .. k \subseteq S
  <2> HIDE DEF P
  <2>1. 0 \in S /\ \A i \in 0 .. k - 1 : i \in S => i + 1 \in S
    BY <1>1, <1>2
  <2> HIDE DEF S
  <2> QED BY <2>1, UpTo
<1> QED
  BY <1>3

(* What is behind "--" goes to the child, and nothing else changes.        *)
LEMMA AppendSub ==
  ASSUME NEW args \in Seq(Words), NEW r \in Seq(Words), NEW m \in Nat, NEW i \in Nat,
         1 <= m, m <= i + 1, i + 1 <= Len(args)
  PROVE  r \o SubSeq(args, m, i + 1) = Append(r \o SubSeq(args, m, i), args[i + 1])
<1> DEFINE a == SubSeq(args, m, i + 1)
           b == SubSeq(args, m, i)
<1>1. a \in Seq(Words) /\ Len(a) = i + 2 - m /\ \A j \in 1 .. Len(a) : a[j] = args[m + j - 1]
  OBVIOUS
<1>2. b \in Seq(Words) /\ Len(b) = i + 1 - m /\ \A j \in 1 .. Len(b) : b[j] = args[m + j - 1]
  OBVIOUS
<1>3. args[i + 1] \in Words
  OBVIOUS
<1> HIDE DEF a, b
<1>4. a = Append(b, args[i + 1])
  <2>0. /\ Append(b, args[i + 1]) \in Seq(Words) /\ Len(Append(b, args[i + 1])) = Len(b) + 1
        /\ \A j \in 1 .. Len(b) : Append(b, args[i + 1])[j] = b[j]
        /\ Append(b, args[i + 1])[Len(b) + 1] = args[i + 1]
    <3>1. b \in Seq(Words)
      BY <1>2
    <3> QED
      BY <1>3, <3>1
  <2>1. Append(b, args[i + 1]) \in Seq(Words) /\ Len(Append(b, args[i + 1])) = Len(a)
    BY <1>1, <1>2, <2>0
  <2>2. ASSUME NEW j \in 1 .. Len(a) PROVE a[j] = Append(b, args[i + 1])[j]
    <3>1. CASE j <= Len(b)
      BY <1>1, <1>2, <2>0, <3>1
    <3>2. CASE ~(j <= Len(b))
      <4>1. j = Len(b) + 1 /\ m + j - 1 = i + 1
        BY <1>1, <1>2, <3>2
      <4> QED
        BY <1>1, <1>2, <2>0, <4>1
    <3> QED
      BY <3>1, <3>2
  <2> QED
    BY <1>1, <2>1, <2>2
<1>5. r \o Append(b, args[i + 1]) = Append(r \o b, args[i + 1])
  <2>1. b \in Seq(Words)
    BY <1>2
  <2> QED
    BY <1>3, <2>1, SMTT(30)
<1> QED
  BY <1>4, <1>5 DEF a, b

LEMMA Concatenated ==
  ASSUME NEW r \in Seq(Words)
  PROVE  r \o <<>> = r
  OBVIOUS

SameBut(o, p) ==
  /\ o.value = p.value /\ o.source = p.source /\ o.keyed = p.keyed
  /\ o.only = p.only /\ o.noConfig = p.noConfig

Beyond(at, args, k) ==
  /\ SameBut(at[Len(args)], at[k])
  /\ at[Len(args)].rest = at[k].rest \o SubSeq(args, k + 2, Len(args))

(* What is behind "--" is appended to the positionals, and nothing else    *)
(* changes from there on.                                                  *)
LEMMA ParseBeyond ==
  ASSUME NEW args \in Seq(Words), NEW c, NEW start, NEW at, NEW k \in Nat,
         Accepts(at, start, args, c, k)
  PROVE  Beyond(at, args, k)
<1> DEFINE n == Len(args)
           P(i) == /\ at[i].over /\ SameBut(at[i], at[k])
                   /\ at[i].rest = at[k].rest \o SubSeq(args, k + 2, i)
           S == {i \in 0 .. n : i > k => P(i)}
<1>0. n \in Nat /\ k <= n /\ k \in 0 .. n /\ k \in 0 .. k
  BY DEF Accepts, OwnEnd
<1>1. at[k] \in Opts /\ at[k].rest \in Seq(Words) /\ \A i \in 0 .. n : at[i] \in Opts
  <2>1. \A i \in 0 .. n : at[i] \in Opts
    BY ParseTyped DEF Accepts
  <2>2. at[k] \in Opts
    BY <1>0, <2>1
  <2>3. at[k].rest \in Seq(Words)
    BY <2>2 DEF Opts
  <2> QED
    BY <2>1, <2>2, <2>3
<1>2. at[k].rest \o SubSeq(args, k + 2, k) = at[k].rest
      /\ at[k].rest \o SubSeq(args, k + 2, k + 1) = at[k].rest
  <2>1. SubSeq(args, k + 2, k) = <<>> /\ SubSeq(args, k + 2, k + 1) = <<>>
    OBVIOUS
  <2>2. at[k].rest \o <<>> = at[k].rest
    BY <1>1, Concatenated
  <2> QED
    BY <2>1, <2>2
<1>3. ASSUME k + 1 <= n PROVE P(k + 1)
  <2>1. args[k + 1] = "--" /\ k + 1 \in 1 .. n /\ (k + 1) - 1 = k
    BY <1>0, <1>3 DEF Accepts, OwnEnd
  <2>2. at[k + 1] = Parse(at[k], "--", c)
    BY <2>1 DEF Accepts, ParseRun
  <2>3. ~Feeds(args, k)
    BY <1>0 DEF Feeds, Accepts, Fed
  <2>4. ~at[k].over /\ Idle(at[k])
    <3>1. OwnState(at[k], args, k)
      BY <1>0, ParseOwn
    <3> QED
      BY <2>3, <3>1 DEF OwnState
  <2>5. Fine(at[k])
    BY <1>0 DEF Accepts
  <2>6. at[k + 1] = [at[k] EXCEPT !.over = TRUE]
    BY <2>2, <2>4, <2>5 DEF Parse, Fine, Idle
  <2>7. at[k + 1].over /\ SameBut(at[k + 1], at[k]) /\ at[k + 1].rest = at[k].rest
    BY <1>1, <2>6 DEF SameBut, Opts
  <2> QED
    BY <1>2, <2>7
<1>4. ASSUME NEW i \in 0 .. n - 1, i > k, P(i) PROVE P(i + 1)
  <2>1. i + 1 \in 1 .. n /\ (i + 1) - 1 = i /\ i \in Nat /\ i \in 0 .. n
    BY <1>0
  <2>2. at[i + 1] = Parse(at[i], args[i + 1], c)
    BY <2>1 DEF Accepts, ParseRun
  <2>3. Fine(at[i]) /\ at[i] \in Opts
    BY <1>1, <2>1 DEF Accepts
  <2>4. at[i + 1] = [at[i] EXCEPT !.rest = Append(@, args[i + 1])]
    BY <1>4, <2>2, <2>3 DEF Parse, Fine
  <2>5. /\ at[i + 1].over /\ SameBut(at[i + 1], at[k])
        /\ at[i + 1].rest = Append(at[i].rest, args[i + 1])
    BY <1>4, <2>3, <2>4 DEF SameBut, Opts
  <2>6. at[k].rest \o SubSeq(args, k + 2, i + 1)
          = Append(at[k].rest \o SubSeq(args, k + 2, i), args[i + 1])
    <3>1. k + 2 \in Nat /\ 1 <= k + 2 /\ k + 2 <= i + 1 /\ i + 1 <= Len(args)
      BY <1>0, <1>4, <2>1
    <3> QED
      BY <1>1, <2>1, <3>1, AppendSub
  <2> QED
    BY <1>4, <2>5, <2>6
<1> HIDE DEF n
<1>5. 0 .. n \subseteq S
  <2> HIDE DEF P
  <2>1. 0 \in S /\ \A i \in 0 .. n - 1 : i \in S => i + 1 \in S
    BY <1>0, <1>3, <1>4
  <2> HIDE DEF S
  <2> QED BY <1>0, <2>1, UpTo
<1>6. CASE n = k
  BY <1>2, <1>6 DEF n, SameBut, Beyond
<1>7. CASE n # k
  <2>1. P(n)
    <3>1. n \in 0 .. n /\ n > k
      BY <1>0, <1>7
    <3> HIDE DEF P
    <3> QED BY <1>5, <3>1
  <2> QED
    BY <2>1 DEF n, Beyond
<1> QED
  BY <1>6, <1>7

Bare == {"list", "init", "show", "doctor"}

(* What is accepted in the end was right before, and has a scope.          *)
LEMMA CheckedIs ==
  ASSUME NEW o \in Opts, NEW args, NEW c
  PROVE  /\ ~Fine(o) => Checked(o, args, c) = o
         /\ Fine(Checked(o, args, c)) =>
              /\ Checked(o, args, c) = o /\ Plain(o.value["scope"])
              /\ c \in Bare => o.rest = <<>>
<1> DEFINE wrong ==
        \/ o.expects # ""
        \/ o.value["scope"] \in Dashed \cup {"--", ""}
        \/ o.noConfig /\ \E i \in 1 .. Len(args) - 1 : args[i] = "--config"
        \/ o.all /\ o.only # <<>>
        \/ c \in {"list", "init", "show", "doctor"} /\ o.rest # <<>>
        \/ c = "set" /\ Len(o.rest) # 1
        \/ c = "run" /\ (o.rest = <<>> \/ (~o.all /\ o.only = <<>>))
<1>1. Checked(o, args, c) = IF o.error = "" /\ wrong THEN [o EXCEPT !.error = "line"] ELSE o
  BY DEF Checked
<1>2. ~wrong => Plain(o.value["scope"]) /\ (c \in Bare => o.rest = <<>>)
  BY DEF Plain, Bare
<1> HIDE DEF wrong
<1>3. [o EXCEPT !.error = "line"].error = "line"
  BY DEF Opts
<1> QED
  BY <1>1, <1>2, <1>3 DEF Fine

(* A line without an error, read to its end.                               *)
ReadAs(at, k, start, args, c, o) ==
  /\ Accepts(at, start, args, c, k) /\ OwnPart(args, k)
  /\ o = at[Len(args)] /\ o \in Opts /\ Plain(o.value["scope"])
  /\ c \in Bare => o.rest = <<>>

(* A line that is accepted has been read like this.                        *)
LEMMA Parsed ==
  ASSUME env \in Environments, NEW args \in Seq(Words), NEW c, NEW files \in Files,
         WellFormed(args), Fine(ParseOptions(args, c, files))
  PROVE  \E at : \E k \in Nat :
           ReadAs(at, k, Defaults(args, c, files), args, c, ParseOptions(args, c, files))
<1> DEFINE start == Defaults(args, c, files)
           n == Len(args)
<1>1. start \in Opts /\ Idle(start) /\ ~start.over
  BY StartTyped DEF Idle
<1> HIDE DEF start
<1>2. PICK at : /\ ParseRun(at, start, args, c)
                /\ ParseOptions(args, c, files) = Checked(at[n], args, c)
  <2>1. start = Defaults(args, c, files)
    BY DEF start
  <2> QED
    BY <2>1, ParseRuns
<1>4. at[n] \in Opts
  <2>1. n \in 0 .. n
    OBVIOUS
  <2> QED
    BY <1>1, <1>2, <2>1, ParseTyped
<1>5. /\ Fine(at[n]) /\ ParseOptions(args, c, files) = at[n]
      /\ Plain(at[n].value["scope"])
      /\ c \in Bare => at[n].rest = <<>>
  BY <1>2, <1>4, CheckedIs
<1>6. \A i \in 0 .. n : Fine(at[i])
  BY <1>2, <1>5, ErrorStays
<1>7. PICK k : OwnPart(args, k)
  BY OwnIs
<1>8. k \in Nat
  BY <1>7 DEF OwnPart, OwnEnd
<1>9. Accepts(at, start, args, c, k)
  BY <1>1, <1>2, <1>6, <1>7 DEF Accepts, OwnPart
<1>10. ReadAs(at, k, start, args, c, ParseOptions(args, c, files))
  BY <1>4, <1>5, <1>7, <1>9 DEF ReadAs
<1> QED
  BY <1>8, <1>10 DEF start

(* Everything of a line without positionals, in the terms of the           *)
(* properties.                                                             *)
Gives(o, start, args, s) ==
  \/ /\ Given(args, Flag[s]) # "" /\ Plain(Given(args, Flag[s]))
     /\ o.value[s] = Given(args, Flag[s]) /\ o.source[s] = "flag"
  \/ /\ Given(args, Flag[s]) = ""
     /\ o.value[s] = start.value[s] /\ o.source[s] = start.source[s]

Ends(o, start, args) ==
  /\ o \in Opts /\ start \in Opts /\ Fine(start) /\ Plain(o.value["scope"])
  /\ o.config = start.config /\ o.exists = start.exists
  /\ \A s \in Setting : Gives(o, start, args, s)
  /\ Given(args, "--identity") = "" => (o.keyed <=> start.keyed)
  /\ IgnoresConfig(args) => o.noConfig
  /\ SelectedConfig(args).path = Over(Given(args, "--config"), Over(env.config, "D"))
  /\ SelectedConfig(args).explicit <=> env.config # "" \/ Given(args, "--config") # ""
  /\ (\E i \in DOMAIN args : args[i] = "--config") <=> Given(args, "--config") # ""
  /\ Given(args, "--config") # "" => Plain(Given(args, "--config"))

LEMMA BareLine ==
  ASSUME env \in Environments, NEW args \in Seq(Words), NEW c \in Bare, NEW files \in Files,
         WellFormed(args), Fine(ParseOptions(args, c, files)),
         NEW o, o = ParseOptions(args, c, files),
         NEW start, start = Defaults(args, c, files)
  PROVE  Ends(o, start, args)
<1> DEFINE n == Len(args)
<1>1. PICK at : \E k \in Nat : ReadAs(at, k, start, args, c, o)
  BY Parsed
<1>2. PICK k \in Nat : ReadAs(at, k, start, args, c, o)
  BY <1>1
<1>2a. /\ Accepts(at, start, args, c, k)
       /\ o = at[n] /\ o \in Opts /\ Plain(o.value["scope"]) /\ o.rest = <<>>
  BY <1>2 DEF ReadAs
<1>3. OwnEnd(args, k) /\ Fed(args, k) /\ start \in Opts /\ k \in 0 .. k /\ k \in 0 .. n
  BY <1>2a DEF Accepts, OwnEnd
<1>4. at[k] \in Opts
  BY <1>2a, <1>3, ParseTyped DEF Accepts
<1>5. SameBut(o, at[k]) /\ at[k].rest \o SubSeq(args, k + 2, n) = <<>>
  <2>1. Beyond(at, args, k)
    BY <1>2a, ParseBeyond
  <2> QED
    BY <1>2a, <2>1, Zenon DEF Beyond
<1>6. n <= k + 1
  <2> SUFFICES ASSUME k + 2 <= n PROVE FALSE
    OBVIOUS
  <2>1. SubSeq(args, k + 2, n) \in Seq(Words) /\ Len(SubSeq(args, k + 2, n)) = n - k - 1
    BY <1>3
  <2>2. at[k].rest \in Seq(Words)
    BY <1>4 DEF Opts
  <2>3. Len(at[k].rest \o SubSeq(args, k + 2, n)) = Len(at[k].rest) + (n - k - 1)
    BY <2>1, <2>2
  <2>4. Len(at[k].rest) \in Nat /\ n - k - 1 > 0
    BY <2>2
  <2>5. Len(at[k].rest \o SubSeq(args, k + 2, n)) = 0
    <3>1. Len(<<>>) = 0
      OBVIOUS
    <3> QED
      BY <1>5, <3>1, Zenon
  <2> QED
    BY <2>3, <2>4, <2>5
<1>7. Fine(start)
  <2>1. Fine(at[0]) /\ at[0] = start
    BY <1>2a DEF Accepts, ParseRun
  <2> QED
    BY <2>1
<1>8. o.config = start.config /\ o.exists = start.exists
  <2>1. n \in 0 .. n /\ ParseRun(at, start, args, c)
    BY <1>2a DEF Accepts
  <2>2. at[n].config = start.config /\ at[n].exists = start.exists
    BY <1>3, <2>1, ParseTyped
  <2> QED
    BY <1>2a, <2>2
<1>9. ASSUME NEW s \in Setting PROVE Gives(o, start, args, s)
  <2>1. SettingIs(at[k], start, args, k, s)
    BY <1>2a, <1>3, SettingsOwn
  <2>2. SettingIs(o, start, args, k, s)
    BY <1>5, <2>1 DEF SettingIs, SameBut
  <2>3. Flag[s] \in Valued
    BY FlagOf
  <2>4. /\ \A v : LastIs(args, Flag[s], k, v) => Given(args, Flag[s]) = v /\ Plain(v) /\ v # ""
        /\ NoneIs(args, Flag[s], k) => Given(args, Flag[s]) = ""
    BY <1>3, <1>6, <2>3, GivenIs
  <2> QED
    BY <2>2, <2>4 DEF SettingIs, Gives
<1>10. ASSUME Given(args, "--identity") = "" PROVE o.keyed <=> start.keyed
  <2>1. "--identity" \in Valued
    BY FlagOf DEF Setting
  <2>2. (\E i \in DOMAIN args : args[i] = "--identity") <=> Given(args, "--identity") # ""
    BY <1>3, <1>6, <2>1, GivenIs
  <2>3. NoneIs(args, "--identity", k)
    <3>1. \A m \in 1 .. k - 1 : m \in DOMAIN args
      BY <1>3 DEF OwnEnd
    <3> QED
      BY <1>10, <2>2, <3>1 DEF NoneIs
  <2>4. at[k].keyed <=> start.keyed
    BY <1>2a, <1>3, <2>3, KeyedOwn
  <2> QED
    BY <1>5, <2>4 DEF SameBut
<1>11. ASSUME IgnoresConfig(args) PROVE o.noConfig
  <2>1. PICK i \in DOMAIN args : args[i] = "--no-config" /\ \A j \in 1 .. i : args[j] # "--"
    BY <1>11 DEF IgnoresConfig
  <2>2. i \in 1 .. k
    BY <1>3, <2>1 DEF OwnEnd
  <2>3. at[k].noConfig
    BY <1>2a, <1>3, <2>1, <2>2, NoConfigOwn
  <2> QED
    BY <1>5, <2>3 DEF SameBut
<1>12. /\ SelectedConfig(args).path = Over(Given(args, "--config"), Over(env.config, "D"))
       /\ SelectedConfig(args).explicit <=> env.config # "" \/ Given(args, "--config") # ""
  BY <1>3, <1>6, SelectedIs
<1>13. (\E i \in DOMAIN args : args[i] = "--config") <=> Given(args, "--config") # ""
  <2>1. "--config" \in Valued
    BY DEF Valued, Dashed
  <2> QED
    BY <1>3, <1>6, <2>1, GivenIs
<1>14. Given(args, "--config") # "" => Plain(Given(args, "--config"))
  <2>1. "--config" \in Valued
    BY DEF Valued, Dashed
  <2>2. PICK scan : SelectRun(scan, args)
    BY SelectRuns
  <2>3. k \in 0 .. k
    BY <1>3 DEF OwnEnd
  <2>4. LastIs(args, "--config", k, scan[k].path) \/ NoneIs(args, "--config", k)
    BY <1>3, <2>2, <2>3, SelectOwn
  <2>5. /\ \A v : LastIs(args, "--config", k, v) => Given(args, "--config") = v /\ Plain(v) /\ v # ""
        /\ NoneIs(args, "--config", k) => Given(args, "--config") = ""
    BY <1>3, <1>6, <2>1, GivenIs
  <2> QED
    BY <2>4, <2>5, Zenon
<1> QED
  BY <1>2a, <1>3, <1>7, <1>8, <1>9, <1>10, <1>11, <1>12, <1>13, <1>14 DEF Ends

-----------------------------------------------------------------------------
(* The layers below the flags, setting by setting.                         *)

Conf(o, files) == IF o.exists THEN files[o.config].sets ELSE NoConfig

RawKey(s) == s = "identity" /\ env.key # ""

SourceOf(s, config) ==
  IF RawKey(s) THEN "environment-key"
  ELSE IF env.files[s] # "" THEN "environment"
  ELSE IF config[s] # "" THEN "config"
  ELSE IF s # "passphrase" THEN "default"
  ELSE IF env.secret # "" THEN "environment-secret" ELSE "interactive"

Begins(start, args, files) ==
  /\ start.config = SelectedConfig(args).path
  /\ start.exists <=> ~IgnoresConfig(args) /\ files[start.config].is = "valid"
  /\ start.keyed <=> env.key # ""
  /\ \A s \in Setting :
       /\ start.value[s] = IF RawKey(s) THEN ""
                          ELSE Over(env.files[s], Over(Conf(start, files)[s], Default[s]))
       /\ start.source[s] = SourceOf(s, Conf(start, files))

(* localDefaults, setting by setting.                                      *)
LEMMA StartIs ==
  ASSUME env \in Environments, NEW args \in Seq(Words), NEW c, NEW files \in Files,
         NEW start, start = Defaults(args, c, files)
  PROVE  Begins(start, args, files)
<1> DEFINE selected == SelectedConfig(args)
           ignored == IgnoresConfig(args)
           file == files[selected.path]
           exists == ~ignored /\ file.is = "valid"
           config == IF exists THEN file.sets ELSE NoConfig
           below == [s \in Setting |-> Over(config[s], Default[s])]
<1>1. start.config = selected.path
  BY DEF Defaults, Layers
<1>2. start.exists <=> exists
  BY DEF Defaults, Layers
<1>3. start.keyed <=> env.key # ""
  BY DEF Defaults, Layers
<1>4. start.value = [s \in Setting |->
         IF s = "identity" /\ env.key # "" THEN "" ELSE Over(env.files[s], below[s])]
  BY DEF Defaults, Layers
<1>5. start.source = [s \in Setting |-> SourceOf(s, config)]
  BY DEF Defaults, Layers, SourceOf, RawKey
<1>6. Conf(start, files) = config
  BY <1>1, <1>2 DEF Conf
<1> HIDE DEF config
<1>7. \A s \in Setting : below[s] = Over(config[s], Default[s])
  OBVIOUS
<1> HIDE DEF below
<1>8. \A s \in Setting :
        /\ start.value[s] = IF RawKey(s) THEN "" ELSE Over(env.files[s], Over(config[s], Default[s]))
        /\ start.source[s] = SourceOf(s, config)
  BY <1>4, <1>5, <1>7 DEF RawKey
<1> QED
  BY <1>1, <1>2, <1>3, <1>6, <1>8 DEF Begins

(* And its error.                                                          *)
LEMMA StartError ==
  ASSUME env \in Environments, NEW args \in Seq(Words), NEW c, NEW files,
         NEW start, start = Defaults(args, c, files)
  PROVE  start.error =
           IF SelectedConfig(args).error # "" THEN SelectedConfig(args).error
           ELSE IF /\ ~IgnoresConfig(args)
                   /\ \/ files[SelectedConfig(args).path].is = "broken"
                      \/ /\ files[SelectedConfig(args).path].is = "missing"
                         /\ SelectedConfig(args).explicit /\ ~Reports(c)
                THEN "config" ELSE ""
  BY DEF Defaults, Layers

(* The first of the words that is not "".                                  *)
Unset(word) == word = ""

LEMMA HighestIs ==
  ASSUME NEW words, NEW n \in Nat, DOMAIN words = 1 .. n
  PROVE  /\ \A x \in 1 .. n :
              ~Unset(words[x]) /\ (\A j \in 1 .. n : j < x => Unset(words[j]))
                => Highest(words) = words[x]
         /\ (\A j \in 1 .. n : Unset(words[j])) => Highest(words) = ""
<1> DEFINE set == {i \in DOMAIN words : words[i] # ""}
<1>0. set = {i \in 1 .. n : ~Unset(words[i])}
  BY DEF Unset
<1>1. ASSUME NEW x \in 1 .. n, ~Unset(words[x]), \A j \in 1 .. n : j < x => Unset(words[j])
      PROVE  Highest(words) = words[x]
  <2> HIDE DEF set
  <2>1. x \in set
    BY <1>0, <1>1
  <2>2. \A j \in set : x <= j /\ j \in Nat
    BY <1>0, <1>1
  <2>3. (CHOOSE i \in set : \A j \in set : i <= j) = x
    <3>1. \A i \in set : (\A j \in set : i <= j) => i = x
      BY <2>1, <2>2
    <3>2. \A j \in set : x <= j
      BY <2>2
    <3> QED BY <2>1, <3>1, <3>2
  <2>4. set # {}
    BY <2>1
  <2> QED
    BY <2>3, <2>4 DEF Highest, set
<1>2. ASSUME \A j \in 1 .. n : Unset(words[j])
      PROVE  Highest(words) = ""
  <2>1. set = {}
    <3> HIDE DEF set
    <3> QED BY <1>0, <1>2
  <2> QED
    BY <2>1 DEF Highest
<1> QED
  BY <1>1, <1>2

(* Of three or four, it is what Over makes of them.                        *)
LEMMA HighestOf3 ==
  ASSUME NEW a, NEW b, NEW c
  PROVE  Highest(<<a, b, c>>) = Over(a, Over(b, c))
<1> DEFINE words == <<a, b, c>>
<1>1. DOMAIN words = 1 .. 3 /\ words[1] = a /\ words[2] = b /\ words[3] = c
  OBVIOUS
<1> HIDE DEF words
<1>2. /\ \A x \in {1, 2, 3} :
           ~Unset(words[x]) /\ (\A j \in {1, 2, 3} : j < x => Unset(words[j]))
             => Highest(words) = words[x]
      /\ (\A j \in {1, 2, 3} : Unset(words[j])) => Highest(words) = ""
  <2>1. 1 .. 3 = {1, 2, 3}
    OBVIOUS
  <2>2. /\ \A x \in 1 .. 3 :
             ~Unset(words[x]) /\ (\A j \in 1 .. 3 : j < x => Unset(words[j]))
               => Highest(words) = words[x]
        /\ (\A j \in 1 .. 3 : Unset(words[j])) => Highest(words) = ""
    BY <1>1, HighestIs
  <2> QED
    BY <2>1, <2>2, Zenon
<1>3. ~Unset(a) => Highest(words) = a
  <2>1. \A j \in {1, 2, 3} : j < 1 => Unset(words[j])
    BY <1>1
  <2> QED
    BY <1>1, <1>2, <2>1, Zenon
<1>4. Unset(a) /\ ~Unset(b) => Highest(words) = b
  <2>1. Unset(a) => \A j \in {1, 2, 3} : j < 2 => Unset(words[j])
    BY <1>1
  <2> QED
    BY <1>1, <1>2, <2>1, Zenon
<1>5. Unset(a) /\ Unset(b) /\ ~Unset(c) => Highest(words) = c
  <2>1. Unset(a) /\ Unset(b) => \A j \in {1, 2, 3} : j < 3 => Unset(words[j])
    BY <1>1
  <2> QED
    BY <1>1, <1>2, <2>1, Zenon
<1>6. Unset(a) /\ Unset(b) /\ Unset(c) => Highest(words) = ""
  BY <1>1, <1>2
<1>7. Highest(words) = Over(a, Over(b, c))
  BY <1>3, <1>4, <1>5, <1>6, Zenon DEF Over, Unset
<1> QED
  BY <1>7 DEF words

LEMMA HighestOf4 ==
  ASSUME NEW a, NEW b, NEW c, NEW d
  PROVE  Highest(<<a, b, c, d>>) = Over(a, Over(b, Over(c, d)))
<1> DEFINE words == <<a, b, c, d>>
<1>1. DOMAIN words = 1 .. 4 /\ words[1] = a /\ words[2] = b /\ words[3] = c /\ words[4] = d
  OBVIOUS
<1> HIDE DEF words
<1>2. /\ \A x \in {1, 2, 3, 4} :
           ~Unset(words[x]) /\ (\A j \in {1, 2, 3, 4} : j < x => Unset(words[j]))
             => Highest(words) = words[x]
      /\ (\A j \in {1, 2, 3, 4} : Unset(words[j])) => Highest(words) = ""
  <2>1. 1 .. 4 = {1, 2, 3, 4}
    OBVIOUS
  <2>2. /\ \A x \in 1 .. 4 :
             ~Unset(words[x]) /\ (\A j \in 1 .. 4 : j < x => Unset(words[j]))
               => Highest(words) = words[x]
        /\ (\A j \in 1 .. 4 : Unset(words[j])) => Highest(words) = ""
    BY <1>1, HighestIs
  <2> QED
    BY <2>1, <2>2, Zenon
<1>3. ~Unset(a) => Highest(words) = a
  <2>1. \A j \in {1, 2, 3, 4} : j < 1 => Unset(words[j])
    BY <1>1
  <2> QED
    BY <1>1, <1>2, <2>1, Zenon
<1>4. Unset(a) /\ ~Unset(b) => Highest(words) = b
  <2>1. Unset(a) => \A j \in {1, 2, 3, 4} : j < 2 => Unset(words[j])
    BY <1>1
  <2> QED
    BY <1>1, <1>2, <2>1, Zenon
<1>5. Unset(a) /\ Unset(b) /\ ~Unset(c) => Highest(words) = c
  <2>1. Unset(a) /\ Unset(b) => \A j \in {1, 2, 3, 4} : j < 3 => Unset(words[j])
    BY <1>1
  <2> QED
    BY <1>1, <1>2, <2>1, Zenon
<1>6. Unset(a) /\ Unset(b) /\ Unset(c) /\ ~Unset(d) => Highest(words) = d
  <2>1. Unset(a) /\ Unset(b) /\ Unset(c) => \A j \in {1, 2, 3, 4} : j < 4 => Unset(words[j])
    BY <1>1
  <2> QED
    BY <1>1, <1>2, <2>1, Zenon
<1>7. Unset(a) /\ Unset(b) /\ Unset(c) /\ Unset(d) => Highest(words) = ""
  BY <1>1, <1>2
<1>8. Highest(words) = Over(a, Over(b, Over(c, d)))
  BY <1>3, <1>4, <1>5, <1>6, <1>7, Zenon DEF Over, Unset
<1> QED
  BY <1>8 DEF words

-----------------------------------------------------------------------------
(* The command that was invoked, and its result.                           *)

Ran ==
  /\ env \in Environments /\ disk \in Disks
  /\ \/ command = "none"
     \/ \E args \in Lines :
          /\ line = args
          /\ \/ command = "list" /\ result = Options(args, "list")
             \/ command = "run" /\ result = Options(args, "run")
             \/ command = "show" /\ result = Options(args, "show")
             \/ command = "doctor" /\ result = Diagnosis(Options(args, "doctor"))
             \/ command = "init" /\ result = Setup(Options(args, "init"), args)
             \/ command = "decrypt" /\ result = Crypto(args)

(* What is read of the environment and the disk stays what it is.          *)
LEMMA OptionsStay ==
  ASSUME env' = env, disk' = disk, NEW args, NEW c
  PROVE  Options(args, c)' = Options(args, c)
<1>1. SelectStart' = SelectStart
  BY DEF SelectStart
<1>2. SelectedConfig(args)' = SelectedConfig(args)
  BY <1>1, Zenon DEF SelectedConfig
<1>3. Defaults(args, c, disk.configs)' = Defaults(args, c, disk.configs)
  BY <1>2 DEF Defaults, Layers
<1> QED
  BY <1>3, Zenon DEF Options, ParseOptions, Scan

LEMMA ResultsStay ==
  ASSUME env' = env, disk' = disk, NEW args
  PROVE  /\ Diagnosis(Options(args, "doctor"))' = Diagnosis(Options(args, "doctor"))
         /\ Setup(Options(args, "init"), args)' = Setup(Options(args, "init"), args)
         /\ Crypto(args)' = Crypto(args)
<1>1. /\ Options(args, "doctor")' = Options(args, "doctor")
      /\ Options(args, "init")' = Options(args, "init")
  BY OptionsStay
<1>2. ASSUME NEW o PROVE Diagnosis(o)' = Diagnosis(o)
  <2>1. ASSUME NEW i, NEW p PROVE LoadIdentity(o.value["identity"], TRUE, p, i)' = LoadIdentity(o.value["identity"], TRUE, p, i)
    BY Zenon DEF LoadIdentity, Passphrase
  <2>2. Opened(o, disk.identities, disk.stores)' = Opened(o, disk.identities, disk.stores)
    BY Zenon DEF Opened, LoadIdentity, Passphrase
  <2> QED
    BY <2>2, Zenon DEF Diagnosis
<1>3. Setup(Options(args, "init"), args)' = Setup(Options(args, "init"), args)
  BY <1>1, Zenon DEF Setup, SameSelection, Passphrase
<1>4. Crypto(args)' = Crypto(args)
  BY ZenonT(40) DEF Crypto, LoadIdentity, Passphrase
<1>5. Diagnosis(Options(args, "doctor"))' = Diagnosis(Options(args, "doctor"))
  BY <1>1, <1>2
<1> QED
  BY <1>3, <1>4, <1>5

(* Every result is the one that its command has for this line.             *)
LEMMA RanAlways == Spec => []Ran
<1>1. Init => Ran
  BY DEF Init, Ran
<1>2. ASSUME Ran, [Next]_vars PROVE Ran'
  <2>1. CASE UNCHANGED vars
    <3>1. env' = env /\ disk' = disk /\ line' = line /\ command' = command /\ result' = result
      BY <2>1 DEF vars
    <3> QED
      BY <1>2, <3>1, OptionsStay, ResultsStay DEF Ran
  <2>2. CASE Next
    <3>1. PICK args \in Lines : \/ List(args) \/ Run(args) \/ Show(args) \/ Doctor(args)
                               \/ Initialize(args) \/ Decrypt(args)
      BY <2>2 DEF Next
    <3>2. env' = env /\ disk' = disk /\ line' = args
      BY <3>1 DEF List, Run, Show, Doctor, Initialize, Decrypt, Invoke
    <3> QED
      BY <1>2, <3>1, <3>2, OptionsStay, ResultsStay
      DEF Ran, List, Run, Show, Doctor, Initialize, Decrypt, Invoke
  <2> QED
    BY <1>2, <2>1, <2>2
<1> QED
  BY <1>1, <1>2, PTL DEF Spec

(* What is known of a state in which a command has run.                    *)
LEMMA RanAs ==
  ASSUME Ran, command # "none"
  PROVE  /\ env \in Environments /\ disk \in Disks /\ disk.configs \in Files
         /\ line \in Seq(Words)
         /\ command = "list" => result = Options(line, "list")
         /\ command = "run" => result = Options(line, "run")
         /\ command = "show" => result = Options(line, "show")
         /\ command = "doctor" => result = Diagnosis(Options(line, "doctor"))
         /\ command = "init" => result = Setup(Options(line, "init"), line)
         /\ command = "decrypt" => result = Crypto(line)
<1>1. env \in Environments /\ disk \in Disks
  BY DEF Ran
<1>2. line \in Lines
  BY DEF Ran
<1>3. line \in Seq(Words)
  BY <1>2, LineAssumption DEF Words
<1>4. disk.configs \in [Word -> Configurations]
  BY <1>1, DiskAssumption
<1>5. Configurations \subseteq [is : {"valid", "broken", "missing"}, sets : [Setting -> Words]]
  BY DEF Configurations, Words
<1>6. disk.configs \in Files
  BY <1>4, <1>5 DEF Files
<1> QED
  BY <1>1, <1>3, <1>6 DEF Ran

-----------------------------------------------------------------------------
(* The highest of the values given for a setting wins.                     *)

(* What the layers give a setting of a line without positionals.           *)
SettingFrom(o, args, files, s) ==
  /\ Given(args, Flag[s]) # "" =>
       o.value[s] = Given(args, Flag[s]) /\ o.source[s] = "flag"
  /\ Given(args, Flag[s]) = "" =>
       /\ o.value[s] = IF RawKey(s) THEN ""
                       ELSE Over(env.files[s], Over(Conf(o, files)[s], Default[s]))
       /\ o.source[s] = SourceOf(s, Conf(o, files))

LEMMA Layered ==
  ASSUME env \in Environments, NEW args \in Seq(Words), NEW c \in Bare, NEW files \in Files,
         WellFormed(args), Fine(ParseOptions(args, c, files)),
         NEW o, o = ParseOptions(args, c, files), NEW s \in Setting
  PROVE  SettingFrom(o, args, files, s)
<1>0. PICK start : start = Defaults(args, c, files)
  OBVIOUS
<1>0a. Ends(o, start, args) /\ Begins(start, args, files)
  BY <1>0, BareLine, StartIs
<1>1. /\ o.config = start.config /\ o.exists = start.exists
      /\ Gives(o, start, args, s)
  BY <1>0a, Zenon DEF Ends
<1>2. Conf(o, files) = Conf(start, files)
  BY <1>1 DEF Conf
<1>3. /\ start.value[s] = IF RawKey(s) THEN ""
                          ELSE Over(env.files[s], Over(Conf(start, files)[s], Default[s]))
      /\ start.source[s] = SourceOf(s, Conf(start, files))
  BY <1>0a, Zenon DEF Begins
<1> QED
  BY <1>1, <1>2, <1>3, Zenon DEF Gives, SettingFrom

(* Of flag, environment, configuration and default, the first that says    *)
(* something decides each setting that an accepted list reads: the three   *)
(* loops and localDefaults agree on the order.                             *)
THEOREM PrecedenceHolds == Spec => []Precedence
<1>1. ASSUME Ran, Accepted("list") PROVE Precedence
  <2>0. PICK start : start = Defaults(line, "list", disk.configs)
    OBVIOUS
  <2>1. command = "list" /\ WellFormed(line) /\ result.error = ""
    BY <1>1 DEF Accepted
  <2>2. /\ env \in Environments /\ disk.configs \in Files /\ line \in Seq(Words)
        /\ result = ParseOptions(line, "list", disk.configs)
    BY <1>1, <2>1, RanAs DEF Options
  <2>3. Fine(ParseOptions(line, "list", disk.configs))
    BY <2>1, <2>2 DEF Fine
  <2>4. "list" \in Bare
    BY DEF Bare
  <2>5. /\ result.config = start.config
        /\ Given(line, "--identity") = "" => (result.keyed <=> start.keyed)
        /\ SelectedConfig(line).path = Over(Given(line, "--config"), Over(env.config, "D"))
    <3>1. Ends(result, start, line)
      BY <2>0, <2>1, <2>2, <2>3, <2>4, BareLine
    <3> QED
      BY <3>1, Zenon DEF Ends
  <2>6. start.config = SelectedConfig(line).path /\ (start.keyed <=> env.key # "")
    <3>1. Begins(start, line, disk.configs)
      BY <2>0, <2>2, StartIs
    <3> QED
      BY <3>1, Zenon DEF Begins
  <2>7. result.config = Highest(<<Given(line, "--config"), env.config, "D">>)
    BY <2>5, <2>6, HighestOf3
  <2>8. ASSUME NEW s \in Setting
        PROVE  IF s = "identity" /\ env.key # "" /\ Given(line, Flag[s]) = ""
               THEN result.keyed
               ELSE result.value[s] =
                      Highest(<<Given(line, Flag[s]), env.files[s], Configured[s], Default[s]>>)
    <3>1. /\ Given(line, Flag[s]) # "" => result.value[s] = Given(line, Flag[s])
          /\ Given(line, Flag[s]) = "" =>
               result.value[s] = IF RawKey(s) THEN ""
                                 ELSE Over(env.files[s], Over(Configured[s], Default[s]))
      <4>1. Configured = Conf(result, disk.configs)
        BY DEF Configured, Conf
      <4>2. SettingFrom(result, line, disk.configs, s)
        BY <2>1, <2>2, <2>3, <2>4, Layered
      <4> QED
        BY <4>1, <4>2, Zenon DEF SettingFrom
    <3>2. CASE RawKey(s) /\ Given(line, Flag[s]) = ""
      BY <2>5, <2>6, <3>2, FlagOf, Zenon DEF RawKey
    <3>3. CASE ~(RawKey(s) /\ Given(line, Flag[s]) = "")
      <4>1. result.value[s] = Over(Given(line, Flag[s]),
                                   Over(env.files[s], Over(Configured[s], Default[s])))
        BY <3>1, <3>3, Zenon DEF Over
      <4>2. result.value[s] =
              Highest(<<Given(line, Flag[s]), env.files[s], Configured[s], Default[s]>>)
        BY <4>1, HighestOf4
      <4> QED
        BY <3>3, <4>2, Zenon DEF RawKey
    <3> QED
      BY <3>2, <3>3
  <2> QED
    BY <2>7, <2>8 DEF Precedence
<1>2. Ran => Precedence
  BY <1>1 DEF Precedence
<1> QED
  BY <1>2, RanAlways, PTL

-----------------------------------------------------------------------------
(* Nothing after "--" is nvault's, and all of it is the child's.           *)

(* Two runs of the loop from the same start, over lines that begin alike.  *)
Alike(c1, c2) == \A o, word : Parse(o, word, c1) = Parse(o, word, c2)

LEMMA Lockstep ==
  ASSUME NEW a1 \in Seq(Words), NEW a2 \in Seq(Words), NEW c1, NEW c2, Alike(c1, c2),
         NEW start, NEW at, NEW bt, ParseRun(at, start, a1, c1), ParseRun(bt, start, a2, c2),
         NEW k \in Nat, k <= Len(a1), k <= Len(a2), \A i \in 1 .. k : a1[i] = a2[i]
  PROVE  at[k] = bt[k]
<1> DEFINE S == {i \in 0 .. k : bt[i] = at[i]}
<1>1. 0 \in S
  BY DEF ParseRun
<1>2. ASSUME NEW i \in 0 .. k - 1, bt[i] = at[i] PROVE bt[i + 1] = at[i + 1]
  <2>1. i + 1 \in 1 .. k /\ i + 1 \in 1 .. Len(a1) /\ i + 1 \in 1 .. Len(a2) /\ (i + 1) - 1 = i
    OBVIOUS
  <2>2. at[i + 1] = Parse(at[i], a1[i + 1], c1)
    BY <2>1 DEF ParseRun
  <2>3. bt[i + 1] = Parse(bt[i], a2[i + 1], c2)
    BY <2>1 DEF ParseRun
  <2> QED
    BY <1>2, <2>1, <2>2, <2>3 DEF Alike
<1>3. 0 .. k \subseteq S
  <2>1. \A i \in 0 .. k - 1 : i \in S => i + 1 \in S
    BY <1>2
  <2> HIDE DEF S
  <2> QED BY <1>1, <2>1, UpTo
<1> QED
  BY <1>3

(* The checks of the whole line only make an error.                        *)
LEMMA CheckedKeeps ==
  ASSUME NEW o \in Opts, NEW args, NEW c, NEW checked, checked = Checked(o, args, c)
  PROVE  /\ checked.config = o.config /\ checked.value = o.value
         /\ checked.source = o.source /\ checked.only = o.only /\ checked.rest = o.rest
<1>1. checked = [o EXCEPT !.error = "line"] \/ checked = o
  BY Zenon DEF Checked
<1> QED
  BY <1>1 DEF Opts

(* --no-config behind "--" is not nvault's.                                *)
LEMMA IgnoresOwn ==
  ASSUME NEW args \in Seq(Words), NEW k, OwnEnd(args, k)
  PROVE  IgnoresConfig(SubSeq(args, 1, k)) = IgnoresConfig(args)
<1> DEFINE own == SubSeq(args, 1, k)
<1>1. own \in Seq(Words) /\ Len(own) = k /\ k \in Nat /\ \A i \in 1 .. k : own[i] = args[i]
  BY DEF OwnEnd
<1> HIDE DEF own
<1>2. ASSUME IgnoresConfig(own) PROVE IgnoresConfig(args)
  <2>1. PICK i \in DOMAIN own : own[i] = "--no-config" /\ \A j \in 1 .. i : own[j] # "--"
    BY <1>2 DEF IgnoresConfig
  <2>2. i \in 1 .. k /\ i \in DOMAIN args /\ \A j \in 1 .. i : j \in 1 .. k
    BY <1>1, <2>1 DEF OwnEnd
  <2>3. args[i] = "--no-config" /\ \A j \in 1 .. i : args[j] # "--"
    BY <1>1, <2>1, <2>2
  <2> QED
    BY <2>2, <2>3 DEF IgnoresConfig
<1>3. ASSUME IgnoresConfig(args) PROVE IgnoresConfig(own)
  <2>1. PICK i \in DOMAIN args : args[i] = "--no-config" /\ \A j \in 1 .. i : args[j] # "--"
    BY <1>3 DEF IgnoresConfig
  <2>2. i \in 1 .. k
    BY <2>1 DEF OwnEnd
  <2>3. i \in DOMAIN own /\ own[i] = "--no-config" /\ \A j \in 1 .. i : own[j] # "--"
    BY <1>1, <2>1, <2>2
  <2> QED
    BY <2>3 DEF IgnoresConfig
<1>4. IgnoresConfig(own) = IgnoresConfig(args)
  BY <1>2, <1>3 DEF IgnoresConfig
<1> QED
  BY <1>4 DEF own

(* The words after "--" reach the child in their order and all of them,    *)
(* and without them nvault has read the same configuration, settings and   *)
(* selection: nothing after "--" is an option of its own.                  *)
THEOREM ChildsOwnHolds == Spec => []ChildsOwn
<1>1. ASSUME Ran, Accepted("run"), Own(line) # line PROVE ChildsOwn
  <2>1. command = "run" /\ WellFormed(line) /\ result.error = ""
    BY <1>1 DEF Accepted
  <2>2. /\ env \in Environments /\ disk.configs \in Files /\ line \in Seq(Words)
        /\ result = ParseOptions(line, "run", disk.configs)
    BY <1>1, <2>1, RanAs DEF Options
  <2>3. Fine(ParseOptions(line, "run", disk.configs))
    BY <2>1, <2>2 DEF Fine
  <2>4. PICK start : start = Defaults(line, "run", disk.configs)
    OBVIOUS
  <2>5. PICK at : \E k \in Nat : ReadAs(at, k, start, line, "run", result)
    BY <2>1, <2>2, <2>3, <2>4, Parsed
  <2>5a. PICK k \in Nat : ReadAs(at, k, start, line, "run", result)
    BY <2>5
  <2>6. /\ Accepts(at, start, line, "run", k) /\ OwnEnd(line, k) /\ Fed(line, k)
        /\ ParseRun(at, start, line, "run") /\ start \in Opts
        /\ Own(line) = SubSeq(line, 1, k) /\ Len(Own(line)) = k /\ k <= Len(line)
        /\ result = at[Len(line)]
    <3>1. /\ Accepts(at, start, line, "run", k) /\ OwnPart(line, k)
          /\ result = at[Len(line)]
      BY <2>5a DEF ReadAs
    <3>2. OwnEnd(line, k) /\ Own(line) = SubSeq(line, 1, k) /\ Len(Own(line)) = k
      BY <3>1 DEF OwnPart
    <3>3. k <= Len(line)
      BY <3>2 DEF OwnEnd
    <3> QED
      BY <3>1, <3>2, <3>3 DEF Accepts
  <2>7. PICK own : own = Own(line)
    OBVIOUS
  <2>8. own \in Seq(Words) /\ Len(own) = k /\ \A i \in 1 .. k : own[i] = line[i]
    BY <2>2, <2>6, <2>7 DEF OwnEnd
  <2>9. start = Defaults(own, "run", disk.configs)
    BY <2>2, <2>4, <2>6, <2>7, SelectOwnOnly, IgnoresOwn DEF Defaults
  <2>10. PICK bt : /\ ParseRun(bt, start, own, "run")
                   /\ ParseOptions(own, "run", disk.configs) = Checked(bt[Len(own)], own, "run")
    BY <2>8, <2>9, ParseRuns
  <2>11. at[k] = bt[k]
    <3>1. Alike("run", "run")
      BY Zenon DEF Alike
    <3>2. line \in Seq(Words) /\ k <= Len(line) /\ ParseRun(at, start, line, "run")
      BY <2>2, <2>6
    <3>3. /\ own \in Seq(Words) /\ k <= Len(own) /\ ParseRun(bt, start, own, "run")
          /\ \A i \in 1 .. k : line[i] = own[i]
      BY <2>8, <2>10
    <3> QED
      BY <3>1, <3>2, <3>3, Lockstep
  <2>12. at[k] \in Opts /\ at[k].config = start.config /\ result.config = start.config
    <3>1. k \in 0 .. Len(line) /\ Len(line) \in 0 .. Len(line)
      BY <2>2, <2>6 DEF OwnEnd
    <3>2. \A i \in 0 .. Len(line) :
            at[i] \in Opts /\ at[i].config = start.config /\ at[i].exists = start.exists
      BY <2>2, <2>6, ParseTyped
    <3> QED
      BY <2>6, <3>1, <3>2
  <2>13. /\ SameBut(result, at[k])
         /\ result.rest = at[k].rest \o SubSeq(line, k + 2, Len(line))
    <3>1. line \in Seq(Words) /\ Accepts(at, start, line, "run", k)
      BY <2>2, <2>6
    <3>2. Beyond(at, line, k)
      BY <3>1, ParseBeyond
    <3>3. result = at[Len(line)]
      BY <2>6
    <3> QED
      BY <3>2, <3>3, Zenon DEF Beyond
  <2>14. PICK alone : alone = Options(own, "run")
    OBVIOUS
  <2>15. /\ alone.config = at[k].config /\ alone.value = at[k].value
         /\ alone.source = at[k].source /\ alone.only = at[k].only /\ alone.rest = at[k].rest
    BY <2>8, <2>10, <2>11, <2>12, <2>14, CheckedKeeps DEF Options
  <2> QED
    BY <2>6, <2>7, <2>12, <2>13, <2>14, <2>15 DEF ChildsOwn, SameBut
<1>2. Ran => ChildsOwn
  BY <1>1 DEF ChildsOwn
<1> QED
  BY <1>2, RanAlways, PTL

-----------------------------------------------------------------------------
(* list, config show and doctor read a line alike.                         *)

Readers == {"list", "show", "doctor"}

(* No flag is taken by one of them and refused by another.                 *)
LEMMA ReadersAlike ==
  ASSUME NEW c1 \in Readers, NEW c2 \in Readers
  PROVE  Alike(c1, c2)
<1>1. \A flag \in Modal : Allows(c1, flag) = Allows(c2, flag)
  BY DEF Readers, Modal, Allows
<1>2. ASSUME NEW o, NEW word PROVE Parse(o, word, c1) = Parse(o, word, c2)
  <2>1. (word \in Modal /\ ~Allows(c1, word)) = (word \in Modal /\ ~Allows(c2, word))
    BY <1>1
  <2> QED
    BY <2>1, Zenon DEF Parse
<1> QED
  BY <1>2 DEF Alike

(* They have the same options, but that list stops where a configuration   *)
(* that is named is missing.                                               *)
LEMMA SameOptions ==
  ASSUME env \in Environments, NEW args \in Seq(Words), NEW files \in Files,
         NEW c1 \in Readers, NEW c2 \in Readers,
         Defaults(args, c1, files).error = Defaults(args, c2, files).error
  PROVE  ParseOptions(args, c1, files) = ParseOptions(args, c2, files)
<1>1. PICK start : start = Defaults(args, c1, files)
  OBVIOUS
<1>2. start = Defaults(args, c2, files)
  <2>1. PICK e1 : e1 = Defaults(args, c1, files).error
    OBVIOUS
  <2>2. Defaults(args, c1, files) = Defaults(args, c2, files)
    BY StartError, Zenon DEF Defaults, Layers
  <2> QED
    BY <1>1, <2>2
<1>3. PICK at : /\ ParseRun(at, start, args, c1)
                /\ ParseOptions(args, c1, files) = Checked(at[Len(args)], args, c1)
  BY <1>1, ParseRuns
<1>4. PICK bt : /\ ParseRun(bt, start, args, c2)
                /\ ParseOptions(args, c2, files) = Checked(bt[Len(args)], args, c2)
  BY <1>2, ParseRuns
<1>5. at[Len(args)] = bt[Len(args)]
  <2>1. Alike(c1, c2) /\ Len(args) \in Nat
    BY ReadersAlike
  <2> QED
    BY <1>3, <1>4, <2>1, Lockstep
<1>6. ASSUME NEW o PROVE Checked(o, args, c1) = Checked(o, args, c2)
  <2>1. /\ c1 \in {"list", "init", "show", "doctor"} /\ c1 # "set" /\ c1 # "run"
        /\ c2 \in {"list", "init", "show", "doctor"} /\ c2 # "set" /\ c2 # "run"
    BY DEF Readers
  <2> QED
    BY <2>1, Zenon DEF Checked
<1> QED
  BY <1>3, <1>4, <1>5, <1>6

(* A line that is accepted has started without an error.                   *)
LEMMA StartFine ==
  ASSUME env \in Environments, NEW args \in Seq(Words), NEW c, NEW files \in Files,
         Fine(ParseOptions(args, c, files))
  PROVE  Fine(Defaults(args, c, files))
<1>1. PICK start : start = Defaults(args, c, files)
  OBVIOUS
<1>2. start \in Opts
  BY <1>1, StartTyped
<1>3. PICK at : /\ ParseRun(at, start, args, c)
                /\ ParseOptions(args, c, files) = Checked(at[Len(args)], args, c)
  BY <1>1, ParseRuns
<1>4. at[Len(args)] \in Opts
  <2>1. Len(args) \in 0 .. Len(args)
    OBVIOUS
  <2> QED
    BY <1>2, <1>3, <2>1, ParseTyped
<1>5. Fine(at[Len(args)])
  BY <1>3, <1>4, CheckedIs
<1>6. 0 \in 0 .. Len(args) /\ at[0] = start
  BY <1>3 DEF ParseRun
<1> QED
  BY <1>1, <1>3, <1>5, <1>6, ErrorStays

-----------------------------------------------------------------------------
(* What config show says is true.                                          *)

(* The value is the one of the layer that its source names.                *)
LayerOf(source, given, environment, config, default) ==
  CASE source = "flag" -> given
    [] source = "environment" -> environment
    [] source = "config" -> config
    [] source = "default" -> default
    [] OTHER -> ""

LEMMA SourceTells ==
  ASSUME NEW o, NEW args, NEW files, NEW s \in Setting, SettingFrom(o, args, files, s)
  PROVE  o.value[s] = LayerOf(o.source[s], Given(args, Flag[s]), env.files[s],
                              Conf(o, files)[s], Default[s])
<1> DEFINE given == Given(args, Flag[s])
           config == Conf(o, files)[s]
           Layer(source) == LayerOf(source, given, env.files[s], config, Default[s])
<1>1. /\ Layer("flag") = given /\ Layer("environment") = env.files[s]
      /\ Layer("config") = config /\ Layer("default") = Default[s]
  BY DEF LayerOf
<1>2. /\ Layer("environment-key") = "" /\ Layer("environment-secret") = ""
      /\ Layer("interactive") = ""
  BY DEF LayerOf
<1>3. CASE given # ""
  <2>1. o.value[s] = given /\ o.source[s] = "flag"
    BY <1>3, Zenon DEF SettingFrom
  <2> HIDE DEF Layer
  <2>2. o.value[s] = Layer(o.source[s])
    BY <1>1, <2>1
  <2> QED
    BY <2>2 DEF Layer
<1>4. CASE given = ""
  <2>1. /\ o.value[s] = IF RawKey(s) THEN ""
                        ELSE Over(env.files[s], Over(config, Default[s]))
        /\ o.source[s] = SourceOf(s, Conf(o, files))
    BY <1>4, Zenon DEF SettingFrom
  <2>2. \/ o.value[s] = "" /\ o.source[s] \in {"environment-key", "environment-secret", "interactive"}
        \/ o.value[s] = env.files[s] /\ o.source[s] = "environment"
        \/ o.value[s] = config /\ o.source[s] = "config"
        \/ o.value[s] = Default[s] /\ o.source[s] = "default"
    <3>1. CASE RawKey(s)
      BY <2>1, <3>1, Zenon DEF SourceOf
    <3>2. CASE ~RawKey(s) /\ env.files[s] # ""
      BY <2>1, <3>2, Zenon DEF SourceOf, Over
    <3>3. CASE ~RawKey(s) /\ env.files[s] = "" /\ config # ""
      BY <2>1, <3>3, Zenon DEF SourceOf, Over
    <3>4. CASE ~RawKey(s) /\ env.files[s] = "" /\ config = "" /\ s # "passphrase"
      BY <2>1, <3>4, Zenon DEF SourceOf, Over
    <3>5. CASE ~RawKey(s) /\ env.files[s] = "" /\ config = "" /\ s = "passphrase"
      <4>1. Default["passphrase"] = ""
        BY DEF Default
      <4>2. o.value[s] = ""
        BY <2>1, <3>5, <4>1, Zenon DEF Over
      <4>3. o.source[s] = "environment-secret" \/ o.source[s] = "interactive"
        BY <2>1, <3>5, Zenon DEF SourceOf
      <4> QED
        BY <4>2, <4>3, Zenon
    <3> QED
      BY <3>1, <3>2, <3>3, <3>4, <3>5, Zenon
  <2> HIDE DEF Layer
  <2>3. PICK none : none = ""
    OBVIOUS
  <2>4. o.value[s] = Layer(o.source[s])
    <3>1. /\ Layer("environment-key") = none /\ Layer("environment-secret") = none
          /\ Layer("interactive") = none
      BY <1>2, <2>3, Zenon
    <3>2. \/ /\ o.value[s] = none
             /\ \/ o.source[s] = "environment-key" \/ o.source[s] = "environment-secret"
                \/ o.source[s] = "interactive"
          \/ o.value[s] = env.files[s] /\ o.source[s] = "environment"
          \/ o.value[s] = config /\ o.source[s] = "config"
          \/ o.value[s] = Default[s] /\ o.source[s] = "default"
      BY <2>2, <2>3, Zenon
    <3> HIDE DEF config
    <3> QED
      BY <1>1, <3>1, <3>2
  <2> QED
    BY <2>4 DEF Layer
<1> QED
  BY <1>3, <1>4

(* An identity is always looked for in some file.                          *)
LEMMA FileOf ==
  ASSUME NEW path \in Words
  PROVE  Over(path, "D") \in Word
<1>1. "D" \in Word
  BY WordAssumption
<1>2. path # "" => path \in Word
  BY DEF Words
<1> QED
  BY <1>1, <1>2, Zenon DEF Over

(* The key of the environment is opened exactly where no file is named.    *)
LEMMA LoadsKey ==
  ASSUME NEW path \in Words, NEW file, NEW identities
  PROVE  LoadIdentity(path, TRUE, file, identities) = "key" <=> path = "" /\ env.key # ""
<1>1. PICK id : id = LoadIdentity(path, TRUE, file, identities)
  OBVIOUS
<1>2. "key" \notin Word /\ "key" # ""
  BY WordAssumption
<1>3. Over(path, "D") \in Word
  BY FileOf
<1>4. CASE path = "" /\ env.key # ""
  BY <1>4, Zenon DEF LoadIdentity
<1>5. CASE ~(path = "" /\ env.key # "")
  <2>1. id = Over(path, "D") \/ id = ""
    BY <1>1, <1>5, Zenon DEF LoadIdentity
  <2>2. id # "key"
    BY <1>2, <1>3, <2>1, Zenon
  <2> QED
    BY <1>1, <1>5, <2>2
<1> QED
  BY <1>4, <1>5

(* A setting is empty only where no layer has a value for it.              *)
LEMMA EmptyIs ==
  ASSUME NEW o, NEW args, NEW files, NEW s \in Setting, SettingFrom(o, args, files, s)
  PROVE  o.value[s] = "" <=>
           /\ Given(args, Flag[s]) = ""
           /\ RawKey(s) \/ (env.files[s] = "" /\ Conf(o, files)[s] = "" /\ Default[s] = "")
<1>1. CASE Given(args, Flag[s]) # ""
  BY <1>1, Zenon DEF SettingFrom
<1>2. CASE Given(args, Flag[s]) = ""
  <2>1. o.value[s] = IF RawKey(s) THEN ""
                     ELSE Over(env.files[s], Over(Conf(o, files)[s], Default[s]))
    BY <1>2, Zenon DEF SettingFrom
  <2> QED
    BY <1>2, <2>1, Zenon DEF Over
<1> QED
  BY <1>1, <1>2

(* Whatever config show prints for a setting is what list uses for the     *)
(* same line, comes from the layer that it names, and the secret that is   *)
(* read is of the kind it names: the raw key of the environment, the       *)
(* passphrase of the environment, or the terminal.                         *)
THEOREM ShowIsTrue == Spec => []ShowTrue
<1>1. ASSUME Ran, Accepted("show"), Options(line, "list").error = "" PROVE ShowTrue
  <2>1. command = "show" /\ WellFormed(line) /\ result.error = ""
    BY <1>1 DEF Accepted
  <2>2. /\ env \in Environments /\ disk.configs \in Files /\ line \in Seq(Words)
        /\ result = ParseOptions(line, "show", disk.configs)
    BY <1>1, <2>1, RanAs DEF Options
  <2>3. Fine(ParseOptions(line, "show", disk.configs)) /\ Fine(ParseOptions(line, "list", disk.configs))
    BY <1>1, <2>1, <2>2 DEF Fine, Options
  <2>4. "show" \in Bare /\ "show" \in Readers /\ "list" \in Readers
    BY DEF Bare, Readers
  <2>5. Options(line, "list") = result
    <3>1. Fine(Defaults(line, "show", disk.configs)) /\ Fine(Defaults(line, "list", disk.configs))
      BY <2>2, <2>3, StartFine
    <3>2. Defaults(line, "show", disk.configs).error = Defaults(line, "list", disk.configs).error
      BY <3>1 DEF Fine
    <3> QED
      BY <2>2, <2>4, <3>2, SameOptions DEF Options
  <2>6. \A s \in Setting : SettingFrom(result, line, disk.configs, s)
    BY <2>1, <2>2, <2>3, <2>4, Layered
  <2>7. Configured = Conf(result, disk.configs)
    BY DEF Configured, Conf
  <2>8. result.value \in [Setting -> Words]
    <3>1. PICK start : start = Defaults(line, "show", disk.configs)
      OBVIOUS
    <3>2. Ends(result, start, line)
      BY <2>1, <2>2, <2>3, <2>4, <3>1, BareLine
    <3>3. result \in Opts
      BY <3>2 DEF Ends
    <3> QED
      BY <3>3 DEF Opts
  <2>9. "identity" \in Setting /\ "passphrase" \in Setting
    BY DEF Setting
  <2>10. ASSUME NEW s \in Setting
         PROVE  result.value[s] =
                  CASE result.source[s] = "flag" -> Given(line, Flag[s])
                    [] result.source[s] = "environment" -> env.files[s]
                    [] result.source[s] = "config" -> Configured[s]
                    [] result.source[s] = "default" -> Default[s]
                    [] OTHER -> ""
    <3>1. SettingFrom(result, line, disk.configs, s)
      BY <2>6
    <3>2. result.value[s] = LayerOf(result.source[s], Given(line, Flag[s]), env.files[s],
                                    Configured[s], Default[s])
      BY <2>7, <3>1, SourceTells
    <3> QED
      BY <3>2, Zenon DEF LayerOf
  <2>11. Opened(result, disk.identities, disk.stores).identity = "key"
           <=> result.source["identity"] = "environment-key"
    <3>1. Opened(result, disk.identities, disk.stores).identity
            = LoadIdentity(result.value["identity"], TRUE, result.value["passphrase"], disk.identities)
      BY DEF Opened
    <3>2. result.value["identity"] \in Words
      BY <2>8, <2>9
    <3>3. Opened(result, disk.identities, disk.stores).identity = "key"
            <=> result.value["identity"] = "" /\ env.key # ""
      BY <3>1, <3>2, LoadsKey
    <3>4. SettingFrom(result, line, disk.configs, "identity")
      BY <2>6, <2>9
    <3>5. CASE Given(line, Flag["identity"]) # ""
      BY <3>3, <3>4, <3>5, Zenon DEF SettingFrom
    <3>6. CASE Given(line, Flag["identity"]) = ""
      <4>1. result.source["identity"] = SourceOf("identity", Conf(result, disk.configs))
        BY <3>4, <3>6, Zenon DEF SettingFrom
      <4>2. result.source["identity"] = "environment-key" <=> env.key # ""
        BY <4>1, Zenon DEF SourceOf, RawKey
      <4>3. env.key # "" => result.value["identity"] = ""
        BY <3>4, <3>6, Zenon DEF SettingFrom, RawKey
      <4> QED
        BY <3>3, <4>2, <4>3, Zenon
    <3> QED
      BY <3>5, <3>6
  <2>12. LET read == Passphrase(result.value["passphrase"], "T")
         IN  result.source["passphrase"] =
               IF read.from = "file" THEN result.source["passphrase"] ELSE read.from
    <3>1. SettingFrom(result, line, disk.configs, "passphrase")
      BY <2>6, <2>9
    <3>2. CASE result.value["passphrase"] # ""
      <4>1. Passphrase(result.value["passphrase"], "T").from = "file"
        BY <3>2 DEF Passphrase
      <4> QED
        BY <4>1, Zenon
    <3>3. CASE result.value["passphrase"] = ""
      <4>1. /\ Given(line, Flag["passphrase"]) = "" /\ env.files["passphrase"] = ""
            /\ Conf(result, disk.configs)["passphrase"] = ""
        <5>1. ~RawKey("passphrase")
          BY DEF RawKey
        <5>2. result.value["passphrase"] = "" <=>
                /\ Given(line, Flag["passphrase"]) = ""
                /\ \/ RawKey("passphrase")
                   \/ /\ env.files["passphrase"] = "" /\ Conf(result, disk.configs)["passphrase"] = ""
                      /\ Default["passphrase"] = ""
          BY <2>9, <3>1, EmptyIs, Zenon
        <5> QED
          BY <3>3, <5>1, <5>2, Zenon
      <4>2. result.source["passphrase"] = SourceOf("passphrase", Conf(result, disk.configs))
        BY <3>1, <4>1, Zenon DEF SettingFrom
      <4>3. result.source["passphrase"] =
              IF env.secret # "" THEN "environment-secret" ELSE "interactive"
        BY <4>1, <4>2, Zenon DEF SourceOf, RawKey
      <4>4. Passphrase(result.value["passphrase"], "T").from =
              IF env.secret # "" THEN "environment-secret" ELSE "interactive"
        BY <3>3 DEF Passphrase
      <4> QED
        BY <4>3, <4>4, Zenon
    <3> QED
      BY <3>2, <3>3
  <2> QED
    BY <2>5, <2>10, <2>11, <2>12, Zenon DEF ShowTrue
<1>2. Ran => ShowTrue
  BY <1>1 DEF ShowTrue
<1> QED
  BY <1>2, RanAlways, PTL

-----------------------------------------------------------------------------
(* What doctor passes works.                                               *)

(* A line that cannot start is refused with the error of its start.        *)
LEMMA StartRefuses ==
  ASSUME env \in Environments, NEW args \in Seq(Words), NEW c, NEW files \in Files,
         NEW start, start = Defaults(args, c, files)
  PROVE  /\ ~Fine(start) => ParseOptions(args, c, files) = start
         /\ ParseOptions(args, c, files).exists = start.exists
<1>1. start \in Opts
  BY StartTyped
<1>2. PICK at : /\ ParseRun(at, start, args, c)
                /\ ParseOptions(args, c, files) = Checked(at[Len(args)], args, c)
  BY ParseRuns
<1>3. 0 \in 0 .. Len(args) /\ at[0] = start /\ Len(args) \in 0 .. Len(args)
  BY <1>2 DEF ParseRun
<1>4. at[Len(args)] \in Opts /\ at[Len(args)].exists = start.exists
  BY <1>1, <1>2, <1>3, ParseTyped
<1>5. ~Fine(start) => at[Len(args)] = start
  BY <1>2, <1>3, ErrorStays
<1>6. ~Fine(start) => Checked(start, args, c) = start
  BY <1>1, CheckedIs
<1>7. Checked(at[Len(args)], args, c).exists = at[Len(args)].exists
  <2>1. PICK o : o = at[Len(args)]
    OBVIOUS
  <2>2. Checked(o, args, c) = [o EXCEPT !.error = "line"] \/ Checked(o, args, c) = o
    BY Zenon DEF Checked
  <2>3. o \in Opts
    BY <1>4, <2>1
  <2>4. Checked(o, args, c).exists = o.exists
    BY <2>2, <2>3 DEF Opts
  <2> QED
    BY <2>1, <2>4
<1> QED
  BY <1>2, <1>4, <1>5, <1>6, <1>7

(* A configuration that is named and missing.                              *)
Missing(args, files) ==
  /\ SelectedConfig(args).explicit /\ ~IgnoresConfig(args)
  /\ files[SelectedConfig(args).path].is = "missing"

(* That is the only difference between the starts of doctor and list.      *)
LEMMA StartsDiffer ==
  ASSUME env \in Environments, NEW args \in Seq(Words), NEW files \in Files,
         Fine(Defaults(args, "doctor", files))
  PROVE  /\ Missing(args, files) => Defaults(args, "list", files).error = "config"
         /\ ~Missing(args, files) => Fine(Defaults(args, "list", files))
         /\ /\ ~Defaults(args, "doctor", files).exists
            /\ SelectedConfig(args).explicit /\ ~IgnoresConfig(args)
            <=> Missing(args, files)
<1> DEFINE selected == SelectedConfig(args)
           file == files[selected.path]
<1>1. PICK start : start = Defaults(args, "doctor", files)
  OBVIOUS
<1>2. PICK other : other = Defaults(args, "list", files)
  OBVIOUS
<1>3. Reports("doctor") /\ ~Reports("list")
  BY DEF Reports
<1>4. start.error = ""
  BY <1>1 DEF Fine
<1>5. selected.error = "" /\ ~(~IgnoresConfig(args) /\ file.is = "broken")
  <2>1. start.error = IF selected.error # "" THEN selected.error
                      ELSE IF /\ ~IgnoresConfig(args)
                              /\ \/ file.is = "broken"
                                 \/ file.is = "missing" /\ selected.explicit /\ ~Reports("doctor")
                           THEN "config" ELSE ""
    BY <1>1, StartError, Zenon
  <2>2. "config" # ""
    OBVIOUS
  <2> QED
    BY <1>4, <2>1, <2>2, Zenon
<1>6. other.error = IF Missing(args, files) THEN "config" ELSE ""
  <2>1. other.error = IF selected.error # "" THEN selected.error
                      ELSE IF /\ ~IgnoresConfig(args)
                              /\ \/ file.is = "broken"
                                 \/ file.is = "missing" /\ selected.explicit /\ ~Reports("list")
                           THEN "config" ELSE ""
    BY <1>2, StartError, Zenon
  <2> QED
    BY <1>3, <1>5, <2>1, Zenon DEF Missing
<1>7. start.exists <=> ~IgnoresConfig(args) /\ file.is = "valid"
  <2>1. Begins(start, args, files)
    BY <1>1, StartIs
  <2> QED
    BY <2>1, Zenon DEF Begins
<1>8. file.is \in {"valid", "broken", "missing"}
  <2>1. selected.path \in Word
    BY SelectedTyped
  <2> QED
    BY <2>1 DEF Files
<1>9. /\ ~start.exists /\ selected.explicit /\ ~IgnoresConfig(args)
      <=> Missing(args, files)
  BY <1>5, <1>7, <1>8 DEF Missing
<1>10. Missing(args, files) => other.error = "config"
  BY <1>6, Zenon
<1>11. ~Missing(args, files) => Fine(other)
  BY <1>6, Zenon DEF Fine
<1> QED
  BY <1>1, <1>2, <1>9, <1>10, <1>11

(* A doctor that does not fail has found all of this.                      *)
LEMMA DiagnosisIs ==
  ASSUME NEW o, Diagnosis(o).status # "fail"
  PROVE  /\ Fine(o) /\ Opened(o, disk.identities, disk.stores).works
         /\ Diagnosis(o).identity = Opened(o, disk.identities, disk.stores).identity
         /\ "no config" \in Diagnosis(o).warns <=> ~o.exists
<1> DEFINE opened == Opened(o, disk.identities, disk.stores)
           path == o.value["identity"]
           fails ==
             \/ ~opened.works
             \/ ~o.keyed /\ (path = "" \/ disk.identities[Over(path, "D")] \in {"none", "raw"})
             \/ o.value["passphrase"] \notin disk.passphrases \cup {""}
<1>1. Diagnosis(o).status =
        CASE o.error # "" \/ fails -> "fail"
          [] o.error = "" /\ ~fails /\ (~o.exists \/ o.keyed) -> "warn"
          [] OTHER -> "pass"
  BY DEF Diagnosis
<1>2. ~(o.error # "" \/ fails)
  <2> HIDE DEF fails
  <2> QED BY <1>1, Zenon
<1>3. Diagnosis(o).identity = opened.identity
  BY DEF Diagnosis
<1>4. Diagnosis(o).warns = (IF o.exists THEN {} ELSE {"no config"})
                             \cup (IF o.keyed THEN {"raw key"} ELSE {})
  BY DEF Diagnosis
<1> HIDE DEF opened
<1>5. "no config" \in Diagnosis(o).warns <=> ~o.exists
  BY <1>4
<1> QED
  BY <1>2, <1>3, <1>5, Zenon DEF Fine, opened

(* A doctor that does not fail has opened the identity that list then      *)
(* opens for the same line, and list can read its store; but where a       *)
(* configuration is named and missing, doctor has spoken of the defaults,  *)
(* and list refuses to start.                                              *)
THEOREM DoctorIsTrue == Spec => []DoctorTrue
<1>1. ASSUME Ran, command = "doctor", result.status # "fail" PROVE DoctorTrue
  <2>1. PICK o : o = Options(line, "doctor")
    OBVIOUS
  <2>2. /\ env \in Environments /\ disk.configs \in Files /\ line \in Seq(Words)
        /\ result = Diagnosis(o)
    BY <1>1, <2>1, RanAs
  <2>3. /\ Fine(o) /\ Opened(o, disk.identities, disk.stores).works
        /\ result.identity = Opened(o, disk.identities, disk.stores).identity
        /\ "no config" \in result.warns <=> ~o.exists
    BY <1>1, <2>2, DiagnosisIs
  <2>4. PICK start : start = Defaults(line, "doctor", disk.configs)
    OBVIOUS
  <2>5. o.exists = start.exists
    BY <2>1, <2>2, <2>4, StartRefuses DEF Options
  <2>6. Fine(start)
    BY <2>1, <2>2, <2>3, <2>4, StartFine DEF Options
  <2>7. PICK used : used = Options(line, "list")
    OBVIOUS
  <2>8. CASE Missing(line, disk.configs)
    <3>1. PICK other : other = Defaults(line, "list", disk.configs)
      OBVIOUS
    <3>2. other.error = "config"
      BY <2>2, <2>4, <2>6, <2>8, <3>1, StartsDiffer
    <3>3. ~Fine(other)
      BY <3>2 DEF Fine
    <3>4. used = other
      BY <2>2, <2>7, <3>1, <3>3, StartRefuses DEF Options
    <3>5. ~start.exists /\ SelectedConfig(line).explicit /\ ~IgnoresConfig(line)
      BY <2>2, <2>4, <2>6, <2>8, StartsDiffer
    <3> QED
      BY <2>3, <2>5, <2>7, <3>2, <3>4, <3>5, Zenon DEF DoctorTrue
  <2>9. CASE ~Missing(line, disk.configs)
    <3>1. "list" \in Readers /\ "doctor" \in Readers
      BY DEF Readers
    <3>2. Fine(Defaults(line, "list", disk.configs))
      BY <2>2, <2>4, <2>6, <2>9, StartsDiffer
    <3>3. Defaults(line, "list", disk.configs).error = Defaults(line, "doctor", disk.configs).error
      BY <2>4, <2>6, <3>2 DEF Fine
    <3>4. used = o
      BY <2>1, <2>2, <2>7, <3>1, <3>3, SameOptions DEF Options
    <3>5. ~(~start.exists /\ SelectedConfig(line).explicit /\ ~IgnoresConfig(line))
      BY <2>2, <2>4, <2>6, <2>9, StartsDiffer
    <3> QED
      BY <2>3, <2>5, <2>7, <3>4, <3>5, Zenon DEF DoctorTrue
  <2> QED
    BY <2>8, <2>9
<1>2. Ran => DoctorTrue
  BY <1>1 DEF DoctorTrue
<1> QED
  BY <1>2, RanAlways, PTL

-----------------------------------------------------------------------------
(* The command of encryption opens the identity the others open.           *)

LastOf(args, at) ==
  IF at = {} THEN "" ELSE args[1 + CHOOSE i \in at : \A j \in at : j <= i]

ValueOf(args, flag) ==
  LET at == {i \in DOMAIN args : i % 2 = 1 /\ args[i] = flag}
  IN  IF at = {} THEN "" ELSE args[1 + CHOOSE i \in at : \A j \in at : j <= i]

Paired(args) ==
  /\ Len(args) % 2 # 1
  /\ \A i \in DOMAIN args : i % 2 = 1 => args[i] \in {"--identity", "--passphrase-file"}

(* A line that decrypt accepts is flags and values, and opens an identity. *)
LEMMA CryptoIs ==
  ASSUME NEW args, Fine(Crypto(args))
  PROVE  /\ Paired(args)
         /\ Crypto(args).identity = LoadIdentity(ValueOf(args, "--identity"), FALSE,
                                      ValueOf(args, "--passphrase-file"), disk.identities)
         /\ Crypto(args).identity # ""
<1> DEFINE wrong == Len(args) % 2 = 1 \/ \E i \in DOMAIN args :
                      i % 2 = 1 /\ args[i] \notin {"--identity", "--passphrase-file"}
           path == ValueOf(args, "--identity")
           file == ValueOf(args, "--passphrase-file")
           id == LoadIdentity(path, FALSE, file, disk.identities)
           lock == disk.identities[Over(path, "D")]
           asked == Passphrase(file, lock)
           said == CASE id # "" -> ""
                     [] id = "" /\ path # "" /\ lock \notin {"none", "raw"}
                        /\ asked.from = "interactive" /\ ~disk.terminal -> "non-interactive"
                     [] OTHER -> "identity"
<1>1. Crypto(args) = IF wrong THEN [error |-> "line", identity |-> ""]
                     ELSE [error |-> said, identity |-> id]
  BY Zenon DEF Crypto, ValueOf
<1>2. wrong <=> ~Paired(args)
  BY Zenon DEF Paired
<1> HIDE DEF wrong, said, id
<1>0. PICK none : none = ""
  OBVIOUS
<1>0a. Crypto(args) = IF wrong THEN [error |-> "line", identity |-> none]
                      ELSE [error |-> said, identity |-> id]
  BY <1>0, <1>1, Zenon
<1>3. ~wrong
  <2>1. wrong => Crypto(args).error = "line"
    BY <1>0a
  <2> QED
    BY <2>1 DEF Fine
<1>4. Crypto(args).error = said /\ Crypto(args).identity = id
  <2>1. Crypto(args) = [error |-> said, identity |-> id]
    BY <1>0a, <1>3, Zenon
  <2> QED
    BY <2>1
<1>5. id # ""
  <2>1. said = ""
    BY <1>4, Zenon DEF Fine
  <2>2. id = "" => said = "non-interactive" \/ said = "identity"
    BY Zenon DEF said
  <2> QED
    BY <2>1, <2>2, Zenon
<1> QED
  BY <1>2, <1>3, <1>4, <1>5, Zenon DEF id

(* Both parsers find the same values in a line that the first accepts.     *)
LEMMA PairedIs ==
  ASSUME NEW args \in Seq(Words), Paired(args), WellFormed(args),
         NEW flag \in {"--identity", "--passphrase-file"}
  PROVE  ValueOf(args, flag) = Given(args, flag)
<1> DEFINE n == Len(args)
<1>1. PICK k : OwnPart(args, k)
  BY OwnIs
<1>2. OwnEnd(args, k) /\ Fed(args, k) /\ k \in Nat /\ n \in Nat /\ k <= n
  BY <1>1 DEF OwnPart, OwnEnd
<1>3. {"--identity", "--passphrase-file"} \subseteq Valued /\ "--" \notin Valued
  BY FlagOf, ValuedNames DEF Setting
<1>4. \A v \in Valued : ~Plain(v)
  BY DEF Valued, Plain
<1>5. \A i \in 1 .. n : i % 2 = 1 => args[i] \in Valued
  BY <1>3 DEF Paired
<1>6. k = n
  <2>1. SUFFICES ASSUME k < n PROVE FALSE
    BY <1>2
  <2>2. args[k + 1] = "--" /\ k + 1 \in 1 .. n
    BY <1>2, <2>1 DEF OwnEnd
  <2>3. (k + 1) % 2 # 1
    BY <1>3, <1>5, <2>2
  <2>4. k % 2 = 1 /\ k \in 1 .. n /\ k \in 1 .. k
    BY <1>2, <2>3
  <2>5. args[k] \in Valued
    BY <1>5, <2>4
  <2> QED
    BY <1>2, <2>4, <2>5 DEF Fed
<1>7. \A i \in 1 .. n : args[i] = flag => i % 2 = 1
  <2>1. SUFFICES ASSUME NEW i \in 1 .. n, args[i] = flag, i % 2 # 1 PROVE FALSE
    OBVIOUS
  <2>2. (i - 1) % 2 = 1 /\ i - 1 \in 1 .. n /\ (i - 1) + 1 = i
    BY <1>2, <2>1
  <2>3. args[i - 1] \in Valued
    BY <1>5, <2>2
  <2>4. Plain(args[i])
    BY <1>2, <1>6, <2>2, <2>3 DEF Fed
  <2> QED
    BY <1>3, <1>4, <2>1, <2>4
<1>8. \A i \in 1 .. n : args[i] = flag => i < n
  BY <1>2, <1>3, <1>6 DEF Fed
<1>9. {i \in DOMAIN args : i % 2 = 1 /\ args[i] = flag} = {i \in DOMAIN args : args[i] = flag /\ i < Len(args)}
  BY <1>7, <1>8
<1>10. ValueOf(args, flag) = LastOf(args, {i \in DOMAIN args : i % 2 = 1 /\ args[i] = flag})
  BY Zenon DEF ValueOf, LastOf
<1>11. Given(args, flag) = LastOf(args, {i \in DOMAIN args : args[i] = flag /\ i < Len(args)})
  BY Zenon DEF Given, LastOf
<1> QED
  BY <1>9, <1>10, <1>11, Zenon

(* An identity that decrypt (and encrypt) opens, by its own parser and its *)
(* own rule for defaults, is the one that the other commands open for the  *)
(* same flags, or they open none.                                          *)
THEOREM CryptoAgreesWithLocal == Spec => []CryptoAgrees
<1>1. ASSUME Ran, Accepted("decrypt"), Options(line, "list").error = "" PROVE CryptoAgrees
  <2>1. command = "decrypt" /\ WellFormed(line) /\ result.error = ""
    BY <1>1 DEF Accepted
  <2>2. PICK o : o = Options(line, "list")
    OBVIOUS
  <2>3. /\ env \in Environments /\ disk.configs \in Files /\ line \in Seq(Words)
        /\ result = Crypto(line)
        /\ o = ParseOptions(line, "list", disk.configs)
    BY <1>1, <2>1, <2>2, RanAs DEF Options
  <2>4. Fine(ParseOptions(line, "list", disk.configs))
    BY <1>1, <2>2, <2>3 DEF Fine
  <2>5. "list" \in Bare /\ "identity" \in Setting
    BY DEF Bare, Setting
  <2>6. SettingFrom(o, line, disk.configs, "identity")
    BY <2>1, <2>3, <2>4, <2>5, Layered
  <2>7. Flag["identity"] = "--identity"
    BY FlagOf
  <2>8. PICK path : path = Given(line, "--identity")
    OBVIOUS
  <2>9. /\ path # "" => o.value["identity"] = path
        /\ path = "" /\ env.key # "" => o.value["identity"] = ""
    BY <2>6, <2>7, <2>8, Zenon DEF SettingFrom, RawKey
  <2>10. PICK file : file = ValueOf(line, "--passphrase-file")
    OBVIOUS
  <2>11. /\ result.identity = LoadIdentity(path, FALSE, file, disk.identities)
         /\ result.identity # ""
    <3>1. /\ Paired(line)
          /\ result.identity = LoadIdentity(ValueOf(line, "--identity"), FALSE, file, disk.identities)
          /\ result.identity # ""
      BY <2>1, <2>3, <2>10, CryptoIs, Zenon DEF Fine
    <3>2. ValueOf(line, "--identity") = path
      BY <2>1, <2>3, <2>8, <3>1, PairedIs
    <3> QED
      BY <3>1, <3>2
  <2>12. PICK opened : opened = Opened(o, disk.identities, disk.stores).identity
    OBVIOUS
  <2>13. opened = LoadIdentity(o.value["identity"], TRUE, o.value["passphrase"], disk.identities)
    BY <2>12 DEF Opened
  <2>14. CASE path = "" /\ env.key # ""
    <3>1. result.identity = "key"
      BY <2>11, <2>14, Zenon DEF LoadIdentity
    <3>2. opened = "key"
      BY <2>9, <2>13, <2>14, Zenon DEF LoadIdentity
    <3> QED
      BY <2>2, <2>12, <3>1, <3>2, Zenon DEF CryptoAgrees
  <2>15. CASE ~(path = "" /\ env.key # "")
    <3>1. path # "" /\ result.identity = Over(path, "D")
      BY <2>11, <2>15, Zenon DEF LoadIdentity
    <3>2. opened = Over(path, "D") \/ opened = ""
      BY <2>9, <2>13, <2>15, <3>1, Zenon DEF LoadIdentity
    <3> QED
      BY <2>2, <2>12, <3>1, <3>2, Zenon DEF CryptoAgrees
  <2> QED
    BY <2>14, <2>15
<1>2. Ran => CryptoAgrees
  BY <1>1 DEF CryptoAgrees
<1> QED
  BY <1>2, RanAlways, PTL

-----------------------------------------------------------------------------
(* After an init.                                                          *)

LEMMA SelectNames ==
  ASSUME NEW scan \in SelectScan, ~scan.over
  PROVE  /\ ~scan.expects /\ ~scan.seen => Fine(Select(scan, "--config")) = Fine(scan)
         /\ \A word : scan.expects => Fine(Select(scan, word)) = Fine(scan)
  BY DEF Select, SelectScan, Fine

(* A line that only names a configuration selects it, without an error.    *)
LEMMA NamedSelects ==
  ASSUME env \in Environments, "--config" \in Words, NEW file \in Words, Plain(file),
         NEW args, args = <<"--config", file>>
  PROVE  /\ args \in Seq(Words) /\ ~IgnoresConfig(args)
         /\ Fine(SelectedConfig(args)) /\ SelectedConfig(args).path = file
<1>1. args \in Seq(Words) /\ Len(args) = 2 /\ args[1] = "--config" /\ args[2] = file
  OBVIOUS
<1>2. file # "" /\ file # "--no-config"
  BY DEF Plain, Dashed, Modal
<1>3. ~IgnoresConfig(args)
  <2>1. ASSUME IgnoresConfig(args) PROVE FALSE
    <3>1. PICK i \in DOMAIN args : args[i] = "--no-config"
      BY <2>1 DEF IgnoresConfig
    <3>2. i = 1 \/ i = 2
      BY <1>1, <3>1
    <3> QED
      BY <1>1, <1>2, <3>1, <3>2
  <2> QED
    BY <2>1
<1>4. PICK at : SelectRun(at, args) /\ SelectedConfig(args) = Selected(at[2])
  BY <1>1, SelectRuns
<1>5. at[0] = SelectStart /\ at[1] = Select(at[0], "--config") /\ at[2] = Select(at[1], file)
  <2>1. 1 \in 1 .. Len(args) /\ 2 \in 1 .. Len(args) /\ 1 - 1 = 0 /\ 2 - 1 = 1
    BY <1>1
  <2> QED
    BY <1>1, <1>4, <2>1 DEF SelectRun
<1>6. /\ at[0] \in SelectScan /\ ~at[0].over /\ ~at[0].expects /\ ~at[0].seen /\ Fine(at[0])
  <2>1. SelectStart.seen = FALSE /\ Fine(SelectStart)
    BY DEF SelectStart, Fine
  <2> QED
    BY <1>5, <2>1, SelectStarts
<1>7. at[1] \in SelectScan /\ ~at[1].over /\ at[1].expects /\ Fine(at[1])
  BY <1>5, <1>6, SelectTable, SelectNames
<1>8. at[2] \in SelectScan /\ ~at[2].expects /\ at[2].path = file /\ Fine(at[2])
  BY <1>5, <1>7, SelectTable, SelectNames
<1>9. Selected(at[2]).path = file
  BY <1>2, <1>8, SelectedFields
<1>10. Fine(Selected(at[2]))
  BY <1>8, SelectedFields DEF Fine
<1> QED
  BY <1>1, <1>3, <1>4, <1>9, <1>10

(* And one that says nothing selects the default of the environment.       *)
LEMMA NoneSelects ==
  ASSUME env \in Environments, NEW args, args = <<>>
  PROVE  /\ args \in Seq(Words) /\ ~IgnoresConfig(args)
         /\ Fine(SelectedConfig(args)) /\ SelectedConfig(args).path = Over(env.config, "D")
<1>1. args \in Seq(Words) /\ Len(args) = 0
  OBVIOUS
<1>2. ~IgnoresConfig(args)
  BY DEF IgnoresConfig
<1>3. PICK at : SelectRun(at, args) /\ SelectedConfig(args) = Selected(at[0])
  BY <1>1, SelectRuns
<1>4. at[0] = SelectStart
  BY <1>3 DEF SelectRun
<1>5. Fine(SelectStart) /\ ~SelectStart.expects /\ SelectStart.path = env.config
  BY DEF SelectStart, Fine
<1>6. Selected(SelectStart).path = Over(env.config, "D")
  BY <1>5, SelectedFields, Zenon DEF Over
<1>7. Fine(Selected(SelectStart))
  BY <1>5, SelectedFields, Zenon DEF Fine
<1> QED
  BY <1>1, <1>2, <1>3, <1>4, <1>6, <1>7

(* A line that only names a configuration changes nothing of the start.    *)
SameSettings(o, start) ==
  /\ o \in Opts /\ Fine(o) /\ Idle(o)
  /\ o.value = start.value /\ o.noConfig = start.noConfig /\ o.all = start.all
  /\ o.rest = start.rest

LEMMA NamedParses ==
  ASSUME NEW start \in Opts, Fine(start), Idle(start), ~start.over,
         "--config" \in Words, NEW file \in Words, Plain(file), NEW c
  PROVE  SameSettings(Parse(Parse(start, "--config", c), file, c), start)
<1>1. PICK o : o = Parse(start, "--config", c)
  OBVIOUS
<1>2. "--config" \in Valued /\ "--config" # "--" /\ "--config" \notin Modal
  BY DEF Valued, Dashed, Modal
<1>3. o = [start EXCEPT !.expects = "--config"]
  <2>1. "--config" \in Dashed /\ "--config" # "--all" /\ "--config" # "--no-config"
        /\ "--config" # "--json" /\ "--config" # "--bad"
    BY DEF Dashed
  <2> QED
    BY <1>1, <1>2, <2>1, Zenon DEF Parse, Fine, Idle
<1>4. /\ o \in Opts /\ o.expects = "--config" /\ ~o.over /\ o.value = start.value
      /\ o.noConfig = start.noConfig /\ o.all = start.all /\ o.rest = start.rest
  BY <1>3 DEF Opts
<1>5. Fine(o)
  <2>1. o.error = start.error
    BY <1>3 DEF Opts
  <2> QED
    BY <2>1, Zenon DEF Fine
<1>6. PICK flag : flag = "--config"
  OBVIOUS
<1>7. PICK p : p = Parse(o, file, c)
  OBVIOUS
<1>8. p = Take(o, flag, file)
  <2>1. "--config" # ""
    OBVIOUS
  <2> QED
    BY <1>4, <1>5, <1>6, <1>7, <2>1, Zenon DEF Parse, Fine
<1>9. /\ p \in Opts /\ p.rest = o.rest /\ p.noConfig = o.noConfig /\ p.all = o.all /\ Idle(p)
  BY <1>4, <1>6, <1>8, TakeTable
<1>10. p.value = o.value
  <2>1. \A s \in Setting : Flag[s] # flag
    BY <1>6, FlagOf DEF Setting
  <2>2. \A s \in Setting : p.value[s] = o.value[s]
    BY <1>4, <1>6, <1>8, <2>1, TakeSettings
  <2>3. p.value \in [Setting -> Words] /\ o.value \in [Setting -> Words]
    BY <1>4, <1>9 DEF Opts
  <2> QED
    BY <2>2, <2>3
<1>11. Fine(p)
  <2>1. p.error = o.error
    <3>1. flag # "--only"
      BY <1>6
    <3>2. p.error = IF flag = "--only" /\ file = "" THEN "only" ELSE o.error
      BY <1>4, <1>8 DEF Take, Opts
    <3> QED
      BY <3>1, <3>2, Zenon
  <2> QED
    BY <1>5, <2>1, Zenon DEF Fine
<1>12. SameSettings(p, start)
  BY <1>4, <1>9, <1>10, <1>11, Zenon DEF SameSettings
<1> QED
  BY <1>1, <1>7, <1>12

(* A line without positionals and without an error passes the checks.      *)
LEMMA BarePasses ==
  ASSUME NEW o \in Opts, Fine(o), Idle(o), ~o.noConfig, ~o.all, o.rest = <<>>,
         Plain(o.value["scope"]), NEW args
  PROVE  Checked(o, args, "list") = o
<1> DEFINE wrong ==
        \/ o.expects # ""
        \/ o.value["scope"] \in Dashed \cup {"--", ""}
        \/ o.noConfig /\ \E i \in 1 .. Len(args) - 1 : args[i] = "--config"
        \/ o.all /\ o.only # <<>>
        \/ "list" \in {"list", "init", "show", "doctor"} /\ o.rest # <<>>
        \/ "list" = "set" /\ Len(o.rest) # 1
        \/ "list" = "run" /\ (o.rest = <<>> \/ (~o.all /\ o.only = <<>>))
<1>1. Checked(o, args, "list") = IF o.error = "" /\ wrong THEN [o EXCEPT !.error = "line"] ELSE o
  BY DEF Checked
<1>2. "list" # "set" /\ "list" # "run"
  OBVIOUS
<1>3. ~wrong
  BY <1>2, Zenon DEF Idle, Plain
<1> HIDE DEF wrong
<1> QED
  BY <1>1, <1>3, Zenon

(* A later list has the settings of its start, if that has a scope.        *)
LEMMA LaterIs ==
  ASSUME env \in Environments, NEW files \in Files, NEW args,
         \/ args = <<>>
         \/ /\ "--config" \in Words
            /\ \E file \in Words : Plain(file) /\ args = <<"--config", file>>,
         NEW start, start = Defaults(args, "list", files), Fine(start),
         Plain(start.value["scope"])
  PROVE  /\ Fine(ParseOptions(args, "list", files))
         /\ ParseOptions(args, "list", files).value = start.value
<1>1. args \in Seq(Words)
  BY NamedSelects, NoneSelects
<1>2. /\ start \in Opts /\ Idle(start) /\ ~start.over /\ ~start.noConfig /\ start.rest = <<>>
  BY <1>1, StartTyped DEF Idle
<1>3. ~start.all
  BY DEF Defaults, Layers
<1>4. PICK at : /\ ParseRun(at, start, args, "list")
                /\ ParseOptions(args, "list", files) = Checked(at[Len(args)], args, "list")
  BY <1>1, ParseRuns
<1>5. SameSettings(at[Len(args)], start)
  <2>1. at[0] = start
    BY <1>4 DEF ParseRun
  <2>2. CASE args = <<>>
    <3>1. Len(args) = 0
      BY <2>2
    <3> QED
      BY <1>2, <2>1, <3>1 DEF SameSettings
  <2>3. ASSUME "--config" \in Words, NEW file \in Words, Plain(file), args = <<"--config", file>>
        PROVE  SameSettings(at[Len(args)], start)
    <3>1. Len(args) = 2 /\ args[1] = "--config" /\ args[2] = file
      BY <2>3
    <3>2. at[1] = Parse(at[0], args[1], "list") /\ at[2] = Parse(at[1], args[2], "list")
      <4>1. 1 \in 1 .. Len(args) /\ 2 \in 1 .. Len(args) /\ 1 - 1 = 0 /\ 2 - 1 = 1
        BY <3>1
      <4> QED
        BY <1>4, <4>1 DEF ParseRun
    <3>3. SameSettings(Parse(Parse(start, "--config", "list"), file, "list"), start)
      BY <1>2, <2>3, NamedParses
    <3> QED
      BY <2>1, <3>1, <3>2, <3>3
  <2> QED
    BY <2>2, <2>3
<1>6. PICK o : o = at[Len(args)]
  OBVIOUS
<1>7. /\ o \in Opts /\ Fine(o) /\ Idle(o) /\ ~o.noConfig /\ ~o.all /\ o.rest = <<>>
      /\ o.value = start.value
  BY <1>2, <1>3, <1>5, <1>6 DEF SameSettings
<1>8. Checked(o, args, "list") = o
  BY <1>7, BarePasses
<1> QED
  BY <1>4, <1>6, <1>7, <1>8

(* An init that is done.                                                   *)
Made(r, o, args) ==
  /\ o.error = "" /\ SameSelection(o, args) /\ o.value["identity"] # ""
  /\ r.lock = Passphrase(o.value["passphrase"], "T").is /\ r.lock # ""
  /\ o.exists => r.configs = disk.configs
  /\ ~o.exists => r.configs = [disk.configs EXCEPT
                                 ![o.config] = [is |-> "valid", sets |-> o.value]]

LEMMA SetupIs ==
  ASSUME NEW o, NEW args, NEW r, r = Setup(o, args), r.done, ~o.noConfig
  PROVE  Made(r, o, args)
<1> DEFINE done == /\ o.error = "" /\ SameSelection(o, args)
                   /\ o.value["identity"] # "" /\ disk.identities[o.value["identity"]] = "none"
                   /\ Passphrase(o.value["passphrase"], "T").is # ""
           configs == IF o.noConfig \/ o.exists THEN disk.configs
                      ELSE [disk.configs EXCEPT ![o.config] = [is |-> "valid", sets |-> o.value]]
<1>1. r = [done |-> done, lock |-> Passphrase(o.value["passphrase"], "T").is, configs |-> configs]
  BY DEF Setup
<1> HIDE DEF done, configs
<1>2. r.done <=> done
  BY <1>1
<1>3. r.lock = Passphrase(o.value["passphrase"], "T").is /\ r.configs = configs
  BY <1>1
<1>4. done
  BY <1>2
<1>5. /\ o.exists => configs = disk.configs
      /\ ~o.exists => configs = [disk.configs EXCEPT
                                   ![o.config] = [is |-> "valid", sets |-> o.value]]
  BY Zenon DEF configs
<1> QED
  BY <1>3, <1>4, <1>5, Zenon DEF done, Made

(* The passphrase that an init locks with is found again.                  *)
LEMMA FoundAgain ==
  ASSUME env \in Environments, disk \in Disks, NEW path \in Words,
         NEW phrase, phrase = Passphrase(path, "T").is, phrase # ""
  PROVE  phrase # "none" /\ Passphrase(path, phrase).is = phrase
<1>1. env.secret \in Words /\ "none" \notin Word
  BY EnvironmentAssumption, WordAssumption DEF Words
<1>2. CASE path # ""
  <2>1. phrase = path /\ Passphrase(path, phrase).is = path
    BY <1>2, Zenon DEF Passphrase
  <2>2. path \in Word
    BY <1>2 DEF Words
  <2> QED
    BY <1>1, <2>1, <2>2, Zenon
<1>3. CASE path = "" /\ env.secret # ""
  <2>1. phrase = env.secret /\ Passphrase(path, phrase).is = env.secret
    BY <1>3, Zenon DEF Passphrase
  <2>2. env.secret \in Word
    BY <1>1, <1>3 DEF Words
  <2> QED
    BY <1>1, <2>1, <2>2, Zenon
<1>4. CASE path = "" /\ env.secret = ""
  <2>1. phrase = "T"
    BY <1>4, Zenon DEF Passphrase
  <2>2. Passphrase(path, phrase).is = phrase
    BY <1>4, <2>1, Zenon DEF Passphrase
  <2> QED
    BY <2>1, <2>2, Zenon
<1> QED
  BY <1>2, <1>3, <1>4

(* The default scope is one.                                               *)
LEMMA PlainD == Plain("D")
<1>1. "D" \notin {Flag[s] : s \in Setting}
  BY FlagOf
<1> QED
  BY <1>1 DEF Plain, Dashed, Modal

(* The configuration after an init, at the path m that the line selects,   *)
(* and what it sets.                                                       *)
Kept(o, configs, m) ==
  /\ configs \in Files /\ configs[m].is = "valid"
  /\ \/ o.exists /\ configs[m] = disk.configs[m]
     \/ ~o.exists /\ configs[m].sets = o.value

LEMMA KeptIs ==
  ASSUME disk.configs \in Files, NEW o \in Opts, NEW m, m = o.config,
         o.exists => disk.configs[m].is = "valid",
         NEW configs,
         /\ o.exists => configs = disk.configs
         /\ ~o.exists => configs = [disk.configs EXCEPT
                                      ![o.config] = [is |-> "valid", sets |-> o.value]]
  PROVE  Kept(o, configs, m)
<1>1. m \in Word /\ o.value \in [Setting -> Words] /\ o.exists \in BOOLEAN
  BY DEF Opts
<1>2. CASE o.exists
  BY <1>2 DEF Kept
<1>3. CASE ~o.exists
  <2>1. PICK entry : entry = [is |-> "valid", sets |-> o.value]
    OBVIOUS
  <2>2. entry \in [is : {"valid", "broken", "missing"}, sets : [Setting -> Words]]
    BY <1>1, <2>1
  <2>3. entry.is = "valid" /\ entry.sets = o.value
    BY <2>1
  <2>4. configs = [disk.configs EXCEPT ![m] = entry]
    BY <1>3, <2>1
  <2>5. configs \in Files /\ configs[m] = entry
    BY <1>1, <2>2, <2>4 DEF Files
  <2> QED
    BY <1>3, <2>3, <2>5 DEF Kept
<1> QED
  BY <1>1, <1>2, <1>3

LEMMA WordOf ==
  ASSUME NEW args \in Seq(Words), NEW i \in DOMAIN args
  PROVE  args[i] \in Words
  OBVIOUS

(* The line of Later is read without an error, from the configuration that *)
(* init kept.                                                              *)
LEMMA LaterStarts ==
  ASSUME env \in Environments, line \in Seq(Words), NEW m \in Word,
         m = Over(Given(line, "--config"), Over(env.config, "D")),
         (\E i \in DOMAIN line : line[i] = "--config") <=> Given(line, "--config") # "",
         Given(line, "--config") # "" => Plain(Given(line, "--config")),
         NEW configs \in Files, configs[m].is = "valid",
         NEW start, start = Defaults(Later, "list", configs)
  PROVE  /\ \/ Later = <<>>
            \/ /\ "--config" \in Words
               /\ \E file \in Words : Plain(file) /\ Later = <<"--config", file>>
         /\ Fine(start)
         /\ \A s \in Setting :
              start.value[s] = IF RawKey(s) THEN ""
                               ELSE Over(env.files[s], Over(configs[m].sets[s], Default[s]))
<1> DEFINE given == Given(line, "--config")
<1>1. PICK args : args = Later
  OBVIOUS
<1>2. /\ args \in Seq(Words) /\ ~IgnoresConfig(args)
      /\ Fine(SelectedConfig(args)) /\ SelectedConfig(args).path = m
      /\ \/ args = <<>>
         \/ /\ "--config" \in Words
            /\ \E file \in Words : Plain(file) /\ args = <<"--config", file>>
  <2>1. CASE given # ""
    <3>1. PICK i \in DOMAIN line : line[i] = "--config"
      BY <2>1
    <3>2. "--config" \in Words
      <4>1. line[i] \in Words
        BY <3>1, WordOf, Zenon
      <4> QED
        BY <3>1, <4>1, Zenon
    <3>3. m = given /\ Plain(given)
      BY <2>1, Zenon DEF Over
    <3>4. given \in Words
      BY <3>3 DEF Words
    <3>5. args = <<"--config", given>>
      <4>1. "--config" \in {line[j] : j \in DOMAIN line}
        BY <3>1
      <4> QED
        BY <1>1, <4>1, Zenon DEF Later
    <3> QED
      BY <3>2, <3>3, <3>4, <3>5, NamedSelects
  <2>2. CASE given = ""
    <3>1. "--config" \notin {line[j] : j \in DOMAIN line}
      BY <2>2
    <3>2. args = <<>>
      BY <1>1, <3>1, Zenon DEF Later
    <3>3. m = Over(env.config, "D")
      BY <2>2, Zenon DEF Over
    <3> QED
      BY <3>2, <3>3, NoneSelects
  <2> QED
    BY <2>1, <2>2
<1>3. start = Defaults(args, "list", configs)
  BY <1>1
<1>4. Begins(start, args, configs)
  BY <1>2, <1>3, StartIs
<1>5. start.config = m /\ start.exists
  <2>1. start.config = m
    BY <1>2, <1>4, Zenon DEF Begins
  <2>2. start.exists <=> ~IgnoresConfig(args) /\ configs[start.config].is = "valid"
    BY <1>4, Zenon DEF Begins
  <2> QED
    BY <1>2, <2>1, <2>2, Zenon
<1>6. Conf(start, configs) = configs[m].sets
  BY <1>5, Zenon DEF Conf
<1>7. ASSUME NEW s \in Setting
      PROVE  start.value[s] = IF RawKey(s) THEN ""
                              ELSE Over(env.files[s], Over(configs[m].sets[s], Default[s]))
  <2>1. start.value[s] = IF RawKey(s) THEN ""
                         ELSE Over(env.files[s], Over(Conf(start, configs)[s], Default[s]))
    BY <1>4, Zenon DEF Begins
  <2> QED
    BY <1>6, <2>1, Zenon
<1>8. Fine(start)
  <2>1. start.error = IF SelectedConfig(args).error # "" THEN SelectedConfig(args).error
                      ELSE IF /\ ~IgnoresConfig(args)
                              /\ \/ configs[SelectedConfig(args).path].is = "broken"
                                 \/ /\ configs[SelectedConfig(args).path].is = "missing"
                                    /\ SelectedConfig(args).explicit /\ ~Reports("list")
                           THEN "config" ELSE ""
    BY <1>2, <1>3, StartError, Zenon
  <2>2. SelectedConfig(args).error = "" /\ configs[SelectedConfig(args).path].is = "valid"
    BY <1>2, Zenon DEF Fine
  <2>3. "valid" # "broken" /\ "valid" # "missing"
    OBVIOUS
  <2>4. /\ configs[SelectedConfig(args).path].is # "broken"
        /\ configs[SelectedConfig(args).path].is # "missing"
    BY <2>2, <2>3, Zenon
  <2> QED
    BY <2>1, <2>2, <2>4, Zenon DEF Fine
<1> QED
  BY <1>1, <1>2, <1>7, <1>8

(* After an init that is done, a list of the same environment with the     *)
(* same --config has no error; it has the identity, store and scope that   *)
(* init chose wherever the environment does not override them, and it      *)
(* unlocks the identity with the passphrase that init locked it with: what *)
(* the flags of an init chose is kept by its configuration.                *)
THEOREM InitIsUsable == Spec => []InitUsable
<1>1. ASSUME Ran, command = "init", result.done, WellFormed(line),
             ~Options(line, "init").noConfig,
             env.files["scope"] = "" \/ Plain(env.files["scope"])
      PROVE  InitUsable
  <2>1. PICK made : made = Options(line, "init")
    OBVIOUS
  <2>2. /\ env \in Environments /\ disk \in Disks /\ disk.configs \in Files
        /\ line \in Seq(Words) /\ result = Setup(made, line)
        /\ made = ParseOptions(line, "init", disk.configs)
    BY <1>1, <2>1, RanAs DEF Options
  <2>3. /\ made.error = "" /\ SameSelection(made, line) /\ made.value["identity"] # ""
        /\ result.lock = Passphrase(made.value["passphrase"], "T").is /\ result.lock # ""
        /\ made.exists => result.configs = disk.configs
        /\ ~made.exists => result.configs = [disk.configs EXCEPT
                             ![made.config] = [is |-> "valid", sets |-> made.value]]
    <3>1. result.done /\ ~made.noConfig
      BY <1>1, <2>1
    <3>2. Made(result, made, line)
      BY <2>2, <3>1, SetupIs
    <3> QED
      BY <3>2, Zenon DEF Made
  <2>4. Fine(ParseOptions(line, "init", disk.configs)) /\ "init" \in Bare
    BY <2>2, <2>3 DEF Fine, Bare
  <2>5. PICK begun : begun = Defaults(line, "init", disk.configs)
    OBVIOUS
  <2>6. Ends(made, begun, line)
    BY <1>1, <2>2, <2>4, <2>5, BareLine
  <2>7. PICK m : m = made.config
    OBVIOUS
  <2>8. Begins(begun, line, disk.configs)
    BY <2>2, <2>5, StartIs
  <2>9. /\ made \in Opts /\ m \in Word /\ m = Over(Given(line, "--config"), Over(env.config, "D"))
        /\ made.exists => disk.configs[m].is = "valid"
        /\ Plain(made.value["scope"])
    <3>1. made \in Opts /\ made.config = begun.config /\ made.exists = begun.exists
      BY <2>6 DEF Ends
    <3>2. begun.config = SelectedConfig(line).path
      BY <2>8, Zenon DEF Begins
    <3>3. begun.exists => disk.configs[begun.config].is = "valid"
      BY <2>8, Zenon DEF Begins
    <3>4. SelectedConfig(line).path = Over(Given(line, "--config"), Over(env.config, "D"))
      BY <2>6, Zenon DEF Ends
    <3>5. Plain(made.value["scope"])
      BY <2>6, Zenon DEF Ends
    <3>6. m \in Word
      BY <2>7, <3>1 DEF Opts
    <3> QED
      BY <2>7, <3>1, <3>2, <3>3, <3>4, <3>5, <3>6
  <2>10. PICK g : g = result.configs
    OBVIOUS
  <2>11. Kept(made, g, m)
    BY <2>2, <2>3, <2>7, <2>9, <2>10, KeptIs
  <2>12. g \in Files /\ g[m].is = "valid"
    BY <2>11 DEF Kept
  <2>13. PICK start : start = Defaults(Later, "list", g)
    OBVIOUS
  <2>14. /\ (\E i \in DOMAIN line : line[i] = "--config") <=> Given(line, "--config") # ""
         /\ Given(line, "--config") # "" => Plain(Given(line, "--config"))
    BY <2>6, Zenon DEF Ends
  <2>15. /\ \/ Later = <<>>
            \/ /\ "--config" \in Words
               /\ \E file \in Words : Plain(file) /\ Later = <<"--config", file>>
         /\ Fine(start)
         /\ \A s \in Setting :
              start.value[s] = IF RawKey(s) THEN ""
                               ELSE Over(env.files[s], Over(g[m].sets[s], Default[s]))
    BY <2>2, <2>9, <2>12, <2>13, <2>14, LaterStarts
  <2>16. \A s \in {"identity", "store", "scope"} : s \in Setting /\ Default[s] = "D"
    <3>1. Default["identity"] = "D" /\ Default["store"] = "D" /\ Default["scope"] = "D"
      BY DEF Default
    <3> QED
      BY <3>1, Zenon DEF Setting
  <2>17. "D" # "" /\ "passphrase" \in Setting /\ Default["passphrase"] = ""
    BY DEF Setting, Default
  <2>18. \A s \in Setting : SettingFrom(made, line, disk.configs, s)
    BY <1>1, <2>2, <2>4, Layered
  (* What the configuration sets is what init chose.                       *)
  <2>19. ASSUME NEW s \in {"identity", "store", "scope"}, ~RawKey(s)
         PROVE  Over(g[m].sets[s], Default[s]) = made.value[s]
    <3>1. s \in Setting /\ Default[s] = "D"
      BY <2>16
    <3>2. CASE made.exists
      <4>1. g[m] = disk.configs[m]
        BY <2>11, <3>2 DEF Kept
      <4>2. made.value[s] = Over(disk.configs[m].sets[s], Default[s])
        BY <1>1, <2>1, <2>3, <2>7, <3>2 DEF SameSelection
      <4> QED
        BY <4>1, <4>2
    <3>3. CASE ~made.exists
      <4>1. g[m].sets = made.value
        BY <2>11, <3>3 DEF Kept
      <4>2. made.value[s] # ""
        <5>1. SettingFrom(made, line, disk.configs, s)
          BY <2>18, <3>1
        <5>2. made.value[s] = "" <=>
                /\ Given(line, Flag[s]) = ""
                /\ \/ RawKey(s)
                   \/ env.files[s] = "" /\ Conf(made, disk.configs)[s] = "" /\ Default[s] = ""
          BY <3>1, <5>1, EmptyIs, Zenon
        <5> QED
          BY <2>17, <2>19, <3>1, <5>2, Zenon
      <4> QED
        BY <4>1, <4>2, Zenon DEF Over
    <3> QED
      BY <3>2, <3>3
  <2>20. Plain(start.value["scope"])
    <3>1. ~RawKey("scope")
      BY DEF RawKey
    <3>2. Over(g[m].sets["scope"], Default["scope"]) = made.value["scope"]
      BY <2>19, <3>1
    <3>3. start.value["scope"] = Over(env.files["scope"], made.value["scope"])
      BY <2>15, <2>16, <3>1, <3>2, Zenon
    <3> QED
      BY <1>1, <2>9, <3>3, Zenon DEF Over
  <2>21. PICK later : later = ParseOptions(Later, "list", g)
    OBVIOUS
  <2>22. Fine(later) /\ later.value = start.value
    BY <2>2, <2>12, <2>13, <2>15, <2>20, <2>21, LaterIs
  <2>23. ASSUME NEW s \in {"identity", "store", "scope"}, env.files[s] = "", ~RawKey(s)
         PROVE  later.value[s] = made.value[s]
    <3>1. Over(g[m].sets[s], Default[s]) = made.value[s]
      BY <2>19, <2>23
    <3>2. start.value[s] = Over(env.files[s], Over(g[m].sets[s], Default[s]))
      BY <2>15, <2>16, <2>23, Zenon
    <3>3. start.value[s] = made.value[s]
      BY <2>23, <3>1, <3>2, Zenon DEF Over
    <3> QED
      BY <2>22, <3>3
  <2>24. PICK identity : identity = made.value["identity"]
    OBVIOUS
  <2>25. PICK locked : locked = [disk.identities EXCEPT ![identity] = result.lock]
    OBVIOUS
  <2>26. ASSUME env.key = "", env.files = NoConfig,
                ~(made.exists /\ disk.configs[m].sets["passphrase"] # made.value["passphrase"])
         PROVE  LoadIdentity(later.value["identity"], TRUE, later.value["passphrase"], locked)
                  = identity
    <3>1. /\ ~RawKey("identity") /\ ~RawKey("passphrase")
          /\ env.files["identity"] = "" /\ env.files["passphrase"] = ""
      BY <2>26 DEF RawKey, NoConfig, Setting
    <3>2. later.value["identity"] = identity
      BY <2>23, <2>24, <3>1
    <3>3. g[m].sets["passphrase"] = made.value["passphrase"]
      BY <2>11, <2>26 DEF Kept
    <3>4. PICK path : path = made.value["passphrase"]
      OBVIOUS
    <3>5. later.value["passphrase"] = path
      <4>1. start.value["passphrase"] =
              Over(env.files["passphrase"], Over(g[m].sets["passphrase"], Default["passphrase"]))
        BY <2>15, <2>17, <3>1, Zenon
      <4>2. start.value["passphrase"] = path
        BY <2>17, <3>1, <3>3, <3>4, <4>1, Zenon DEF Over
      <4> QED
        BY <2>22, <4>2
    <3>6. path \in Words /\ identity \in Word /\ identity # ""
      <4>1. made.value["identity"] \in Words /\ made.value["passphrase"] \in Words
        BY <2>9 DEF Opts, Setting
      <4> QED
        BY <2>3, <2>24, <3>4, <4>1, Zenon DEF Words
    <3>7. PICK lock : lock = result.lock
      OBVIOUS
    <3>8. lock # "none" /\ Passphrase(path, lock).is = lock
      <4>1. env \in Environments /\ disk \in Disks /\ path \in Words
        BY <2>2, <3>6
      <4>2. lock = Passphrase(path, "T").is /\ lock # ""
        BY <2>3, <3>4, <3>7, Zenon
      <4> QED
        BY <4>1, <4>2, FoundAgain, Zenon
    <3>9. locked[identity] = lock
      <4>1. DOMAIN disk.identities = Word
        BY <2>2, DiskAssumption
      <4> QED
        BY <2>25, <3>6, <3>7, <4>1
    <3>10. LoadIdentity(identity, TRUE, path, locked) = identity
      <4>1. Over(identity, "D") = identity
        BY <3>6, Zenon DEF Over
      <4> QED
        BY <3>6, <3>8, <3>9, <4>1, Zenon DEF LoadIdentity
    <3> QED
      BY <3>2, <3>5, <3>10
  <2>27. later.error = ""
    BY <2>22 DEF Fine
  <2> QED
    BY <2>1, <2>7, <2>10, <2>21, <2>23, <2>24, <2>25, <2>26, <2>27, Zenon DEF InitUsable, RawKey
<1>2. Ran => InitUsable
  BY <1>1 DEF InitUsable
<1> QED
  BY <1>2, RanAlways, PTL
=============================================================================
