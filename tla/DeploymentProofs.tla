--------------------------- MODULE DeploymentProofs ---------------------------
(***************************************************************************)
(* Proofs about Deployment, for any start-ups, cleanups, operators and     *)
(* numbers of messages: the lifespan by itself, the migration by itself,   *)
(* and both together, which is a behaviour of each.                        *)
(***************************************************************************)
EXTENDS Deployment, SequenceTheorems, FiniteSetTheorems, TLAPS

-----------------------------------------------------------------------------
(* Sequences.                                                              *)

LEMMA JoinOne ==
  ASSUME NEW S, NEW s \in Seq(S), NEW e \in S
  PROVE  /\ s \o <<e>> \in Seq(S) /\ Len(s \o <<e>>) = Len(s) + 1
         /\ \A i \in 1..Len(s) : (s \o <<e>>)[i] = s[i]
         /\ (s \o <<e>>)[Len(s) + 1] = e
<1>1. s \o <<e>> = Append(s, e)
  BY AppendIsConcat
<1> QED
  BY <1>1, AppendProperties

LEMMA JoinTwo ==
  ASSUME NEW S, NEW s \in Seq(S), NEW e \in S, NEW f \in S
  PROVE  /\ s \o <<e, f>> \in Seq(S) /\ Len(s \o <<e, f>>) = Len(s) + 2
         /\ \A i \in 1..Len(s) : (s \o <<e, f>>)[i] = s[i]
         /\ (s \o <<e, f>>)[Len(s) + 1] = e /\ (s \o <<e, f>>)[Len(s) + 2] = f
<1> DEFINE t == s \o <<e, f>>
<1>1. /\ t \in Seq(S) /\ Len(t) = Len(s) + Len(<<e, f>>)
      /\ \A i \in 1..(Len(s) + Len(<<e, f>>)) :
           t[i] = IF i <= Len(s) THEN s[i] ELSE <<e, f>>[i - Len(s)]
  BY ConcatProperties
<1>2. Len(<<e, f>>) = 2 /\ Len(s) \in Nat
  OBVIOUS
<1> HIDE DEF t
<1>3. \A i \in 1..(Len(s) + 2) : t[i] = IF i <= Len(s) THEN s[i] ELSE <<e, f>>[i - Len(s)]
  BY <1>1, <1>2
<1>4. t[Len(s) + 1] = <<e, f>>[1] /\ t[Len(s) + 2] = <<e, f>>[2]
  <2>1. (Len(s) + 1) - Len(s) = 1 /\ (Len(s) + 2) - Len(s) = 2
    BY <1>2
  <2>2. ~(Len(s) + 1 <= Len(s)) /\ ~(Len(s) + 2 <= Len(s))
    BY <1>2
  <2>3. Len(s) + 1 \in 1..(Len(s) + 2) /\ Len(s) + 2 \in 1..(Len(s) + 2)
    BY <1>2
  <2> QED
    BY <1>3, <2>1, <2>2, <2>3
<1>5. \A i \in 1..Len(s) : t[i] = s[i]
  BY <1>2, <1>3
<1> QED
  BY <1>1, <1>2, <1>4, <1>5 DEF t

\* A sequence that is the beginning of another one, backwards, element by
\* element.
LEMMA PrefixOfReverse ==
  ASSUME NEW S, NEW s \in Seq(S), NEW t \in Seq(S), Len(t) <= Len(s),
         \A i \in 1..Len(t) : t[i] = s[(Len(s) - i) + 1]
  PROVE  IsPrefix(t, Reverse(s)) /\ (Len(t) = Len(s) => t = Reverse(s))
<1> DEFINE r == Reverse(s)
<1>1. Len(s) \in Nat /\ Len(t) \in Nat
  OBVIOUS
<1>2. r \in Seq(S) /\ Len(r) = Len(s) /\ \A i \in 1..Len(s) : r[i] = s[(Len(s) - i) + 1]
  <2>1. \A i \in 1..Len(s) : s[(Len(s) - i) + 1] \in S
    BY <1>1
  <2> QED
    BY <1>1, <2>1 DEF Reverse
<1> HIDE DEF r
<1>3. Len(t) = Len(s) => t = r
  BY <1>2, SeqEqual
<1>4. SubSeq(t, 1, Len(t)) = SubSeq(r, 1, Len(t))
  <2>1. \A i \in 1..Len(t) : t[i] = r[i] /\ r[i] \in S
    BY <1>1, <1>2
  <2>2. SubSeq(t, 1, Len(t)) = t
    BY SubSeqFull
  <2>3. /\ SubSeq(r, 1, Len(t)) \in Seq(S)
        /\ Len(SubSeq(r, 1, Len(t))) = Len(t)
        /\ \A i \in 1..Len(t) : SubSeq(r, 1, Len(t))[i] = r[i]
    <3>1. /\ SubSeq(r, 1, Len(t)) \in Seq(S)
          /\ Len(SubSeq(r, 1, Len(t))) = IF 1 <= Len(t) THEN Len(t) - 1 + 1 ELSE 0
          /\ \A i \in 1..(Len(t) - 1 + 1) : SubSeq(r, 1, Len(t))[i] = r[1 + i - 1]
      BY <1>1, <2>1, SubSeqProperties
    <3> QED
      BY <1>1, <3>1
  <2> QED
    BY <2>1, <2>2, <2>3, SeqEqual
<1> QED
  BY <1>1, <1>2, <1>3, <1>4 DEF IsPrefix, r

-----------------------------------------------------------------------------
(* The lifespan.  What is owned is a function of the step of the start-up: *)
(* the first resources of a fixed list.                                    *)

Full ==
  IF mode = "workflow" THEN <<"gateway", "database", "store", "models", "checkpoint", "service">>
  ELSE IF mode = "legacy" THEN <<"gateway", "given", "database">>
  ELSE <<"given">>

\* How many resources are owned before each step, and after the last.
Taken(a) ==
  IF mode = "workflow"
  THEN IF a <= 2 THEN a - 1 ELSE IF a <= 5 THEN 2 ELSE IF a <= 10 THEN 4 ELSE IF a <= 13 THEN 5 ELSE 6
  ELSE IF mode = "legacy" /\ a > 4 THEN 3 ELSE a - 1

OwnedOK ==
  /\ Len(owned) = Taken(at)
  /\ \A i \in 1..Len(owned) : owned[i] = Full[i]

\* What was closed is the end of what is owned, backwards, and only what is
\* still to close holds anything.
ClosedOK ==
  /\ Len(closed) <= Len(owned)
  /\ \A i \in 1..Len(closed) : closed[i] = owned[(Len(owned) - i) + 1]
  /\ \A x \in held : \E i \in 1..(Len(owned) - Len(closed)) : owned[i] = x

PhaseOK ==
  /\ phase = "starting" => at <= Len(Steps)
  /\ phase = "serving" => at = Len(Steps) + 1
  /\ phase \in {"starting", "draining", "serving"} => Len(closed) = 0
  /\ phase = "ended" => Len(closed) = Len(owned)

\* Who uses what is owned: the thread of the warm-up only under its step, and
\* a cleanup only before anything is closed.
UsersOK ==
  /\ thread = "running" => mode = "workflow" /\ at = 9 /\ phase \in {"starting", "draining"}
  /\ \A c \in Cleanups : cleanup[c] = "running" =>
       mode = "workflow" /\ at = 14 /\ phase \in {"serving", "closing"} /\ Len(closed) = 0

LifespanInv == TypeOK /\ OwnedOK /\ ClosedOK /\ PhaseOK /\ UsersOK /\ EndIsTold

LEMMA Shape ==
  ASSUME mode \in Modes
  PROVE  \/ mode = "workflow" /\ Len(Steps) = 13
         \/ mode = "legacy" /\ Len(Steps) = 4
         \/ mode = "injected" /\ Len(Steps) = 1
BY ModesAssumption DEF Steps, Step, Gateway, Given, Database, Connect, Migrate, Knowledge, Tables,
  Collection, Corpus, Warmup, Checkpoint, Connected, Verified, Service

\* What a step takes is what comes next in the list, and it makes hold only
\* what is owned by then.
LEMMA StepTakes ==
  ASSUME mode \in Modes, at \in 1..Len(Steps)
  PROVE  /\ Taken(at) \in Nat /\ Taken(at + 1) \in Nat
         /\ \/ Here.own = <<>> /\ Taken(at + 1) = Taken(at)
            \/ Here.own = <<Full[Taken(at) + 1]>> /\ Taken(at + 1) = Taken(at) + 1
            \/ Here.own = <<Full[Taken(at) + 1], Full[Taken(at) + 2]>> /\ Taken(at + 1) = Taken(at) + 2
         /\ \A x \in Here.hold : \E i \in 1..Taken(at + 1) : Full[i] = x
         /\ Here.name = "warmup" => mode = "workflow" /\ at = 9
         /\ Here.name = "migration" <=> mode = "workflow" /\ at = 4
<1> USE DEF Full, Taken, Here, Steps, Step, Gateway, Given, Database, Connect, Migrate, Knowledge,
      Tables, Collection, Corpus, Warmup, Checkpoint, Connected, Verified, Service
<1>1. CASE mode = "workflow"
  <2>1. at \in 1..13
    BY <1>1, Shape
  <2>a. CASE at = 1
    BY <1>1, <2>a
  <2>b. CASE at = 2
    BY <1>1, <2>b
  <2>c. CASE at = 3
    BY <1>1, <2>c
  <2>d. CASE at = 4
    BY <1>1, <2>d
  <2>e. CASE at = 5
    BY <1>1, <2>e
  <2>f. CASE at = 6
    BY <1>1, <2>f
  <2>g. CASE at = 7
    BY <1>1, <2>g
  <2>h. CASE at = 8
    BY <1>1, <2>h
  <2>i. CASE at = 9
    BY <1>1, <2>i
  <2>j. CASE at = 10
    BY <1>1, <2>j
  <2>k. CASE at = 11
    BY <1>1, <2>k
  <2>l. CASE at = 12
    BY <1>1, <2>l
  <2>m. CASE at = 13
    <3>1. /\ Taken(at) \in Nat /\ Taken(at + 1) \in Nat
      BY <1>1, <2>m
    <3>2. /\ Here.own = <<Full[Taken(at) + 1]>> /\ Taken(at + 1) = Taken(at) + 1
      BY <1>1, <2>m
    <3>3. \A x \in Here.hold : \E i \in 1..Taken(at + 1) : Full[i] = x
      BY <1>1, <2>m
    <3>4. /\ Here.name # "warmup" /\ Here.name # "migration"
      BY <1>1, <2>m
    <3> HIDE DEF Full, Taken, Here
    <3> QED
      BY <3>1, <3>2, <3>3, <3>4, <2>m
  <2> HIDE DEF Full, Taken, Here, Steps, Step, Gateway, Given, Database, Connect, Migrate, Knowledge,
        Tables, Collection, Corpus, Warmup, Checkpoint, Connected, Verified, Service
  <2> QED
    BY <2>1, <2>a, <2>b, <2>c, <2>d, <2>e, <2>f, <2>g, <2>h, <2>i, <2>j, <2>k, <2>l, <2>m
<1>2. CASE mode = "legacy"
  <2>1. at \in 1..4
    BY <1>2, Shape
  <2>a. CASE at = 1
    BY <1>2, <2>a
  <2>b. CASE at = 2
    BY <1>2, <2>b
  <2>c. CASE at = 3
    BY <1>2, <2>c
  <2>d. CASE at = 4
    <3>1. /\ Taken(at) \in Nat /\ Taken(at + 1) \in Nat
      BY <1>2, <2>d
    <3>2. /\ Here.own = <<>> /\ Taken(at + 1) = Taken(at)
      BY <1>2, <2>d
    <3>3. \A x \in Here.hold : \E i \in 1..Taken(at + 1) : Full[i] = x
      BY <1>2, <2>d
    <3>4. /\ Here.name # "warmup" /\ Here.name # "migration"
      BY <1>2, <2>d
    <3> HIDE DEF Full, Taken, Here
    <3> QED
      BY <3>1, <3>2, <3>3, <3>4, <1>2, <2>d
  <2> HIDE DEF Full, Taken, Here, Steps, Step, Gateway, Given, Database, Connect, Migrate, Knowledge,
        Tables, Collection, Corpus, Warmup, Checkpoint, Connected, Verified, Service
  <2> QED
    BY <2>1, <2>a, <2>b, <2>c, <2>d
<1>3. CASE mode = "injected"
  <2>1. at = 1
    BY <1>3, Shape
  <2> QED
    BY <1>3, <2>1
<1> HIDE DEF Full, Taken, Here, Steps, Step, Gateway, Given, Database, Connect, Migrate, Knowledge,
      Tables, Collection, Corpus, Warmup, Checkpoint, Connected, Verified, Service
<1> QED
  BY <1>1, <1>2, <1>3, Shape

\* The list names resources, each once, and holds all that any step takes.
LEMMA ListOK ==
  ASSUME mode \in Modes, NEW a \in 1..(Len(Steps) + 1)
  PROVE  /\ Taken(a) \in 0..6
         /\ \A i \in 1..Taken(a) : Full[i] \in Resources
         /\ \A i, j \in 1..Taken(a) : Full[i] = Full[j] => i = j
<1>1. CASE mode = "workflow"
  <2>1. Taken(a) \in 0..6
    BY <1>1, Shape DEF Taken
  <2>2. \A i \in 1..6 : Full[i] \in Resources
    BY <1>1 DEF Full, Resources
  <2>3. \A i, j \in 1..6 : Full[i] = Full[j] => i = j
    BY <1>1 DEF Full
  <2> QED
    BY <2>1, <2>2, <2>3
<1>2. CASE mode = "legacy"
  <2>1. Taken(a) \in 0..3
    BY <1>2, Shape DEF Taken
  <2>2. \A i \in 1..3 : Full[i] \in Resources
    BY <1>2 DEF Full, Resources
  <2>3. \A i, j \in 1..3 : Full[i] = Full[j] => i = j
    BY <1>2 DEF Full
  <2> QED
    BY <2>1, <2>2, <2>3
<1>3. CASE mode = "injected"
  <2>1. a = 1 \/ a = 2
    <3>1. Len(Steps) = 1
      BY <1>3, Shape
    <3> QED
      BY <3>1
  <2>3. Taken(a) \in 0..1
    BY <1>3, <2>1 DEF Taken
  <2>2. Full[1] \in Resources
    BY <1>3 DEF Full, Resources
  <2> QED
    BY <2>2, <2>3
<1> QED
  BY <1>1, <1>2, <1>3, Shape

\* What is still to close is the beginning of what is owned.
LEMMA OpenOK ==
  ASSUME TypeOK, ClosedOK
  PROVE  /\ Len(owned) \in Nat /\ Len(closed) \in Nat
         /\ Open = <<>> <=> Len(closed) = Len(owned)
         /\ Open # <<>> => /\ Last(Open) = owned[Len(owned) - Len(closed)]
                          /\ Last(Open) \in Resources
<1>1. owned \in Seq(Resources) /\ Len(owned) \in Nat /\ Len(closed) \in Nat
  BY DEF TypeOK
<1> DEFINE n == Len(owned) - Len(closed)
<1>2. n \in Nat /\ n <= Len(owned)
  BY <1>1 DEF ClosedOK
<1>3. /\ Open \in Seq(Resources) /\ Len(Open) = n
      /\ \A i \in 1..n : Open[i] = owned[i]
  <2> HIDE DEF n
  <2>1. \A i \in 1..n : owned[i] \in Resources
    BY <1>1, <1>2
  <2>2. /\ SubSeq(owned, 1, n) \in Seq(Resources)
        /\ Len(SubSeq(owned, 1, n)) = IF 1 <= n THEN n - 1 + 1 ELSE 0
        /\ \A i \in 1..(n - 1 + 1) : SubSeq(owned, 1, n)[i] = owned[1 + i - 1]
    BY <1>2, <2>1, SubSeqProperties
  <2>3. Open = SubSeq(owned, 1, n)
    BY DEF Open, n
  <2> QED
    BY <1>1, <1>2, <2>2, <2>3
<1> HIDE DEF n
<1>4. Open = <<>> <=> n = 0
  BY <1>2, <1>3, EmptySeq
<1>5. Open # <<>> => n \in 1..n /\ Last(Open) = Open[n]
  BY <1>2, <1>3, <1>4 DEF Last
<1>6. n \in 1..Len(owned) => owned[n] \in Resources
  BY <1>1
<1> QED
  BY <1>1, <1>2, <1>3, <1>4, <1>5, <1>6 DEF n

LEMMA LifespanInitInv == Init => LifespanInv
<1> SUFFICES ASSUME Init PROVE LifespanInv
  OBVIOUS
<1>1. Len(Steps) \in Nat \ {0}
  <2>1. mode \in Modes
    BY DEF Init
  <2> QED
    BY <2>1, Shape
<1>2. owned = <<>> /\ closed = <<>> /\ Len(owned) = 0 /\ Len(closed) = 0
  BY DEF Init
<1>3. TypeOK
  <2>1. owned \in Seq(Resources) /\ closed \in Seq(Resources) /\ IsInjective(owned)
    BY <1>2 DEF IsInjective
  <2>2. at \in 1..(Len(Steps) + 1)
    BY <1>1 DEF Init
  <2> QED
    BY <2>1, <2>2 DEF Init, TypeOK
<1>4. OwnedOK
  BY <1>2, ModesAssumption DEF Init, OwnedOK, Taken
<1>5. ClosedOK
  BY <1>2 DEF Init, ClosedOK
<1>6. PhaseOK
  BY <1>1, <1>2 DEF Init, PhaseOK
<1>7. UsersOK
  BY DEF Init, UsersOK
<1> QED
  BY <1>3, <1>4, <1>5, <1>6, <1>7 DEF LifespanInv, EndIsTold, Init

LEMMA AdvanceKeepsInv ==
  ASSUME LifespanInv, Advance
  PROVE  LifespanInv'
<1> USE DEF LifespanInv
<1>1. /\ mode \in Modes /\ mode' = mode /\ phase = "starting" /\ at' = at + 1
      /\ at \in 1..Len(Steps) /\ Len(Steps) \in Nat /\ Len(Steps)' = Len(Steps)
      /\ closed' = closed /\ Len(closed) = 0 /\ at + 1 \in 1..(Len(Steps) + 1)
  <2>1. Len(Steps) \in Nat /\ mode \in Modes
    BY Shape DEF TypeOK
  <2>2. Steps' = Steps
    BY DEF Advance, Steps
  <2> QED
    BY <2>1, <2>2 DEF TypeOK, Advance, PhaseOK
<1>2. \A a : Taken(a)' = Taken(a)
  BY <1>1 DEF Taken
<1>3. Full' = Full
  BY <1>1 DEF Full
<1>4. /\ Taken(at + 1) \in 0..6
      /\ \A i \in 1..Taken(at + 1) : Full[i] \in Resources
      /\ \A i, j \in 1..Taken(at + 1) : Full[i] = Full[j] => i = j
  <2> HIDE DEF Taken
  <2> QED
    BY <1>1, ListOK
<1>5. owned \in Seq(Resources) /\ Len(owned) \in Nat /\ Len(owned) = Taken(at) /\ owned' = owned \o Here.own
  BY DEF TypeOK, OwnedOK, Advance
<1>6. /\ owned' \in Seq(Resources) /\ Len(owned') = Taken(at + 1)
      /\ Len(owned') \in Nat /\ Len(owned') >= Len(owned)
      /\ \A i \in 1..Len(owned') : owned'[i] = Full[i]
  <2>1. CASE Here.own = <<>> /\ Taken(at + 1) = Taken(at)
    <3>1. owned' = owned
      BY <1>5, <2>1, ConcatEmptySeq
    <3> QED
      BY <3>1, <2>1, <1>5 DEF OwnedOK
  <2>2. CASE Here.own = <<Full[Taken(at) + 1]>> /\ Taken(at + 1) = Taken(at) + 1
    <3>1. Taken(at) + 1 \in 1..Taken(at + 1)
      BY <2>2, <1>5
    <3>2. Full[Taken(at) + 1] \in Resources
      BY <3>1, <1>4
    <3>3. /\ owned' \in Seq(Resources) /\ Len(owned') = Len(owned) + 1
          /\ \A i \in 1..Len(owned) : owned'[i] = owned[i]
          /\ owned'[Len(owned) + 1] = Full[Taken(at) + 1]
      BY <3>2, <2>2, <1>5, JoinOne
    <3> QED
      BY <3>3, <2>2, <1>5 DEF OwnedOK
  <2>3. CASE Here.own = <<Full[Taken(at) + 1], Full[Taken(at) + 2]>> /\ Taken(at + 1) = Taken(at) + 2
    <3>1. Taken(at) + 1 \in 1..Taken(at + 1) /\ Taken(at) + 2 \in 1..Taken(at + 1)
      BY <2>3, <1>5
    <3>2. Full[Taken(at) + 1] \in Resources /\ Full[Taken(at) + 2] \in Resources
      BY <3>1, <1>4
    <3>3. /\ owned' \in Seq(Resources) /\ Len(owned') = Len(owned) + 2
          /\ \A i \in 1..Len(owned) : owned'[i] = owned[i]
          /\ owned'[Len(owned) + 1] = Full[Taken(at) + 1]
          /\ owned'[Len(owned) + 2] = Full[Taken(at) + 2]
      BY <3>2, <2>3, <1>5, JoinTwo
    <3>4. \A i \in 1..Len(owned') : i \in 1..Len(owned) \/ i = Len(owned) + 1 \/ i = Len(owned) + 2
      <4>1. \A n \in Nat : \A i \in 1..(n + 2) : i \in 1..n \/ i = n + 1 \/ i = n + 2
        OBVIOUS
      <4>2. Len(owned) \in Nat
        BY <1>5
      <4> QED
        BY <3>3, <4>1, <4>2
    <3>5. \A i \in 1..Len(owned) : owned'[i] = Full[i]
      BY <3>3 DEF OwnedOK
    <3>6. \A i \in 1..Len(owned') : owned'[i] = Full[i]
      BY <3>3, <3>4, <3>5, <1>5
    <3> QED
      BY <3>3, <3>6, <2>3, <1>5
  <2> QED
    BY <1>1, <2>1, <2>2, <2>3, StepTakes
<1>7. \A x \in held' : \E i \in 1..(Len(owned') - Len(closed)) : owned'[i] = x
  <2> TAKE x \in held'
  <2>1. CASE x \in held
    <3>1. PICK i \in 1..(Len(owned) - Len(closed)) : owned[i] = x
      BY <2>1 DEF ClosedOK
    <3>2. owned[i] = Full[i] /\ i \in 1..Len(owned') /\ i \in 1..(Len(owned') - Len(closed))
      BY <3>1, <1>1, <1>5, <1>6 DEF OwnedOK
    <3> QED
      BY <3>1, <3>2, <1>6
  <2>2. CASE x \in Here.hold
    <3>1. PICK i \in 1..Taken(at + 1) : Full[i] = x
      BY <2>2, <1>1, StepTakes
    <3>2. i \in 1..Len(owned') /\ i \in 1..(Len(owned') - Len(closed))
      BY <3>1, <1>1, <1>6
    <3> QED
      BY <3>1, <3>2, <1>6
  <2> QED
    BY <2>1, <2>2 DEF Advance
<1>8. OwnedOK'
  BY <1>1, <1>2, <1>3, <1>6 DEF OwnedOK
<1>9. ClosedOK'
  BY <1>1, <1>6, <1>7 DEF ClosedOK
<1>10. PhaseOK'
  BY <1>1 DEF PhaseOK, Advance
<1>11. UsersOK'
  <2>1. thread # "running"
    <3>1. thread = "running" => mode = "workflow" /\ at = 9
      BY DEF UsersOK
    <3>2. mode = "workflow" /\ at = 9 => Here.name = "warmup"
      BY DEF Here, Steps, Step, Warmup
    <3> QED
      BY <3>1, <3>2 DEF Advance
  <2>2. \A c \in Cleanups : cleanup[c] # "running"
    BY <1>1 DEF UsersOK
  <2> QED
    BY <2>1, <2>2 DEF UsersOK, Advance, turns
<1>12. TypeOK'
  <2>1. IsInjective(owned')
    <3>1. DOMAIN owned' = 1..Len(owned')
      BY <1>6
    <3> QED
      BY <3>1, <1>4, <1>6 DEF IsInjective
  <2>2. held' \subseteq Resources
    <3> SUFFICES ASSUME NEW x \in held' PROVE x \in Resources
      OBVIOUS
    <3>1. PICK i \in 1..(Len(owned') - Len(closed)) : owned'[i] = x
      BY <1>7
    <3>2. i \in 1..Len(owned')
      BY <3>1, <1>1, <1>6
    <3> QED
      BY <3>1, <3>2, <1>6
  <2>3. at' \in 1..(Len(Steps)' + 1) /\ phase' # "ended" /\ phase' \in {"starting", "serving"}
    BY <1>1 DEF Advance
  <2> QED
    BY <2>1, <2>2, <2>3, <1>1, <1>6 DEF TypeOK, Advance, turns
<1>13. EndIsTold'
  BY <1>1 DEF EndIsTold, Advance
<1> QED
  BY <1>8, <1>9, <1>10, <1>11, <1>12, <1>13

\* Every other step leaves the start-up where it is.
LEMMA StaysPut ==
  ASSUME LifespanInv, UNCHANGED boot
  PROVE  /\ OwnedOK' /\ Steps' = Steps /\ mode' \in Modes /\ mode' = mode /\ at' = at
         /\ at' \in 1..(Len(Steps') + 1) /\ owned' \in Seq(Resources) /\ IsInjective(owned')
         /\ Len(owned) \in Nat /\ Len(closed) \in Nat
<1>1. Steps' = Steps /\ mode' = mode /\ at' = at /\ owned' = owned
  BY DEF boot, Steps
<1>2. OwnedOK'
  BY <1>1 DEF LifespanInv, OwnedOK, Taken, Full
<1> QED
  BY <1>1, <1>2 DEF LifespanInv, TypeOK

LEMMA WarmKeepsInv ==
  ASSUME LifespanInv, Warm
  PROVE  LifespanInv'
<1>1. UNCHANGED boot
  BY DEF Warm
<1>2. mode = "workflow" /\ at = 9
  BY StepTakes DEF Warm, LifespanInv, TypeOK
<1>3. Len(owned) = 4 /\ owned[4] = "models" /\ Len(closed) = 0
  <2>1. Len(owned) = 4
    BY <1>2 DEF LifespanInv, OwnedOK, Taken
  <2>2. owned[4] = Full[4]
    BY <2>1 DEF LifespanInv, OwnedOK
  <2> QED
    BY <1>2, <2>1, <2>2 DEF Warm, LifespanInv, PhaseOK, Full
<1>4. TypeOK'
  BY <1>1, StaysPut DEF Warm, LifespanInv, TypeOK, turns, boot, Resources
<1>5. ClosedOK'
  <2>1. \A x \in held : \E i \in 1..(Len(owned) - Len(closed)) : owned[i] = x
    BY DEF LifespanInv, ClosedOK
  <2>2. 4 \in 1..(Len(owned) - Len(closed))
    BY <1>3
  <2>3. \A x \in held' : \E i \in 1..(Len(owned) - Len(closed)) : owned[i] = x
    BY <1>3, <2>1, <2>2 DEF Warm
  <2>4. owned' = owned /\ closed' = closed
    BY DEF Warm, boot
  <2> QED
    BY <2>3, <2>4 DEF LifespanInv, ClosedOK
<1>6. PhaseOK' /\ UsersOK' /\ EndIsTold'
  BY <1>1, <1>2, StaysPut DEF Warm, LifespanInv, PhaseOK, UsersOK, EndIsTold, boot, turns
<1> QED
  BY <1>1, <1>4, <1>5, <1>6, StaysPut DEF LifespanInv

LEMMA RestKeepsInv ==
  ASSUME LifespanInv,
         \/ Raise \/ ThreadEnds \/ Cancel \/ Drained \/ Shutdown \/ CancelClosing
         \/ \E c \in Cleanups : Retain(c) \/ CleanedUp(c)
  PROVE  LifespanInv'
<1>1. UNCHANGED <<boot, held, closed>>
  BY DEF Raise, ThreadEnds, Cancel, Drained, Shutdown, CancelClosing, Retain, CleanedUp
<1>2. ClosedOK'
  BY <1>1 DEF LifespanInv, ClosedOK, boot
<1>3. /\ OwnedOK' /\ Steps' = Steps /\ mode' \in Modes /\ mode' = mode /\ at' = at
      /\ at' \in 1..(Len(Steps') + 1) /\ owned' \in Seq(Resources) /\ IsInjective(owned')
      /\ Len(owned) \in Nat /\ Len(closed) \in Nat /\ closed' = closed /\ held' = held
      /\ owned' = owned
  BY <1>1, StaysPut DEF boot
<1> USE <1>3 DEF LifespanInv
<1>4. CASE Raise
  <2>1. TypeOK'
    BY <1>4 DEF Raise, TypeOK, turns
  <2>2. thread # "running"
    <3>1. thread = "running" => mode = "workflow" /\ at = 9
      BY DEF UsersOK
    <3>2. mode = "workflow" /\ at = 9 => Here.name = "warmup"
      BY DEF Here, Steps, Step, Warmup
    <3> QED
      BY <3>1, <3>2, <1>4 DEF Raise
  <2>3. PhaseOK' /\ UsersOK' /\ EndIsTold'
    BY <1>4, <2>2 DEF Raise, PhaseOK, UsersOK, EndIsTold, turns
  <2> QED
    BY <1>2, <2>1, <2>3
<1>5. CASE ThreadEnds
  <2>1. TypeOK'
    BY <1>5 DEF ThreadEnds, TypeOK, turns
  <2>2. PhaseOK' /\ UsersOK' /\ EndIsTold'
    BY <1>5 DEF ThreadEnds, PhaseOK, UsersOK, EndIsTold, turns
  <2> QED
    BY <1>2, <2>1, <2>2
<1>6. CASE Cancel
  <2>1. TypeOK'
    BY <1>6 DEF Cancel, TypeOK, turns
  <2>2. PhaseOK' /\ EndIsTold'
    BY <1>6 DEF Cancel, PhaseOK, EndIsTold, turns
  <2>3. UsersOK'
    BY <1>6 DEF Cancel, PhaseOK, UsersOK, turns
  <2> QED
    BY <1>2, <2>1, <2>2, <2>3
<1>7. CASE Drained
  <2>1. TypeOK'
    BY <1>7 DEF Drained, TypeOK, turns
  <2>2. PhaseOK' /\ UsersOK' /\ EndIsTold'
    BY <1>7 DEF Drained, PhaseOK, UsersOK, EndIsTold, turns
  <2> QED
    BY <1>2, <2>1, <2>2
<1>8. CASE Shutdown
  <2>1. TypeOK'
    BY <1>8 DEF Shutdown, TypeOK, turns
  <2>2. PhaseOK' /\ UsersOK' /\ EndIsTold'
    BY <1>8 DEF Shutdown, PhaseOK, UsersOK, EndIsTold, turns
  <2> QED
    BY <1>2, <2>1, <2>2
<1>9. CASE CancelClosing
  <2>1. TypeOK'
    BY <1>9 DEF CancelClosing, TypeOK, turns
  <2>2. PhaseOK' /\ UsersOK' /\ EndIsTold'
    BY <1>9 DEF CancelClosing, PhaseOK, UsersOK, EndIsTold, turns
  <2> QED
    BY <1>2, <2>1, <2>2
<1>10. ASSUME NEW c \in Cleanups, Retain(c)
       PROVE  LifespanInv'
  <2>1. at = 14
    <3>1. Len(Steps) = 13
      BY <1>10, Shape DEF Retain, TypeOK
    <3> QED
      BY <1>10, <3>1 DEF Retain, PhaseOK
  <2>2. TypeOK'
    BY <1>10 DEF Retain, TypeOK, turns
  <2>3. PhaseOK' /\ UsersOK' /\ EndIsTold'
    BY <1>10, <2>1 DEF Retain, PhaseOK, UsersOK, EndIsTold, TypeOK
  <2> QED
    BY <1>2, <2>2, <2>3
<1>11. ASSUME NEW c \in Cleanups, CleanedUp(c)
       PROVE  LifespanInv'
  <2>2. TypeOK'
    BY <1>11 DEF CleanedUp, TypeOK, turns
  <2>3. PhaseOK' /\ UsersOK' /\ EndIsTold'
    BY <1>11 DEF CleanedUp, PhaseOK, UsersOK, EndIsTold, TypeOK
  <2> QED
    BY <1>2, <2>2, <2>3
<1> QED
  BY <1>4, <1>5, <1>6, <1>7, <1>8, <1>9, <1>10, <1>11

LEMMA CloseNextKeepsInv ==
  ASSUME LifespanInv, CloseNext
  PROVE  LifespanInv'
<1> USE DEF LifespanInv
<1> DEFINE n == Len(owned) - Len(closed)
<1>1. /\ UNCHANGED boot /\ owned' = owned /\ phase = "closing" /\ phase' = "closing"
      /\ closed' = Append(closed, Last(Open)) /\ held' = held \ {Last(Open)}
      /\ Open # <<>>
  BY DEF CloseNext, boot
<1>2. /\ Len(owned) \in Nat /\ Len(closed) \in Nat /\ Last(Open) = owned[n]
      /\ Last(Open) \in Resources /\ Len(closed) # Len(owned)
  BY <1>1, OpenOK
<1>3. n \in Nat \ {0} /\ n <= Len(owned)
  BY <1>2 DEF ClosedOK
<1> HIDE DEF n
<1>4. /\ closed' \in Seq(Resources) /\ Len(closed') = Len(closed) + 1
      /\ \A i \in 1..Len(closed) : closed'[i] = closed[i]
      /\ closed'[Len(closed) + 1] = owned[n]
  BY <1>1, <1>2, AppendProperties DEF TypeOK
<1>5. ClosedOK'
  <2>1. Len(closed') <= Len(owned')
    BY <1>1, <1>2, <1>3, <1>4 DEF n
  <2>2. \A i \in 1..Len(closed') : closed'[i] = owned[(Len(owned) - i) + 1]
    <3> TAKE i \in 1..Len(closed')
    <3>1. CASE i \in 1..Len(closed)
      BY <3>1, <1>4 DEF ClosedOK
    <3>2. CASE i = Len(closed) + 1
      <4>1. (Len(owned) - i) + 1 = n
        BY <3>2, <1>2 DEF n
      <4> QED
        BY <3>2, <4>1, <1>4
    <3> QED
      BY <3>1, <3>2, <1>2, <1>4
  <2>3. \A x \in held' : \E i \in 1..(Len(owned') - Len(closed')) : owned'[i] = x
    <3> TAKE x \in held'
    <3>1. PICK i \in 1..n : owned[i] = x
      BY <1>1 DEF ClosedOK, n
    <3>2. i # n
      BY <3>1, <1>1, <1>2
    <3>3. i \in 1..(Len(owned') - Len(closed'))
      BY <3>1, <3>2, <1>1, <1>2, <1>3, <1>4 DEF n
    <3> QED
      BY <3>1, <3>3, <1>1
  <2> QED
    BY <2>1, <2>2, <2>3, <1>1 DEF ClosedOK
<1>6. UsersOK'
  <2>1. \A c \in Cleanups : cleanup[c] # "running"
    <3> SUFFICES ASSUME NEW c \in Cleanups, cleanup[c] = "running" PROVE FALSE
      OBVIOUS
    <3>1. mode = "workflow" /\ at = 14 /\ Len(closed) = 0
      BY DEF UsersOK
    <3>2. Len(owned) = 6 /\ n = 6
      BY <3>1 DEF OwnedOK, Taken, n
    <3>3. owned[6] = Full[6]
      BY <3>2 DEF OwnedOK
    <3>4. Last(Open) = "service"
      BY <3>1, <3>2, <3>3, <1>2 DEF Full
    <3> QED
      BY <3>4 DEF CloseNext
  <2>2. thread # "running"
    BY <1>1 DEF UsersOK
  <2> QED
    BY <2>1, <2>2 DEF UsersOK, CloseNext, turns
<1>7. TypeOK'
  BY <1>1, <1>4, StaysPut DEF TypeOK, CloseNext, turns
<1>8. OwnedOK' /\ PhaseOK' /\ EndIsTold'
  BY <1>1, StaysPut DEF PhaseOK, EndIsTold
<1> QED
  BY <1>5, <1>6, <1>7, <1>8

LEMMA EndKeepsInv ==
  ASSUME LifespanInv, End
  PROVE  LifespanInv'
<1> USE DEF LifespanInv
<1>1. /\ UNCHANGED <<boot, held, closed, thread, turns>> /\ phase = "closing" /\ phase' = "ended"
      /\ Open = <<>>
  BY DEF End
<1>2. Len(closed) = Len(owned) /\ Len(owned) \in Nat
  BY <1>1, OpenOK
<1>3. ClosedOK'
  BY <1>1 DEF ClosedOK, boot
<1>4. TypeOK'
  <2>1. result' \in {"stopped", "failed", "closeError", "cancelled"}
    BY DEF End
  <2> QED
    BY <1>1, <2>1, StaysPut DEF TypeOK, End, turns
<1>5. UsersOK'
  <2>1. \A c \in Cleanups : cleanup[c] # "running"
    <3> SUFFICES ASSUME NEW c \in Cleanups, cleanup[c] = "running" PROVE FALSE
      OBVIOUS
    <3>1. mode = "workflow" /\ at = 14 /\ Len(closed) = 0
      BY DEF UsersOK
    <3>2. Len(owned) = 6
      BY <3>1 DEF OwnedOK, Taken
    <3> QED
      BY <3>1, <3>2, <1>2
  <2>2. thread # "running"
    BY <1>1 DEF UsersOK
  <2> QED
    BY <2>1, <2>2, <1>1 DEF UsersOK, turns
<1>6. PhaseOK' /\ EndIsTold'
  BY <1>1, <1>2, StaysPut DEF PhaseOK, EndIsTold, End, boot, TypeOK
<1> QED
  BY <1>1, <1>3, <1>4, <1>5, <1>6, StaysPut

LEMMA LifespanStepInv == LifespanInv /\ [Next]_vars => LifespanInv'
<1> SUFFICES ASSUME LifespanInv, [Next]_vars PROVE LifespanInv'
  OBVIOUS
<1>1. CASE Next
  BY <1>1, AdvanceKeepsInv, WarmKeepsInv, RestKeepsInv, CloseNextKeepsInv, EndKeepsInv DEF Next
<1>2. CASE UNCHANGED vars
  BY <1>2 DEF vars, boot, turns, LifespanInv, TypeOK, OwnedOK, ClosedOK, PhaseOK, UsersOK, EndIsTold,
     Taken, Full, Steps
<1> QED
  BY <1>1, <1>2

LEMMA LifespanInvSafe == LifespanInv => LifespanSafety
<1> SUFFICES ASSUME LifespanInv PROVE LifespanSafety
  OBVIOUS
<1> USE DEF LifespanInv
<1>1. /\ owned \in Seq(Resources) /\ closed \in Seq(Resources)
      /\ Len(owned) \in Nat /\ Len(closed) \in Nat
  BY DEF TypeOK
<1>2. IsPrefix(closed, Reverse(owned)) /\ (Len(closed) = Len(owned) => closed = Reverse(owned))
  <2>1. /\ Len(closed) <= Len(owned)
        /\ \A i \in 1..Len(closed) : closed[i] = owned[(Len(owned) - i) + 1]
    BY DEF ClosedOK
  <2> QED
    BY <1>1, <2>1, PrefixOfReverse
<1>3. ClosedInReverse
  <2>1. phase = "ended" => held = {}
    BY <1>1 DEF PhaseOK, ClosedOK
  <2> QED
    BY <1>2, <2>1 DEF ClosedInReverse, PhaseOK
<1>4. NothingClosedInUse
  <2>1. closed # <<>> => Len(closed) # 0
    BY <1>1, EmptySeq
  <2> QED
    BY <2>1 DEF NothingClosedInUse, UsersOK, PhaseOK
<1> QED
  BY <1>3, <1>4 DEF LifespanSafety

\* However the application starts, fails, serves and is cancelled, it closes
\* what it owns once and in reverse, nothing under its user, and tells how it
\* ended: for any number of turns whose cleanup outlives them.
THEOREM LifespanIsSafe == Spec => []LifespanSafety
<1>1. Spec => []LifespanInv
  BY LifespanInitInv, LifespanStepInv, PTL DEF Spec
<1> QED
  BY <1>1, LifespanInvSafe, PTL

-----------------------------------------------------------------------------
(* The migration.  Every run knows what it has seen and done, and the      *)
(* schema only grows; the data stay good once a run has looked at them, as *)
(* long as nobody inserts behind it.                                       *)

Started == {"count", "key", "data", "fill", "check", "require", "index", "table", "unique"}
Counted == {"key", "data", "fill", "check", "require", "index", "table", "unique"}
Keyed == {"data", "fill", "check", "require", "index", "table", "unique"}
Filling == {"fill", "check", "require", "index", "table", "unique"}

KeysOK ==
  /\ \E n \in 1..MaxId : keys \in [1..n -> Int]
  /\ column = "absent" => ~index /\ \A i \in DOMAIN keys : keys[i] = M!Null

\* What a run saw is still there, and what it has done holds.
RunOK(r) ==
  /\ pc[r] \in Started =>
       /\ ~odd
       /\ saw[r].column # "absent" => column # "absent"
       /\ saw[r].column = "required" => column = "required"
       /\ (saw[r].data => data) /\ (saw[r].index => index)
       /\ saw[r].actions = M!Whole => actions = M!Whole
       /\ M!HalfMade => column = "required" /\ data /\ index
  /\ pc[r] \in Keyed => column # "absent"
  /\ pc[r] \in Filling => data
  /\ pc[r] \in {"index", "table", "unique"} => column = "required"
  /\ pc[r] \in {"table", "unique"} => index
  /\ pc[r] = "unique" => M!HalfMade
  /\ ended[r] # "none" => pc[r] = "idle"
  /\ ended[r] = "ready" => column = "required" /\ data /\ index /\ actions = M!Whole /\ ~odd

\* Only one run creates the unique keys of the table of actions.
MakerOK(r) == pc[r] = "unique" => \A t \in Runs \ {r} : pc[t] # "unique"

\* The data are not in conflict behind the count, or where the column was
\* not there to be in conflict.
GoodOK(r) ==
  /\ ~old \/ alone[r]
  /\ pc[r] \in Counted \/ (pc[r] = "count" /\ saw[r].column = "absent")
  => ~M!Bad(keys)

\* A run that is alone has seen the schema as it is, but for what it has done.
AloneOK(r) ==
  alone[r] =>
    /\ \A t \in Runs \ {r} : pc[t] = "idle"
    /\ pc[r] \in {"count", "key"} => saw[r].column = column
    /\ pc[r] \in {"count", "key", "data"} => saw[r].data = data
    /\ pc[r] \in Started \ {"table", "unique"} => saw[r].index = index
    /\ pc[r] \in Started \ {"unique"} => saw[r].actions = actions
    /\ pc[r] \in {"check", "require"} => M!Nulls = {}
    /\ ended[r] \in {"refused", "failed"} => odd \/ M!Bad(keys) \/ M!HalfMade

MigrationInv ==
  /\ M!TypeOK /\ KeysOK
  /\ \A r \in Runs : RunOK(r) /\ GoodOK(r) /\ AloneOK(r) /\ MakerOK(r)

\* A back-fill makes no conflict.
LEMMA FillKeepsGood ==
  ASSUME NEW n \in Nat, NEW k \in [1..n -> Int], NEW F \in SUBSET (1..n),
         \A i \in F : k[i] = M!Null, ~M!Bad(k)
  PROVE  ~M!Bad([i \in 1..n |-> IF i \in F THEN i ELSE k[i]])
<1> DEFINE new == [i \in 1..n |-> IF i \in F THEN i ELSE k[i]]
<1>1. /\ DOMAIN new = 1..n /\ DOMAIN k = 1..n
      /\ \A i \in 1..n : new[i] = IF i \in F THEN i ELSE k[i]
  OBVIOUS
<1> HIDE DEF new
<1>2. ASSUME NEW i \in 1..n, new[i] = M!Empty
      PROVE  FALSE
  BY <1>1, <1>2 DEF M!Bad, M!Empty
<1>3. ASSUME NEW i \in 1..n, NEW j \in 1..n, i # j, new[i] # M!Null, new[i] = new[j]
      PROVE  FALSE
  BY <1>1, <1>3 DEF M!Bad, M!Unique, M!Null
<1>4. ASSUME NEW i \in 1..n, NEW j \in 1..n, new[i] = M!Null, new[j] = i
      PROVE  FALSE
  BY <1>1, <1>4 DEF M!Bad, M!Null
<1>5. ~M!Bad(new)
  BY <1>1, <1>2, <1>3, <1>4 DEF M!Bad, M!Unique
<1> QED
  BY <1>5 DEF new

LEMMA KeysTyped ==
  ASSUME M!TypeOK, KeysOK
  PROVE  \E n \in 1..MaxId : /\ keys \in [1..n -> Int] /\ DOMAIN keys = 1..n
                             /\ M!First \subseteq M!Nulls /\ M!Nulls \subseteq 1..n
                             /\ \A i \in M!Nulls : keys[i] = M!Null
BY DEF KeysOK, M!First, M!Nulls, M!Rows

LEMMA MigrationInitInv == M!Init => MigrationInv
<1> SUFFICES ASSUME M!Init PROVE MigrationInv
  OBVIOUS
<1>1. PICK n \in 1..(IF old THEN MaxId - 1 ELSE MaxId) :
        keys \in [1..n -> {M!Null, M!Empty, M!User} \union 1..n]
  BY DEF M!Init
<1>2. n \in 1..MaxId /\ DOMAIN keys = 1..n
  BY <1>1, DeploymentAssumption
<1>3. KeysOK
  <2>1. keys \in [1..n -> Int]
    BY <1>1 DEF M!Null, M!Empty, M!User
  <2> QED
    BY <1>2, <2>1 DEF KeysOK, M!Init, M!Rows
<1>4. M!TypeOK
  <2>1. DOMAIN keys \in SUBSET M!Ids
    BY <1>2, DeploymentAssumption DEF M!Ids
  <2>2. \A i \in DOMAIN keys : keys[i] \in {M!Null, M!Empty, M!User} \union M!Ids
    BY <1>1, <1>2, DeploymentAssumption DEF M!Ids
  <2> QED
    BY <2>1, <2>2 DEF M!Init, M!TypeOK, M!Rows, M!Nothing
<1>5. \A r \in Runs : pc[r] = "idle" /\ ended[r] = "none" /\ ~alone[r]
  BY DEF M!Init
<1>6. \A r \in Runs : RunOK(r) /\ GoodOK(r) /\ AloneOK(r) /\ MakerOK(r)
  BY <1>5 DEF RunOK, GoodOK, AloneOK, MakerOK, Started, Counted, Keyed, Filling
<1> QED
  BY <1>3, <1>4, <1>6 DEF MigrationInv

\* How the database may change under a run.
Grows ==
  /\ odd' = odd /\ old' = old
  /\ column # "absent" => column' # "absent"
  /\ column = "required" => column' = "required"
  /\ (data => data') /\ (index => index')
  /\ actions = M!Whole => actions' = M!Whole

StaysGood == ~M!Bad(keys) => ~M!Bad(keys)'

LEMMA FillKeys ==
  ASSUME MigrationInv, NEW r \in Runs, M!Fill(r)
  PROVE  /\ KeysOK' /\ StaysGood
         /\ DOMAIN keys' = DOMAIN keys
         /\ \A i \in DOMAIN keys : /\ keys'[i] \in {keys[i], i}
                                   /\ keys'[i] = M!Null => keys[i] = M!Null
                                   /\ keys'[i] # keys[i] => keys[i] = M!Null
         /\ index => M!Unique(keys')
         /\ ~M!Bad(keys) => pc'[r] # "idle"
<1> DEFINE new == [i \in DOMAIN keys |-> IF i \in M!First THEN i ELSE keys[i]]
<1>1. PICK n \in 1..MaxId : /\ keys \in [1..n -> Int] /\ DOMAIN keys = 1..n
                            /\ M!First \subseteq M!Nulls /\ M!Nulls \subseteq 1..n
                            /\ \A i \in M!Nulls : keys[i] = M!Null
  BY KeysTyped DEF MigrationInv
<1>2. ~M!Bad(keys) => ~M!Bad(new)
  <2>1. M!First \in SUBSET (1..n) /\ n \in Nat /\ \A i \in M!First : keys[i] = M!Null
    BY <1>1
  <2>2. new = [i \in 1..n |-> IF i \in M!First THEN i ELSE keys[i]]
    BY <1>1
  <2> HIDE DEF new
  <2> QED
    BY <1>1, <2>1, <2>2, FillKeepsGood
<1>3. /\ keys' = keys \/ keys' = new
      /\ index => keys' = keys \/ M!Unique(new)
      /\ pc'[r] = "idle" => keys' = keys /\ index /\ ~M!Unique(new)
      /\ column' = column /\ index' = index
  <2>1. CASE M!Nulls = {}
    <3>1. keys' = keys /\ pc' = [pc EXCEPT ![r] = "check"]
      BY <2>1 DEF M!Fill, M!Goto
    <3>2. pc'[r] = "check"
      BY <3>1 DEF MigrationInv, M!TypeOK
    <3> QED
      BY <3>1, <3>2 DEF M!Fill, M!schema
  <2>2. CASE M!Nulls # {} /\ index /\ ~M!Unique(new)
    <3>1. keys' = keys
      BY <2>2 DEF M!Fill, M!Rows
    <3> QED
      BY <2>2, <3>1 DEF M!Fill, M!schema
  <2>3. CASE M!Nulls # {} /\ ~(index /\ ~M!Unique(new))
    <3>1. keys' = new /\ pc' = pc
      BY <2>3 DEF M!Fill, M!Rows
    <3> QED
      BY <2>3, <3>1 DEF M!Fill, M!schema
  <2> QED
    BY <2>1, <2>2, <2>3
<1>4. \A i \in 1..n : new[i] = IF i \in M!First THEN i ELSE keys[i]
  BY <1>1
<1>5. DOMAIN new = 1..n /\ new \in [1..n -> Int]
  BY <1>1
<1> HIDE DEF new
<1>6. column # "absent"
  BY DEF MigrationInv, RunOK, M!Fill, Keyed
<1>7. KeysOK'
  BY <1>1, <1>3, <1>5, <1>6 DEF KeysOK
<1>8. DOMAIN keys' = DOMAIN keys
  BY <1>1, <1>3, <1>5
<1>9. \A i \in 1..n : /\ keys'[i] \in {keys[i], i}
                      /\ keys'[i] = M!Null => keys[i] = M!Null
                      /\ keys'[i] # keys[i] => keys[i] = M!Null
  BY <1>1, <1>3, <1>4 DEF M!Null
<1>10. index => M!Unique(keys')
  BY <1>3 DEF MigrationInv, M!TypeOK
<1>11. StaysGood
  BY <1>2, <1>3 DEF StaysGood, M!Bad
<1>12. ~M!Bad(keys) => pc'[r] # "idle"
  BY <1>2, <1>3 DEF M!Bad
<1> QED
  BY <1>1, <1>7, <1>8, <1>9, <1>10, <1>11, <1>12

RunTypes ==
  /\ pc \in [Runs -> {"idle", "inspect"} \union Started]
  /\ saw \in [Runs -> [column : {"absent", "nullable", "required"}, data : BOOLEAN,
                       index : BOOLEAN, actions : {0, M!Whole}]]
  /\ only \in [Runs -> BOOLEAN] /\ alone \in [Runs -> BOOLEAN]
  /\ ended \in [Runs -> {"none", "ready", "unready", "refused", "failed"}]

SchemaTypes ==
  /\ column \in {"absent", "nullable", "required"}
  /\ {data, index, odd, old} \subseteq BOOLEAN
  /\ actions \in 0..M!Whole
  /\ DOMAIN keys \in SUBSET M!Ids
  /\ \A i \in DOMAIN keys : keys[i] \in {M!Null, M!Empty, M!User} \union M!Ids
  /\ column = "required" => \A i \in DOMAIN keys : keys[i] # M!Null
  /\ index => M!Unique(keys)

LEMMA TypesSplit == M!TypeOK <=> RunTypes /\ SchemaTypes
BY DEF M!TypeOK, RunTypes, SchemaTypes, M!Rows, Started

\* A step of a run touches that run alone, and how it may touch it.
Outcomes == {"none", "ready", "unready", "refused", "failed"}
Frame(r) ==
  /\ pc[r] # "idle" /\ UNCHANGED <<only, alone>>
  /\ \/ \E o \in Outcomes :
          /\ pc' = [pc EXCEPT ![r] = "idle"]
          /\ ended' = [ended EXCEPT ![r] = o]
          /\ saw' = [saw EXCEPT ![r] = M!Nothing]
     \/ \E s \in Started :
          /\ pc' = [pc EXCEPT ![r] = s] /\ ended' = ended
          /\ \/ saw' = saw
             \/ pc[r] = "inspect" /\ s = "count" /\ ~(odd \/ M!HalfMade)
                /\ saw' = [saw EXCEPT ![r] = M!Schema]

LEMMA WorkFrame ==
  ASSUME MigrationInv, NEW r \in Runs, M!Work(r) \/ M!Crash(r)
  PROVE  Frame(r)
<1> USE DEF M!Goto, M!Finish, M!Same, M!Quiet, Frame, Outcomes, Started
<1>1. CASE M!Inspect(r)
  <2>1. CASE odd \/ M!HalfMade
    BY <1>1, <2>1 DEF M!Inspect
  <2>2. CASE ~(odd \/ M!HalfMade)
    BY <1>1, <2>2 DEF M!Inspect
  <2> QED
    BY <2>1, <2>2
<1>2. CASE M!Count(r)
  <2>1. CASE saw[r].column # "absent" /\ M!Bad(keys)
    BY <1>2, <2>1 DEF M!Count
  <2>2. CASE ~(saw[r].column # "absent" /\ M!Bad(keys)) /\ only[r]
    BY <1>2, <2>2 DEF M!Count
  <2>3. CASE ~(saw[r].column # "absent" /\ M!Bad(keys)) /\ ~only[r]
    BY <1>2, <2>3 DEF M!Count
  <2> QED
    BY <2>1, <2>2, <2>3
<1>3. CASE M!AddKey(r)
  BY <1>3 DEF M!AddKey
<1>4. CASE M!AddData(r)
  BY <1>4 DEF M!AddData
<1>5. CASE M!Fill(r)
  <2>1. CASE pc' = pc /\ M!Same
    <3>1. pc' = [pc EXCEPT ![r] = "fill"]
      BY <1>5, <2>1 DEF M!Fill, MigrationInv, M!TypeOK
    <3> QED
      BY <1>5, <2>1, <3>1 DEF M!Fill
  <2>2. CASE M!Goto(r, "check") /\ M!Same
    BY <1>5, <2>2 DEF M!Fill
  <2>3. CASE M!Finish(r, "failed")
    BY <1>5, <2>3 DEF M!Fill
  <2> QED
    BY <1>5, <2>1, <2>2, <2>3 DEF M!Fill
<1>6. CASE M!Check(r)
  BY <1>6 DEF M!Check
<1>7. CASE M!Require(r)
  BY <1>7 DEF M!Require
<1>8. CASE M!CreateIndex(r)
  BY <1>8 DEF M!CreateIndex
<1>9. CASE M!CreateTable(r)
  BY <1>9 DEF M!CreateTable
<1>10. CASE M!Crash(r)
  BY <1>10 DEF M!Crash
<1>11. CASE M!CreateUnique(r)
  <2>1. CASE M!Finish(r, "ready")
    BY <1>11, <2>1 DEF M!CreateUnique
  <2>2. CASE pc' = pc /\ M!Same
    <3>1. pc' = [pc EXCEPT ![r] = "unique"]
      BY <1>11, <2>2 DEF M!CreateUnique, MigrationInv, M!TypeOK
    <3> QED
      BY <1>11, <2>2, <3>1 DEF M!CreateUnique
  <2> QED
    BY <1>11, <2>1, <2>2 DEF M!CreateUnique
<1> QED
  BY <1>1, <1>2, <1>3, <1>4, <1>5, <1>6, <1>7, <1>8, <1>9, <1>10, <1>11 DEF M!Work

LEMMA FrameTypes ==
  ASSUME MigrationInv, NEW r \in Runs, Frame(r)
  PROVE  /\ RunTypes'
         /\ \A t \in Runs \ {r} : pc'[t] = pc[t] /\ saw'[t] = saw[t] /\ ended'[t] = ended[t]
<1>1. /\ RunTypes /\ column \in {"absent", "nullable", "required"}
      /\ {data, index} \subseteq BOOLEAN /\ actions \in 0..M!Whole
  BY TypesSplit DEF MigrationInv, SchemaTypes
<1>2. CASE \E o \in Outcomes :
          /\ pc' = [pc EXCEPT ![r] = "idle"]
          /\ ended' = [ended EXCEPT ![r] = o]
          /\ saw' = [saw EXCEPT ![r] = M!Nothing]
  BY <1>1, <1>2 DEF RunTypes, Frame, M!Nothing, Outcomes
<1>3. CASE \E s \in Started :
          /\ pc' = [pc EXCEPT ![r] = s] /\ ended' = ended
          /\ \/ saw' = saw
             \/ pc[r] = "inspect" /\ s = "count" /\ ~(odd \/ M!HalfMade)
                /\ saw' = [saw EXCEPT ![r] = M!Schema]
  <2>1. ~M!HalfMade => M!Schema \in [column : {"absent", "nullable", "required"}, data : BOOLEAN,
                                      index : BOOLEAN, actions : {0, M!Whole}]
    BY <1>1 DEF M!Schema, M!HalfMade, M!Whole
  <2> QED
    BY <1>1, <1>3, <2>1 DEF RunTypes, Frame
<1> QED
  BY <1>2, <1>3 DEF Frame

\* How the step of a run changes the table of actions.
HalfKept(r) ==
  /\ M!HalfMade /\ ~M!HalfMade' => pc[r] = "unique"
  /\ ~M!HalfMade /\ M!HalfMade' => column' = "required" /\ data' /\ index'
  /\ pc[r] # "unique" /\ pc'[r] = "unique" => ~M!HalfMade

LEMMA OthersKeep ==
  ASSUME MigrationInv, NEW r \in Runs, Frame(r), Grows, StaysGood, NEW t \in Runs \ {r},
           HalfKept(r)
  PROVE  RunOK(t)' /\ GoodOK(t)' /\ AloneOK(t)'
<1>1. pc'[t] = pc[t] /\ saw'[t] = saw[t] /\ ended'[t] = ended[t] /\ alone'[t] = alone[t] /\ pc[r] # "idle"
  BY FrameTypes DEF Frame
<1>2. RunOK(t)'
  <2>1. RunOK(t) /\ MakerOK(t)
    BY DEF MigrationInv
  <2>2. pc[t] = "unique" => M!HalfMade'
    BY <2>1 DEF RunOK, MakerOK, HalfKept
  <2> QED
    BY <1>1, <2>1, <2>2 DEF RunOK, Grows, HalfKept
<1>3. GoodOK(t)'
  BY <1>1 DEF MigrationInv, GoodOK, Grows, StaysGood
<1>4. AloneOK(t)'
  BY <1>1 DEF MigrationInv, AloneOK
<1> QED
  BY <1>2, <1>3, <1>4

LEMMA MakerKept ==
  ASSUME MigrationInv, NEW r \in Runs, HalfKept(r),
         \A t \in Runs \ {r} : pc'[t] = pc[t]
  PROVE  \A t \in Runs : MakerOK(t)'
<1>1. \A t \in Runs : MakerOK(t) /\ (pc[t] = "unique" => M!HalfMade)
  BY DEF MigrationInv, RunOK
<1>2. pc'[r] = "unique" => \A t \in Runs \ {r} : pc[t] # "unique"
  BY <1>1 DEF HalfKept, MakerOK
<1> QED
  BY <1>1, <1>2 DEF MakerOK

\* Where no key changes, none of the facts about keys does.
LEMMA SameKeys ==
  ASSUME MigrationInv, keys' = keys
  PROVE  StaysGood /\ M!Nulls' = M!Nulls /\ M!Bad(keys)' = M!Bad(keys)
BY DEF StaysGood, M!Nulls, M!Rows, M!Bad

\* The schema after a step: typed, grown, and consistent with the keys.
SchemaStep(r) == SchemaTypes' /\ KeysOK' /\ Grows /\ StaysGood /\ HalfKept(r)

LEMMA SchemaSteps ==
  ASSUME MigrationInv, NEW r \in Runs, M!Work(r) \/ M!Crash(r)
  PROVE  SchemaStep(r)
<1>1. SchemaTypes /\ KeysOK /\ RunTypes
  BY TypesSplit DEF MigrationInv
<1>0. ASSUME actions' = actions, pc'[r] # "unique"
      PROVE  HalfKept(r)
  BY <1>0 DEF HalfKept, M!HalfMade
<1>12. ASSUME NEW s \in {"idle", "inspect"} \union (Started \ {"unique"}),
              pc' = [pc EXCEPT ![r] = s] \/ (pc' = pc /\ pc[r] = "fill")
       PROVE  pc'[r] # "unique"
  BY <1>1, <1>12 DEF RunTypes, Started
<1>2. CASE UNCHANGED <<schema, keys>> /\ pc'[r] # "unique"
  BY <1>0, <1>1, <1>2, SameKeys DEF SchemaStep, SchemaTypes, KeysOK, Grows, schema, M!Unique
<1>3. CASE M!AddKey(r)
  <2>1. keys' = keys /\ StaysGood
    BY <1>3, SameKeys DEF M!AddKey
  <2>2. /\ UNCHANGED <<data, index, actions, odd, old>>
        /\ column' = column \/ (column = "absent" /\ column' = "nullable")
    BY <1>3 DEF M!AddKey
  <2>3. HalfKept(r)
    BY <1>0, <1>3, <1>12, <2>2 DEF M!AddKey, M!Goto, M!Finish, Started
  <2> QED
    BY <1>1, <2>1, <2>2, <2>3 DEF SchemaStep, SchemaTypes, KeysOK, Grows, M!Unique
<1>4. CASE M!AddData(r)
  <2>1. keys' = keys /\ StaysGood
    BY <1>4, SameKeys DEF M!AddData
  <2>2. UNCHANGED <<column, index, actions, odd, old>> /\ (data' = data \/ data' = TRUE)
    BY <1>4 DEF M!AddData, SchemaTypes
  <2>3. HalfKept(r)
    BY <1>0, <1>4, <1>12, <2>2 DEF M!AddData, M!Goto, M!Finish, Started
  <2>4. SchemaTypes'
    BY <1>1, <2>1, <2>2 DEF SchemaTypes, M!Unique
  <2>5. KeysOK'
    BY <1>1, <2>1, <2>2 DEF KeysOK
  <2>6. Grows
    BY <1>1, <2>2 DEF Grows
  <2> QED
    BY <2>1, <2>3, <2>4, <2>5, <2>6 DEF SchemaStep
<1>5. CASE M!Fill(r)
  <2>1. UNCHANGED <<column, data, index, actions, odd, old>>
    BY <1>5 DEF M!Fill, M!schema
  <2>2. HalfKept(r)
    <3>1. CASE pc' = pc
      BY <1>0, <1>5, <1>12, <2>1, <3>1 DEF M!Fill, Started
    <3>2. CASE M!Goto(r, "check") \/ M!Finish(r, "failed")
      BY <1>0, <1>12, <2>1, <3>2 DEF M!Goto, M!Finish, Started
    <3> QED
      BY <1>5, <3>1, <3>2 DEF M!Fill
  <2> QED
    BY <1>1, <1>5, <2>1, <2>2, FillKeys DEF SchemaStep, SchemaTypes, Grows, M!Ids, M!Null
<1>6. CASE M!Require(r)
  <2>1. keys' = keys /\ StaysGood
    BY <1>6, SameKeys DEF M!Require
  <2>2. /\ UNCHANGED <<data, index, actions, odd, old>>
        /\ column' = column \/ (column' = "required" /\ M!Nulls = {})
    BY <1>6 DEF M!Require
  <2>3. M!Nulls = {} => \A i \in DOMAIN keys : keys[i] # M!Null
    BY DEF M!Nulls, M!Rows
  <2>4. HalfKept(r)
    BY <1>0, <1>6, <1>12, <2>2 DEF M!Require, M!Goto, M!Finish, Started
  <2> QED
    BY <1>1, <2>1, <2>2, <2>3, <2>4 DEF SchemaStep, SchemaTypes, KeysOK, Grows, M!Unique
<1>7. CASE M!CreateIndex(r)
  <2>1. keys' = keys /\ StaysGood
    BY <1>7, SameKeys DEF M!CreateIndex
  <2>2. /\ UNCHANGED <<column, data, actions, odd, old>>
        /\ index' = index \/ (index' = TRUE /\ M!Unique(keys))
    BY <1>7 DEF M!CreateIndex
  <2>3. column # "absent"
    BY <1>7 DEF M!CreateIndex, MigrationInv, RunOK, Keyed
  <2>4. SchemaTypes'
    <3>1. (index' => M!Unique(keys)) /\ (M!Unique(keys') <=> M!Unique(keys))
      BY <1>1, <2>1, <2>2 DEF SchemaTypes
    <3> QED
      BY <1>1, <2>1, <2>2, <3>1 DEF SchemaTypes
  <2>5. KeysOK'
    BY <1>1, <2>1, <2>2, <2>3 DEF KeysOK
  <2>6. Grows
    BY <1>1, <2>2 DEF Grows
  <2>7. HalfKept(r)
    BY <1>0, <1>7, <1>12, <2>2 DEF M!CreateIndex, M!Goto, M!Finish, Started
  <2> QED
    BY <2>1, <2>4, <2>5, <2>6, <2>7 DEF SchemaStep
<1>8. CASE M!CreateTable(r) \/ M!CreateUnique(r)
  <2>1. keys' = keys /\ StaysGood
    BY <1>8, SameKeys DEF M!CreateTable, M!CreateUnique
  <2>2. /\ UNCHANGED <<column, data, index, odd, old>>
        /\ actions \in 0..M!Whole /\ actions' \in 0..M!Whole
        /\ actions = M!Whole => actions' = M!Whole
    <3>1. M!CreateUnique(r) => M!HalfMade
      BY DEF M!CreateUnique, MigrationInv, RunOK
    <3> QED
      BY <1>1, <1>8, <3>1 DEF M!CreateTable, M!CreateUnique, M!HalfMade, M!Whole, SchemaTypes
  <2>3. HalfKept(r)
    <3>1. CASE M!CreateTable(r)
      <4>1. column = "required" /\ data /\ index
        BY <3>1 DEF M!CreateTable, MigrationInv, RunOK, Filling
      <4>2. (actions' = actions /\ pc' = [pc EXCEPT ![r] = "idle"]) \/ actions = 0
        BY <3>1 DEF M!CreateTable, M!Finish
      <4>3. CASE actions' = actions /\ pc' = [pc EXCEPT ![r] = "idle"]
        BY <1>0, <1>12, <4>3
      <4>4. CASE actions = 0
        BY <2>2, <4>1, <4>4 DEF HalfKept, M!HalfMade, M!Whole
      <4> QED
        BY <4>2, <4>3, <4>4
    <3>2. CASE M!CreateUnique(r)
      <4>1. column = "required" /\ data /\ index /\ pc[r] = "unique"
        BY <3>2 DEF M!CreateUnique, MigrationInv, RunOK, Filling
      <4> QED
        BY <2>2, <4>1 DEF HalfKept
    <3> QED
      BY <1>8, <3>1, <3>2
  <2>4. SchemaTypes'
    BY <1>1, <2>1, <2>2 DEF SchemaTypes, M!Unique
  <2>5. KeysOK'
    BY <1>1, <2>1, <2>2 DEF KeysOK
  <2>6. Grows
    BY <1>1, <2>2 DEF Grows
  <2> QED
    BY <2>1, <2>3, <2>4, <2>5, <2>6 DEF SchemaStep
<1>9. CASE M!Inspect(r) \/ M!Count(r) \/ M!Check(r) \/ M!Crash(r)
  <2>1. UNCHANGED <<schema, keys>>
    BY <1>9 DEF M!Inspect, M!Count, M!Check, M!Crash, M!schema, schema
  <2>2. pc' = [pc EXCEPT ![r] = "idle"] \/ \E s \in {"count", "key", "require"} : pc' = [pc EXCEPT ![r] = s]
    BY <1>9 DEF M!Inspect, M!Count, M!Check, M!Crash, M!Goto, M!Finish
  <2>3. pc'[r] # "unique"
    BY <1>12, <2>2 DEF Started
  <2> QED
    BY <1>2, <2>1, <2>3
<1> QED
  BY <1>3, <1>4, <1>5, <1>6, <1>7, <1>8, <1>9 DEF M!Work

\* What a run knows of itself after its own step.
LEMMA OwnStep ==
  ASSUME MigrationInv, NEW r \in Runs, M!Work(r) \/ M!Crash(r)
  PROVE  RunOK(r)' /\ GoodOK(r)' /\ AloneOK(r)'
<1>1. /\ RunTypes /\ SchemaTypes /\ Frame(r) /\ RunTypes' /\ Grows /\ StaysGood
      /\ RunOK(r) /\ GoodOK(r) /\ AloneOK(r) /\ pc[r] # "idle" /\ ended[r] = "none"
      /\ ~M!HalfMade /\ M!HalfMade' => column' = "required" /\ data' /\ index'
      /\ alone'[r] = alone[r] /\ only'[r] = only[r]
      /\ \A t \in Runs \ {r} : pc'[t] = pc[t]
  <2>1. Frame(r) /\ RunOK(r) /\ pc[r] # "idle"
    BY WorkFrame DEF MigrationInv, Frame
  <2>2. RunTypes /\ SchemaTypes
    BY TypesSplit DEF MigrationInv
  <2>3. ended[r] = "none"
    BY <2>1 DEF RunOK
  <2> QED
    BY <2>1, <2>2, <2>3, FrameTypes, SchemaSteps DEF MigrationInv, Frame, SchemaStep, HalfKept
<1> USE DEF M!Goto, M!Finish, M!Same, M!Quiet, RunTypes
<1>2. CASE M!Inspect(r)
  <2>1. keys' = keys /\ UNCHANGED <<column, data, index, actions, odd, old>>
    BY <1>2 DEF M!Inspect, M!schema
  <2>2. CASE odd \/ M!HalfMade
    <3>1. pc'[r] = "idle" /\ ended'[r] = "refused"
      BY <1>1, <1>2, <2>2 DEF M!Inspect
    <3> QED
      BY <1>1, <2>1, <2>2, <3>1 DEF RunOK, GoodOK, AloneOK, Started, Counted, Keyed, Filling, M!HalfMade
  <2>3. CASE ~(odd \/ M!HalfMade)
    <3>1. pc'[r] = "count" /\ saw'[r] = M!Schema /\ ended'[r] = "none"
      BY <1>1, <1>2, <2>3 DEF M!Inspect
    <3>2. RunOK(r)'
      BY <1>1, <2>1, <2>3, <3>1 DEF RunOK, M!Schema, Keyed, Filling, M!HalfMade
    <3>3. GoodOK(r)'
      <4>1. column = "absent" => ~M!Bad(keys)
        BY DEF MigrationInv, KeysOK, M!Bad, M!Unique, M!Null, M!Empty
      <4> QED
        BY <4>1, <2>1, <3>1 DEF GoodOK, M!Schema, Counted, M!Bad
    <3>4. AloneOK(r)'
      BY <1>1, <2>1, <3>1 DEF AloneOK, M!Schema
    <3> QED
      BY <3>2, <3>3, <3>4
  <2> QED
    BY <2>2, <2>3
<1>3. CASE M!Count(r)
  <2>1. keys' = keys /\ UNCHANGED <<column, data, index, actions, odd, old>>
    BY <1>3 DEF M!Count, M!schema
  <2>2. CASE saw[r].column # "absent" /\ M!Bad(keys)
    <3>1. pc'[r] = "idle" /\ ended'[r] = "refused"
      BY <1>1, <1>3, <2>2 DEF M!Count
    <3> QED
      BY <1>1, <2>1, <2>2, <3>1, SameKeys DEF RunOK, GoodOK, AloneOK, Started, Counted, Keyed, Filling
  <2>3. CASE ~(saw[r].column # "absent" /\ M!Bad(keys)) /\ only[r]
    <3>1. /\ pc'[r] = "idle" /\ ended'[r] \in {"ready", "unready"}
          /\ ended'[r] = "ready" => saw[r].column = "required" /\ saw[r].data /\ saw[r].index
                                    /\ saw[r].actions = M!Whole
      BY <1>1, <1>3, <2>3 DEF M!Count
    <3>2. RunOK(r)'
      BY <1>1, <1>3, <2>1, <3>1 DEF RunOK, M!Count, Started, Keyed, Filling
    <3> QED
      BY <1>1, <2>1, <3>1, <3>2 DEF GoodOK, AloneOK, Started, Counted
  <2>4. CASE ~(saw[r].column # "absent" /\ M!Bad(keys)) /\ ~only[r]
    <3>1. pc'[r] = "key" /\ ended'[r] = ended[r] /\ saw'[r] = saw[r]
      BY <1>1, <1>3, <2>4 DEF M!Count
    <3>2. RunOK(r)'
      BY <1>1, <1>3, <2>1, <3>1 DEF RunOK, M!Count, Started, Keyed, Filling
    <3>3. GoodOK(r)'
      BY <1>1, <1>3, <2>1, <2>4, <3>1, SameKeys DEF GoodOK, M!Count
    <3>4. AloneOK(r)'
      BY <1>1, <1>3, <2>1, <3>1 DEF AloneOK, M!Count, Started
    <3> QED
      BY <3>2, <3>3, <3>4
  <2> QED
    BY <2>2, <2>3, <2>4
<1>4. CASE M!AddKey(r)
  <2>1. keys' = keys /\ UNCHANGED <<data, index, actions, odd, old>> /\ pc[r] = "key" /\ M!Bad(keys)' = M!Bad(keys) /\ M!Nulls' = M!Nulls
    BY <1>4, SameKeys DEF M!AddKey
  <2>2. CASE saw[r].column # "absent" \/ column = "absent"
    <3>1. /\ pc'[r] = "data" /\ ended'[r] = ended[r] /\ saw'[r] = saw[r]
          /\ column' = IF saw[r].column # "absent" THEN column ELSE "nullable"
      BY <1>1, <1>4, <2>2 DEF M!AddKey
    <3>2. RunOK(r)'
      BY <1>1, <2>1, <2>2, <3>1 DEF RunOK, Started, Keyed, Filling
    <3>3. GoodOK(r)'
      BY <1>1, <2>1, <3>1 DEF GoodOK, Counted
    <3>4. AloneOK(r)'
      BY <1>1, <2>1, <2>2, <3>1 DEF AloneOK, Started
    <3> QED
      BY <3>2, <3>3, <3>4
  <2>3. CASE ~(saw[r].column # "absent" \/ column = "absent")
    <3>1. pc'[r] = "idle" /\ ended'[r] = "failed" /\ column' = column
      BY <1>1, <1>4, <2>3 DEF M!AddKey
    <3>2. ~alone[r]
      BY <1>1, <2>1, <2>3 DEF AloneOK, GoodOK, Started, Counted, M!Bad, M!Nulls
    <3> QED
      BY <1>1, <2>1, <3>1, <3>2 DEF RunOK, GoodOK, AloneOK, Started, Counted, Keyed, Filling
  <2> QED
    BY <2>2, <2>3
<1>5. CASE M!AddData(r)
  <2>1. keys' = keys /\ UNCHANGED <<column, index, actions, odd, old>> /\ pc[r] = "data" /\ M!Bad(keys)' = M!Bad(keys) /\ M!Nulls' = M!Nulls
    BY <1>5, SameKeys DEF M!AddData
  <2>2. CASE saw[r].data \/ ~data
    <3>1. /\ pc'[r] = "fill" /\ ended'[r] = ended[r] /\ saw'[r] = saw[r]
          /\ data' = IF saw[r].data THEN data ELSE TRUE
      BY <1>1, <1>5, <2>2 DEF M!AddData
    <3>2. RunOK(r)'
      BY <1>1, <2>1, <2>2, <3>1 DEF RunOK, Started, Keyed, Filling
    <3>3. GoodOK(r)'
      BY <1>1, <2>1, <3>1 DEF GoodOK, Counted
    <3>4. AloneOK(r)'
      BY <1>1, <2>1, <2>2, <3>1 DEF AloneOK, Started
    <3> QED
      BY <3>2, <3>3, <3>4
  <2>3. CASE ~(saw[r].data \/ ~data)
    <3>1. pc'[r] = "idle" /\ ended'[r] = "failed" /\ data' = data
      BY <1>1, <1>5, <2>3 DEF M!AddData
    <3>2. ~alone[r]
      BY <1>1, <2>1, <2>3 DEF AloneOK, GoodOK, Started, Counted, M!Bad, M!Nulls
    <3> QED
      BY <1>1, <2>1, <3>1, <3>2 DEF RunOK, GoodOK, AloneOK, Started, Counted, Keyed, Filling
  <2> QED
    BY <2>2, <2>3
<1>6. CASE M!Fill(r)
  <2>1. UNCHANGED <<column, data, index, actions, odd, old>> /\ pc[r] = "fill"
    BY <1>6 DEF M!Fill, M!schema
  <2>2. \/ pc'[r] = "check" /\ M!Nulls = {} /\ keys' = keys /\ ended'[r] = ended[r] /\ saw'[r] = saw[r]
        \/ pc'[r] = "idle" /\ ended'[r] = "failed"
        \/ pc'[r] = "fill" /\ ended'[r] = ended[r] /\ saw'[r] = saw[r]
    <3>1. CASE M!Nulls = {}
      BY <1>1, <1>6, <3>1 DEF M!Fill
    <3>2. CASE M!Nulls # {}
      BY <1>1, <1>6, <3>2 DEF M!Fill
    <3> QED
      BY <3>1, <3>2
  <2>3. ~M!Bad(keys) => pc'[r] # "idle" /\ ~M!Bad(keys)'
    BY <1>1, <1>6, FillKeys DEF StaysGood
  <2>4. RunOK(r)'
    BY <1>1, <2>1, <2>2 DEF RunOK, Started, Keyed, Filling
  <2>5. GoodOK(r)'
    BY <1>1, <2>1, <2>3 DEF GoodOK, Counted
  <2>6. AloneOK(r)'
    <3>1. alone[r] => ~M!Bad(keys)
      BY <1>1, <2>1 DEF GoodOK, Counted
    <3>2. keys' = keys => M!Nulls' = M!Nulls
      BY SameKeys
    <3> QED
      BY <1>1, <2>1, <2>2, <2>3, <3>1, <3>2 DEF AloneOK, Started
  <2> QED
    BY <2>4, <2>5, <2>6
<1>7. CASE M!Check(r)
  <2>1. keys' = keys /\ UNCHANGED <<column, data, index, actions, odd, old>> /\ pc[r] = "check" /\ M!Bad(keys)' = M!Bad(keys) /\ M!Nulls' = M!Nulls
    BY <1>7, SameKeys DEF M!Check, M!schema
  <2>2. CASE M!Nulls = {}
    <3>1. /\ pc'[r] = "require" /\ ended'[r] = ended[r] /\ saw'[r] = saw[r]
          /\ odd' = odd
      BY <1>1, <1>7, <2>2 DEF M!Check, M!schema
    <3>2. RunOK(r)'
      BY <1>1, <2>1, <2>2, <3>1 DEF RunOK, Started, Keyed, Filling
    <3>3. GoodOK(r)'
      BY <1>1, <2>1, <3>1 DEF GoodOK, Counted
    <3>4. AloneOK(r)'
      BY <1>1, <2>1, <2>2, <3>1 DEF AloneOK, Started
    <3> QED
      BY <3>2, <3>3, <3>4
  <2>3. CASE ~(M!Nulls = {})
    <3>1. pc'[r] = "idle" /\ ended'[r] = "refused" /\ odd' = odd
      BY <1>1, <1>7, <2>3 DEF M!Check, M!schema
    <3>2. ~alone[r]
      BY <1>1, <2>1, <2>3 DEF AloneOK, GoodOK, Started, Counted, M!Bad, M!Nulls
    <3> QED
      BY <1>1, <2>1, <3>1, <3>2 DEF RunOK, GoodOK, AloneOK, Started, Counted, Keyed, Filling
  <2> QED
    BY <2>2, <2>3
<1>8. CASE M!Require(r)
  <2>1. keys' = keys /\ UNCHANGED <<data, index, actions, odd, old>> /\ pc[r] = "require" /\ M!Bad(keys)' = M!Bad(keys) /\ M!Nulls' = M!Nulls
    BY <1>8, SameKeys DEF M!Require
  <2>2. CASE saw[r].column = "required" \/ M!Nulls = {}
    <3>1. /\ pc'[r] = "index" /\ ended'[r] = ended[r] /\ saw'[r] = saw[r]
          /\ column' = IF saw[r].column = "required" THEN column ELSE "required"
      BY <1>1, <1>8, <2>2 DEF M!Require
    <3>2. RunOK(r)'
      BY <1>1, <2>1, <2>2, <3>1 DEF RunOK, Started, Keyed, Filling
    <3>3. GoodOK(r)'
      BY <1>1, <2>1, <3>1 DEF GoodOK, Counted
    <3>4. AloneOK(r)'
      BY <1>1, <2>1, <2>2, <3>1 DEF AloneOK, Started
    <3> QED
      BY <3>2, <3>3, <3>4
  <2>3. CASE ~(saw[r].column = "required" \/ M!Nulls = {})
    <3>1. pc'[r] = "idle" /\ ended'[r] = "failed" /\ column' = column
      BY <1>1, <1>8, <2>3 DEF M!Require
    <3>2. ~alone[r]
      BY <1>1, <2>1, <2>3 DEF AloneOK, GoodOK, Started, Counted, M!Bad, M!Nulls
    <3> QED
      BY <1>1, <2>1, <3>1, <3>2 DEF RunOK, GoodOK, AloneOK, Started, Counted, Keyed, Filling
  <2> QED
    BY <2>2, <2>3
<1>9. CASE M!CreateIndex(r)
  <2>1. keys' = keys /\ UNCHANGED <<column, data, actions, odd, old>> /\ pc[r] = "index" /\ M!Bad(keys)' = M!Bad(keys) /\ M!Nulls' = M!Nulls
    BY <1>9, SameKeys DEF M!CreateIndex
  <2>2. CASE saw[r].index \/ (~index /\ M!Unique(keys))
    <3>1. /\ pc'[r] = "table" /\ ended'[r] = ended[r] /\ saw'[r] = saw[r]
          /\ index' = IF saw[r].index THEN index ELSE TRUE
      BY <1>1, <1>9, <2>2 DEF M!CreateIndex
    <3>2. RunOK(r)'
      BY <1>1, <2>1, <2>2, <3>1 DEF RunOK, Started, Keyed, Filling
    <3>3. GoodOK(r)'
      BY <1>1, <2>1, <3>1 DEF GoodOK, Counted
    <3>4. AloneOK(r)'
      BY <1>1, <2>1, <2>2, <3>1 DEF AloneOK, Started
    <3> QED
      BY <3>2, <3>3, <3>4
  <2>3. CASE ~(saw[r].index \/ (~index /\ M!Unique(keys)))
    <3>1. pc'[r] = "idle" /\ ended'[r] = "failed" /\ index' = index
      BY <1>1, <1>9, <2>3 DEF M!CreateIndex
    <3>2. ~alone[r]
      BY <1>1, <2>1, <2>3 DEF AloneOK, GoodOK, Started, Counted, M!Bad, M!Nulls
    <3> QED
      BY <1>1, <2>1, <3>1, <3>2 DEF RunOK, GoodOK, AloneOK, Started, Counted, Keyed, Filling
  <2> QED
    BY <2>2, <2>3
<1>10. CASE M!CreateTable(r)
  <2>1. keys' = keys /\ UNCHANGED <<column, data, index, odd, old>> /\ pc[r] = "table"
    BY <1>10 DEF M!CreateTable
  <2>2. CASE saw[r].actions = M!Whole
    <3>1. pc'[r] = "idle" /\ ended'[r] = "ready" /\ actions' = actions
      BY <1>1, <1>10, <2>2 DEF M!CreateTable
    <3> QED
      BY <1>1, <2>1, <2>2, <3>1 DEF RunOK, GoodOK, AloneOK, Started, Counted, Keyed, Filling
  <2>3. CASE saw[r].actions # M!Whole /\ actions = 0
    <3>1. pc'[r] = "unique" /\ ended'[r] = ended[r] /\ saw'[r] = saw[r] /\ actions' = 1
      BY <1>1, <1>10, <2>3 DEF M!CreateTable
    <3>2. RunOK(r)'
      BY <1>1, <2>1, <2>3, <3>1 DEF RunOK, Started, Keyed, Filling, M!HalfMade, M!Whole
    <3>3. GoodOK(r)'
      BY <1>1, <2>1, <3>1, SameKeys DEF GoodOK, Counted
    <3>4. AloneOK(r)'
      BY <1>1, <2>1, <3>1 DEF AloneOK, Started
    <3> QED
      BY <3>2, <3>3, <3>4
  <2>4. CASE saw[r].actions # M!Whole /\ actions # 0
    <3>1. pc'[r] = "idle" /\ ended'[r] = "failed" /\ actions' = actions
      BY <1>1, <1>10, <2>4 DEF M!CreateTable
    <3>2. ~alone[r]
      BY <1>1, <2>1, <2>4 DEF AloneOK, Started
    <3> QED
      BY <1>1, <2>1, <3>1, <3>2 DEF RunOK, GoodOK, AloneOK, Started, Counted, Keyed, Filling
  <2> QED
    BY <2>2, <2>3, <2>4
<1>12. CASE M!CreateUnique(r)
  <2>1. /\ keys' = keys /\ UNCHANGED <<column, data, index, odd, old>> /\ pc[r] = "unique"
        /\ actions' = actions + 1
    BY <1>12 DEF M!CreateUnique
  <2>2. CASE actions' = M!Whole
    <3>1. pc'[r] = "idle" /\ ended'[r] = "ready"
      BY <1>1, <1>12, <2>2 DEF M!CreateUnique
    <3> QED
      BY <1>1, <2>1, <2>2, <3>1 DEF RunOK, GoodOK, AloneOK, Started, Counted, Keyed, Filling
  <2>3. CASE actions' # M!Whole
    <3>1. pc'[r] = "unique" /\ ended'[r] = ended[r] /\ saw'[r] = saw[r]
      BY <1>1, <1>12, <2>1, <2>3 DEF M!CreateUnique
    <3>2. M!HalfMade /\ M!HalfMade' /\ saw[r].actions # M!Whole
      BY <1>1, <2>1, <2>3 DEF RunOK, Started, M!HalfMade, M!Whole
    <3>3. RunOK(r)'
      BY <1>1, <2>1, <2>3, <3>1, <3>2 DEF RunOK, Started, Keyed, Filling
    <3>4. GoodOK(r)'
      BY <1>1, <2>1, <3>1, SameKeys DEF GoodOK, Counted
    <3>5. AloneOK(r)'
      BY <1>1, <2>1, <3>1 DEF AloneOK, Started
    <3> QED
      BY <3>3, <3>4, <3>5
  <2> QED
    BY <2>2, <2>3
<1>11. CASE M!Crash(r)
  <2>1. pc'[r] = "idle" /\ ended'[r] = "none"
    BY <1>1, <1>11 DEF M!Crash
  <2> QED
    BY <1>1, <2>1 DEF RunOK, GoodOK, AloneOK, Started, Counted, Keyed, Filling
<1> QED
  BY <1>2, <1>3, <1>4, <1>5, <1>6, <1>7, <1>8, <1>9, <1>10, <1>11, <1>12 DEF M!Work

LEMMA TypesNext == RunTypes' /\ SchemaTypes' => M!TypeOK'
BY DEF M!TypeOK, RunTypes, SchemaTypes, M!Rows, Started

LEMMA BeginKeepsInv ==
  ASSUME MigrationInv, NEW r \in Runs, M!Begin(r)
  PROVE  MigrationInv'
<1>1. RunTypes /\ SchemaTypes /\ KeysOK
  BY TypesSplit DEF MigrationInv
<1>2. keys' = keys /\ UNCHANGED <<column, data, index, actions, odd, old, saw>>
  BY DEF M!Begin, M!schema
<1>3. RunTypes'
  BY <1>1, <1>2 DEF RunTypes, M!Begin, M!Goto
<1>4. SchemaTypes' /\ KeysOK'
  BY <1>1, <1>2 DEF SchemaTypes, KeysOK, M!Unique
<1>5. /\ pc'[r] = "inspect" /\ ended'[r] = "none"
      /\ alone'[r] => \A t \in Runs : pc[t] = "idle"
      /\ \A t \in Runs \ {r} : ~alone'[t] /\ pc'[t] = pc[t] /\ ended'[t] = ended[t]
  BY <1>1 DEF RunTypes, M!Begin, M!Goto
<1>6. M!Bad(keys)' = M!Bad(keys)
  BY <1>2, SameKeys
<1>7. RunOK(r)' /\ GoodOK(r)' /\ AloneOK(r)'
  <2>1. ended[r] # "ready" \/ RunOK(r)
    BY DEF MigrationInv
  <2> QED
    BY <1>5, <2>1 DEF RunOK, GoodOK, AloneOK, Started, Counted, Keyed, Filling
<1>8. ASSUME NEW t \in Runs \ {r}
      PROVE  RunOK(t)' /\ GoodOK(t)' /\ AloneOK(t)'
  BY <1>2, <1>5, <1>6 DEF MigrationInv, RunOK, GoodOK, AloneOK, M!HalfMade
<1>9. \A t \in Runs : MakerOK(t)'
  BY <1>5 DEF MigrationInv, MakerOK
<1> QED
  BY <1>3, <1>4, <1>7, <1>8, <1>9, TypesNext DEF MigrationInv

LEMMA SameCount == \A S : M!Cardinality(S) = Cardinality(S)
BY DEF M!Cardinality, Cardinality

\* An old writer adds one message at the end.
LEMMA WriteAdds ==
  ASSUME MigrationInv, M!Write
  PROVE  \E n \in 1..(MaxId - 1) :
           /\ DOMAIN keys = 1..n /\ DOMAIN keys' = 1..(n + 1) /\ keys' \in [1..(n + 1) -> Int]
           /\ \A i \in 1..n : keys'[i] = keys[i]
           /\ keys'[n + 1] = M!Null
<1>1. PICK n \in 1..MaxId : keys \in [1..n -> Int]
  BY DEF MigrationInv, KeysOK
<1>2. DOMAIN keys = 1..n /\ n \in Nat /\ MaxId \in Nat
  BY <1>1, DeploymentAssumption
<1>3. Cardinality(1..n) = n
  BY <1>2, FS_Interval
<1>4. M!Cardinality(M!Rows) = n
  BY <1>2, <1>3, SameCount DEF M!Rows
<1>5. n < MaxId /\ keys' = [i \in 1..(n + 1) |-> IF i \in 1..n THEN keys[i] ELSE M!Null]
  BY <1>2, <1>4 DEF M!Write, M!Rows
<1> QED
  BY <1>1, <1>2, <1>5 DEF M!Null

LEMMA WriteKeepsInv ==
  ASSUME MigrationInv, M!Write
  PROVE  MigrationInv'
<1>1. PICK n \in 1..(MaxId - 1) :
        /\ DOMAIN keys = 1..n /\ DOMAIN keys' = 1..(n + 1) /\ keys' \in [1..(n + 1) -> Int]
        /\ \A i \in 1..n : keys'[i] = keys[i]
        /\ keys'[n + 1] = M!Null
  BY WriteAdds
<1>2. RunTypes /\ SchemaTypes /\ KeysOK
  BY TypesSplit DEF MigrationInv
<1>3. /\ UNCHANGED <<column, data, index, actions, odd, old, pc, saw, only, ended>>
      /\ old /\ column # "required" /\ alone' = [r \in Runs |-> FALSE]
  BY DEF M!Write, M!schema
<1>4. RunTypes'
  BY <1>2, <1>3 DEF RunTypes
<1>5. SchemaTypes'
  <2>1. n + 1 \in 1..MaxId /\ n \in Nat /\ MaxId \in Nat
    BY <1>1, DeploymentAssumption
  <2>2. DOMAIN keys' \in SUBSET M!Ids
    BY <1>1, <2>1 DEF M!Ids
  <2>3. \A i \in 1..(n + 1) : i \in 1..n \/ i = n + 1
    BY <2>1
  <2>4. \A i \in DOMAIN keys' : keys'[i] \in {M!Null, M!Empty, M!User} \union M!Ids
    BY <1>1, <1>2, <2>3 DEF SchemaTypes
  <2>5. index => M!Unique(keys')
    <3> SUFFICES ASSUME index, NEW i \in 1..(n + 1), NEW j \in 1..(n + 1), i # j,
                        keys'[i] # M!Null, keys'[i] = keys'[j]
                 PROVE  FALSE
      BY <1>1 DEF M!Unique
    <3>1. i \in 1..n /\ j \in 1..n
      BY <1>1, <2>3
    <3> QED
      BY <3>1, <1>1, <1>2 DEF SchemaTypes, M!Unique
  <2> QED
    BY <1>2, <1>3, <2>2, <2>4, <2>5 DEF SchemaTypes
<1>6. KeysOK'
  <2>1. n + 1 \in 1..MaxId /\ \A i \in 1..(n + 1) : i \in 1..n \/ i = n + 1
    BY <1>1, DeploymentAssumption
  <2> QED
    BY <1>1, <1>2, <1>3, <2>1 DEF KeysOK
<1>7. ASSUME NEW r \in Runs
      PROVE  RunOK(r)' /\ GoodOK(r)' /\ AloneOK(r)' /\ MakerOK(r)'
  BY <1>3 DEF MigrationInv, RunOK, GoodOK, AloneOK, MakerOK, M!HalfMade
<1> QED
  BY <1>4, <1>5, <1>6, <1>7, TypesNext DEF MigrationInv

LEMMA MigrationStepInv == MigrationInv /\ [M!Next]_(M!vars) => MigrationInv'
<1> SUFFICES ASSUME MigrationInv, [M!Next]_(M!vars) PROVE MigrationInv'
  OBVIOUS
<1>1. CASE M!Write
  BY <1>1, WriteKeepsInv
<1>2. ASSUME NEW r \in Runs, M!Begin(r)
      PROVE  MigrationInv'
  BY <1>2, BeginKeepsInv
<1>3. ASSUME NEW r \in Runs, M!Work(r) \/ M!Crash(r)
      PROVE  MigrationInv'
  <2>1. Frame(r) /\ SchemaStep(r)
    BY <1>3, WorkFrame, SchemaSteps
  <2>2. M!TypeOK' /\ KeysOK'
    BY <2>1, FrameTypes, TypesNext DEF SchemaStep
  <2>3. RunOK(r)' /\ GoodOK(r)' /\ AloneOK(r)'
    BY <1>3, OwnStep
  <2>4. \A t \in Runs \ {r} : RunOK(t)' /\ GoodOK(t)' /\ AloneOK(t)'
    BY <2>1, OthersKeep DEF SchemaStep
  <2>5. \A t \in Runs : MakerOK(t)'
    BY <2>1, MakerKept, FrameTypes DEF SchemaStep
  <2> QED
    BY <2>2, <2>3, <2>4, <2>5 DEF MigrationInv
<1>4. CASE UNCHANGED M!vars
  <2>1. UNCHANGED <<column, data, index, actions, odd, old, keys, pc, saw, only, alone, ended>>
    BY <1>4 DEF M!vars
  <2>2. SchemaTypes' /\ KeysOK' /\ RunTypes'
    BY <2>1, TypesSplit DEF MigrationInv, SchemaTypes, KeysOK, RunTypes, M!Unique
  <2>3. M!Bad(keys)' = M!Bad(keys) /\ M!Nulls' = M!Nulls
    BY <2>1, SameKeys
  <2> QED
    BY <2>1, <2>2, <2>3, TypesNext DEF MigrationInv, RunOK, GoodOK, AloneOK, MakerOK, M!HalfMade
<1> QED
  BY <1>1, <1>2, <1>3, <1>4 DEF M!Next

\* Whoever is told that the schema is ready has a complete schema and a key on
\* every message, for good; and of all that dead runs may have left, a run that
\* is alone is stopped only by a table of actions without its unique keys: for
\* any number of operators, messages and crashes, and any size of the batches.
THEOREM MigrationHeals == M!Spec => [](M!TypeOK /\ M!ReadyIsReady /\ M!RerunHeals)
<1>1. M!Spec => []MigrationInv
  BY MigrationInitInv, MigrationStepInv, PTL DEF M!Spec
<1>2. MigrationInv => M!TypeOK /\ M!ReadyIsReady /\ M!RerunHeals
  BY TypesSplit DEF MigrationInv, RunOK, AloneOK, SchemaTypes, M!ReadyIsReady, M!RerunHeals, M!Nulls, M!Rows
<1> QED
  BY <1>1, <1>2, PTL

KeepsConflict == (odd \/ M!Bad(keys) \/ M!Abandoned) /\ ~old => UNCHANGED <<M!schema, keys>>
KeepsKeys ==
  \A i \in M!Rows : /\ i \in DOMAIN keys'
                    /\ keys'[i] \in {keys[i], IF keys[i] = M!Null THEN i ELSE keys[i]}

\* A run that has looked before the table of actions was left half made has
\* nothing to do that is not done.
LEMMA AbandonedStays ==
  ASSUME MigrationInv, NEW r \in Runs, pc[r] \in Counted, M!Work(r), M!Abandoned
  PROVE  UNCHANGED <<M!schema, keys>>
<1>1. /\ column = "required" /\ data /\ index /\ M!HalfMade /\ pc[r] # "unique"
      /\ saw[r].actions # M!Whole
  <2>1. M!HalfMade /\ pc[r] # "unique" /\ RunOK(r) /\ pc[r] \in Started
    BY DEF MigrationInv, M!Abandoned, Started, Counted
  <2> QED
    BY <2>1 DEF RunOK, M!HalfMade, M!Whole
<1>2. M!Nulls = {}
  BY <1>1 DEF MigrationInv, M!TypeOK, M!Nulls, M!Rows
<1>3. actions # 0
  BY <1>1 DEF M!HalfMade, M!Whole
<1>4. CASE M!AddKey(r) \/ M!AddData(r)
  BY <1>1, <1>4 DEF M!AddKey, M!AddData, M!schema
<1>5. CASE M!Fill(r) \/ M!Check(r) \/ M!Inspect(r) \/ M!Count(r)
  BY <1>2, <1>5 DEF M!Fill, M!Check, M!Inspect, M!Count
<1>6. CASE M!Require(r) \/ M!CreateIndex(r)
  BY <1>1, <1>6 DEF M!Require, M!CreateIndex, M!schema
<1>7. CASE M!CreateTable(r)
  BY <1>1, <1>3, <1>7 DEF M!CreateTable, M!schema
<1> QED
  BY <1>1, <1>4, <1>5, <1>6, <1>7 DEF M!Work, M!CreateUnique

LEMMA StepKeeps ==
  ASSUME MigrationInv, M!Next
  PROVE  KeepsConflict /\ KeepsKeys
<1>1. CASE UNCHANGED <<M!schema, keys>>
  BY <1>1 DEF KeepsConflict, KeepsKeys, M!Rows
<1>2. CASE M!Write
  <2>1. KeepsConflict
    BY <1>2 DEF M!Write, KeepsConflict
  <2>2. PICK n \in 1..(MaxId - 1) : /\ DOMAIN keys = 1..n /\ DOMAIN keys' = 1..(n + 1)
                                     /\ \A i \in 1..n : keys'[i] = keys[i]
    BY <1>2, WriteAdds
  <2>3. 1..n \subseteq 1..(n + 1)
    BY <2>2, DeploymentAssumption
  <2> QED
    BY <2>1, <2>2, <2>3 DEF KeepsKeys, M!Rows
<1>3. ASSUME NEW r \in Runs, pc[r] \in Counted, M!Work(r)
      PROVE  KeepsConflict /\ KeepsKeys
  <2>1. ~old => ~odd /\ ~M!Bad(keys)
    BY <1>3 DEF MigrationInv, RunOK, GoodOK, Started, Counted
  <2>4. M!Abandoned => UNCHANGED <<M!schema, keys>>
    BY <1>3, AbandonedStays
  <2>5. KeepsConflict
    BY <2>1, <2>4 DEF KeepsConflict
  <2>2. CASE keys' = keys
    BY <2>5, <2>2 DEF KeepsKeys, M!Rows
  <2>3. CASE M!Fill(r)
    BY <2>5, <2>3, FillKeys DEF KeepsKeys, M!Rows
  <2> QED
    BY <1>3, <2>2, <2>3
    DEF M!Work, M!Inspect, M!Count, M!AddKey, M!AddData, M!Check, M!Require, M!CreateIndex, M!CreateTable,
        M!CreateUnique
<1>4. ASSUME NEW r \in Runs, M!Begin(r) \/ M!Work(r) \/ M!Crash(r)
      PROVE  KeepsConflict /\ KeepsKeys
  <2>1. M!Begin(r) \/ M!Crash(r) \/ M!Inspect(r) \/ M!Count(r) => UNCHANGED <<M!schema, keys>>
    BY DEF M!Begin, M!Crash, M!Inspect, M!Count
  <2>2. M!Work(r) => M!Inspect(r) \/ M!Count(r) \/ pc[r] \in Counted
    BY DEF M!Work, M!AddKey, M!AddData, M!Fill, M!Check, M!Require, M!CreateIndex, M!CreateTable,
           M!CreateUnique, Counted
  <2> QED
    BY <1>1, <1>3, <1>4, <2>1, <2>2
<1> QED
  BY <1>2, <1>4 DEF M!Next

\* No migration touches a database in conflict, mends a table of actions that a
\* dead one left without its unique keys, or changes a key that a message has,
\* whatever runs beside it and wherever it dies.
THEOREM MigrationKeeps == M!Spec => DatabaseIsKept
<1>1. M!Spec => []MigrationInv
  BY MigrationInitInv, MigrationStepInv, PTL DEF M!Spec
<1>2. MigrationInv /\ [M!Next]_(M!vars) => [KeepsConflict]_(M!vars) /\ [KeepsKeys]_(M!vars)
  BY StepKeeps
<1>3. M!Spec => [][KeepsConflict]_(M!vars) /\ [][KeepsKeys]_(M!vars)
  BY <1>1, <1>2, PTL DEF M!Spec
<1>4. [][KeepsConflict]_(M!vars) /\ [][KeepsKeys]_(M!vars) => DatabaseIsKept
  <2>1. [KeepsConflict]_(M!vars) =>
          [(odd \/ M!Bad(keys) \/ M!Abandoned) /\ ~old => UNCHANGED <<M!schema, keys>>]_(M!vars)
    BY DEF KeepsConflict
  <2>2. [KeepsKeys]_(M!vars) =>
          [\A i \in M!Rows : i \in DOMAIN keys' /\ keys'[i] \in {keys[i], IF keys[i] = M!Null THEN i ELSE keys[i]}]_(M!vars)
    BY DEF KeepsKeys
  <2>3. [][KeepsConflict]_(M!vars) => M!ConflictUntouched
    BY <2>1, PTL DEF M!ConflictUntouched
  <2>4. [][KeepsKeys]_(M!vars) => M!KeysAreKept
    BY <2>2, PTL DEF M!KeysAreKept
  <2> QED
    BY <2>3, <2>4, PTL DEF DatabaseIsKept
<1> QED
  BY <1>3, <1>4, PTL

-----------------------------------------------------------------------------
(* Both together.                                                          *)

LEMMA TogetherSteps ==
  ASSUME [TogetherNext]_everything
  PROVE  [Next]_vars /\ [M!Next]_(M!vars)
<1>1. UNCHANGED database => UNCHANGED M!vars
  BY DEF database, schema, runs, M!vars
<1>2. App \in Runs
  BY DeploymentAssumption
<1>3. CASE CheckBegins
  BY <1>2, <1>3 DEF CheckBegins, M!Next
<1>4. CASE CheckWorks
  BY <1>2, <1>4 DEF CheckWorks, M!Next
<1>5. CASE GoOn
  BY <1>1, <1>5 DEF GoOn, Next
<1>6. CASE GiveUp
  BY <1>1, <1>2, <1>6 DEF GiveUp, Next, M!Next
<1>7. CASE GiveIn
  BY <1>1, <1>2, <1>7 DEF GiveIn, Next, M!Next
<1>8. CASE RunsOn
  BY <1>1, <1>8 DEF RunsOn, Next
<1>9. CASE Operate
  BY <1>9 DEF Operate, M!Next
<1>10. CASE Write
  BY <1>10 DEF Write, M!Next
<1>11. CASE UNCHANGED everything
  BY <1>1, <1>11 DEF everything
<1> QED
  BY <1>3, <1>4, <1>5, <1>6, <1>7, <1>8, <1>9, <1>10, <1>11 DEF TogetherNext

\* Together, the start-up is still a lifespan, and what happens to the database
\* is still what migrations and old writers do to it.
THEOREM DeploymentIsALifespan == Deployed => Spec
<1>1. TogetherInit => Init
  BY DEF TogetherInit
<1>2. [TogetherNext]_everything => [Next]_vars
  BY TogetherSteps
<1> QED
  BY <1>1, <1>2, PTL DEF Deployed, Spec

\* The same of what it and the operators do to the database.
THEOREM DeploymentIsAMigration == Deployed => M!Spec
<1>1. TogetherInit => M!Init
  BY DEF TogetherInit
<1>2. [TogetherNext]_everything => [M!Next]_(M!vars)
  BY TogetherSteps
<1> QED
  BY <1>1, <1>2, PTL DEF Deployed, M!Spec

\* Past the step of the migration, the check of the start-up has said "ready".
PassedOK ==
  /\ scene \in {"start", "migrate"}
  /\ scene = "start" /\ mode = "workflow" /\ at >= 5 => ended[App] = "ready"

LEMMA PassedStep ==
  ASSUME LifespanInv, MigrationInv, PassedOK, [TogetherNext]_everything
  PROVE  PassedOK'
<1> SUFFICES ASSUME scene' = "start", mode' = "workflow", at' >= 5 PROVE ended'[App] = "ready"
  <2>1. scene' = scene
    BY DEF TogetherNext, CheckBegins, CheckWorks, GoOn, GiveUp, GiveIn, RunsOn, Operate, Write,
       Fixed, everything
  <2> QED
    BY <2>1 DEF PassedOK
<1>1. /\ mode' = mode /\ scene' = scene /\ App \in Runs
      /\ at \in Nat /\ (at' = at \/ (GoOn /\ at' = at + 1))
  <2>1. at \in Nat
    <3>1. Len(Steps) \in Nat
      BY Shape DEF LifespanInv, TypeOK
    <3> QED
      BY <3>1 DEF LifespanInv, TypeOK
  <2>2. CASE GoOn
    BY <2>1, <2>2, DeploymentAssumption DEF GoOn, Advance, Fixed
  <2>3. CASE CheckBegins \/ CheckWorks \/ Operate \/ Write \/ UNCHANGED everything
    BY <2>1, <2>3, DeploymentAssumption
    DEF CheckBegins, CheckWorks, Operate, Write, everything, Fixed, vars
  <2>4. CASE GiveUp \/ GiveIn
    BY <2>1, <2>4, DeploymentAssumption DEF GiveUp, GiveIn, Raise, Cancel, boot, Fixed
  <2>5. CASE RunsOn
    BY <2>1, <2>5, DeploymentAssumption
    DEF RunsOn, Fixed, Warm, ThreadEnds, Drained, Shutdown, CloseNext, CancelClosing, End, Retain, CleanedUp,
        boot
  <2> QED
    BY <2>2, <2>3, <2>4, <2>5 DEF TogetherNext
<1>2. mode \in Modes /\ at \in 1..(Len(Steps) + 1) /\ mode = "workflow"
  BY <1>1 DEF LifespanInv, TypeOK
<1>3. Checking <=> phase = "starting" /\ at = 4
  <2>1. Checking => phase = "starting" /\ at \in 1..Len(Steps)
    BY <1>1, <1>2 DEF Checking
  <2>2. phase = "starting" => at \in 1..Len(Steps)
    BY <1>1, <1>2 DEF LifespanInv, PhaseOK
  <2> QED
    BY <1>2, <2>1, <2>2, StepTakes DEF Checking
<1>4. CASE at = 4
  <2>1. GoOn /\ phase = "starting"
    BY <1>1, <1>4 DEF GoOn, Advance
  <2> QED
    BY <1>3, <1>4, <2>1 DEF GoOn, database, runs
<1>5. CASE at # 4
  <2>1. ~Checking /\ at >= 5
    BY <1>1, <1>3, <1>5
  <2>2. ended[App] = "ready" /\ pc[App] = "idle"
    BY <1>1, <1>2, <2>1 DEF PassedOK, MigrationInv, RunOK
  <2>3. CASE UNCHANGED database
    BY <2>2, <2>3 DEF database, runs
  <2>4. CASE Operate
    <3>1. PICK r \in Runs \ {App} : M!Begin(r) \/ M!Work(r) \/ M!Crash(r)
      BY <1>1, <2>4 DEF Operate
    <3>2. ended'[App] = ended[App]
      <4>1. M!Begin(r) => ended'[App] = ended[App]
        BY <1>1, TypesSplit DEF M!Begin, MigrationInv, RunTypes
      <4>2. M!Work(r) \/ M!Crash(r) => ended'[App] = ended[App]
        BY <1>1, WorkFrame, FrameTypes
      <4> QED
        BY <3>1, <4>1, <4>2
    <3> QED
      BY <2>2, <3>2
  <2>5. CASE Write
    BY <2>2, <2>5 DEF Write, M!Write
  <2> QED
    BY <2>1, <2>2, <2>3, <2>4, <2>5
    DEF TogetherNext, CheckBegins, CheckWorks, GoOn, GiveUp, GiveIn, RunsOn, everything
<1> QED
  BY <1>1, <1>4, <1>5

\* The workflow service opens its store, and serves, only over a schema that is
\* ready and stays so, beside any number of operators and old writers; and what
\* those leave stops no later run but for a half-made table of actions.
THEOREM ServiceHasItsSchema == Deployed => []SchemaSafety
<1>1. Deployed => []LifespanInv
  BY LifespanInitInv, LifespanStepInv, DeploymentIsALifespan, PTL DEF Spec
<1>2. Deployed => []MigrationInv
  BY MigrationInitInv, MigrationStepInv, DeploymentIsAMigration, PTL DEF M!Spec
<1>3. TogetherInit => PassedOK
  BY DEF TogetherInit, PassedOK, Init
<1>4. LifespanInv /\ MigrationInv /\ PassedOK /\ [TogetherNext]_everything => PassedOK'
  BY PassedStep
<1>5. Deployed => []PassedOK
  BY <1>1, <1>2, <1>3, <1>4, PTL DEF Deployed
<1>6. LifespanInv /\ MigrationInv /\ PassedOK => SchemaSafety
  <2> SUFFICES ASSUME LifespanInv, MigrationInv, PassedOK PROVE SchemaSafety
    OBVIOUS
  <2>1. M!TypeOK /\ M!ReadyIsReady /\ M!RerunHeals
    BY TypesSplit DEF MigrationInv, RunOK, AloneOK, SchemaTypes, M!ReadyIsReady, M!RerunHeals, M!Nulls, M!Rows
  <2>2. ServesOverReadySchema
    <3> SUFFICES ASSUME scene = "start", mode = "workflow", Contains(owned, "store")
                 PROVE  /\ column = "required" /\ data /\ index /\ actions = M!Whole /\ ~odd
                        /\ \A i \in DOMAIN keys : keys[i] # M!Null
      BY DEF ServesOverReadySchema
    <3>1. at >= 5
      <4>1. PICK i \in 1..Len(owned) : owned[i] = "store"
        BY DEF Contains
      <4>2. Full[i] = "store" /\ Len(owned) = Taken(at)
        BY <4>1 DEF LifespanInv, OwnedOK
      <4>3. at \in Nat
        <5>1. Len(Steps) \in Nat
          BY Shape DEF LifespanInv, TypeOK
        <5> QED
          BY <5>1 DEF LifespanInv, TypeOK
      <4>4. i # 1 /\ i # 2
        BY <4>2 DEF Full
      <4>5. Taken(at) >= 3
        BY <4>1, <4>2, <4>3, <4>4 DEF Taken
      <4> QED
        BY <4>3, <4>5 DEF Taken
    <3>2. ended[App] = "ready" /\ App \in Runs
      BY <3>1, DeploymentAssumption DEF PassedOK
    <3> QED
      BY <2>1, <3>2 DEF M!ReadyIsReady, M!Nulls, M!Rows
  <2> QED
    BY <2>1, <2>2 DEF SchemaSafety, DatabaseTypeOK, PassedOK
<1> QED
  BY <1>1, <1>2, <1>5, <1>6, PTL

\* And what each of the two promises by itself, it keeps beside the other.
THEOREM BothKeepTheirPromises == Deployed => []LifespanSafety /\ DatabaseIsKept
BY LifespanIsSafe, MigrationKeeps, DeploymentIsALifespan, DeploymentIsAMigration, PTL
=============================================================================
