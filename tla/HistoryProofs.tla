---------------------------- MODULE HistoryProofs ----------------------------
(***************************************************************************)
(* For any number of runs, paths and commits: no listed commit is left     *)
(* without its row, and a row names its entities as the last rename that   *)
(* its run has listed has left them.                                       *)
(***************************************************************************)
EXTENDS History, SequenceTheorems, WellFoundedInduction, TLAPS

-----------------------------------------------------------------------------
(* Induction over a range of numbers *)

Below == {ss \in Nat \X Nat : ss[1] < ss[2]}

LEMMA BelowWellFounded == IsWellFoundedOn(Below, Nat)
  <1>1. OpToRel(<, Nat) = Below
    BY DEF OpToRel, Below
  <1>2. QED
    BY <1>1, NatLessThanWellFounded

LEMMA Least ==
    ASSUME NEW T, T \subseteq Nat, T # {}
    PROVE  \E x \in T : \A y \in T : x <= y
  <1>1. PICK x \in T : \A y \in T : <<y, x>> \notin Below
    BY BelowWellFounded, WFMin
  <1>2. ASSUME NEW y \in T PROVE x <= y
    <2>1. x \in Nat /\ y \in Nat
      OBVIOUS
    <2>2. ~(y < x)
      BY <1>1, <2>1 DEF Below
    <2>3. QED
      BY <2>1, <2>2
  <1>3. QED
    BY <1>2

\* What holds at the start of a range and at the successor of each place where it holds, holds
\* all along it: else it would fail first somewhere.
LEMMA AllAlong ==
    ASSUME NEW a \in Nat, NEW b \in Nat, NEW S, a \in S,
           \A n \in a..b : n < b /\ n \in S => n + 1 \in S
    PROVE  \A n \in a..b : n \in S
  <1>1. SUFFICES ASSUME (a..b) \ S # {} PROVE FALSE
    OBVIOUS
  <1>2. PICK x \in (a..b) \ S : \A y \in (a..b) \ S : x <= y
    <2>1. (a..b) \ S \subseteq Nat
      OBVIOUS
    <2>2. QED
      BY <1>1, <2>1, Least
  <1>3. x # a /\ x - 1 \in a..b /\ x - 1 < b
    BY <1>2
  <1>4. x - 1 \in S
    BY <1>2, <1>3
  <1>5. x - 1 + 1 \in S /\ x - 1 + 1 = x
    BY <1>3, <1>4
  <1>6. QED
    BY <1>2, <1>5

-----------------------------------------------------------------------------
(* Pass 1 *)

\* The registry after n changed paths, from the one before.
Further(walk, reg, n) ==
    IF history[n].commit \in walk THEN Touch(reg, history[n]) ELSE reg

IsPass(walk, m, f) ==
    f = [n \in 0..m |-> IF n = 0 THEN NewPathIdentity ELSE Further(walk, f[n - 1], n)]

\* The recursion has a solution.
LEMMA PassExists ==
    ASSUME NEW walk, NEW b \in Nat
    PROVE  \E f : IsPass(walk, b, f)
  <1>1. PICK S : S = {m \in 0..b : \E f : IsPass(walk, m, f)}
    OBVIOUS
  <1>2. 0 \in S
    <2>1. PICK f : f = [n \in 0..0 |-> NewPathIdentity]
      OBVIOUS
    <2>2. IsPass(walk, 0, f)
      BY <2>1 DEF IsPass
    <2>3. QED
      BY <1>1, <2>2
  <1>3. ASSUME NEW m \in 0..b, m < b, m \in S PROVE m + 1 \in S
    <2>1. PICK f : IsPass(walk, m, f)
      BY <1>1, <1>3
    <2>2. PICK g : g = [n \in 0..(m + 1) |-> IF n \in 0..m THEN f[n] ELSE Further(walk, f[m], m + 1)]
      OBVIOUS
    <2>3. g = [n \in 0..(m + 1) |-> IF n = 0 THEN NewPathIdentity ELSE Further(walk, g[n - 1], n)]
      <3>1. ASSUME NEW n \in 0..(m + 1)
            PROVE  g[n] = IF n = 0 THEN NewPathIdentity ELSE Further(walk, g[n - 1], n)
        <4>1. CASE n = 0
          BY <2>1, <2>2, <4>1 DEF IsPass
        <4>2. CASE n # 0 /\ n \in 0..m
          <5>1. n - 1 \in 0..m /\ n - 1 \in 0..(m + 1)
            BY <4>2
          <5>2. g[n - 1] = f[n - 1] /\ g[n] = f[n]
            BY <2>2, <4>2, <5>1
          <5>3. f[n] = Further(walk, f[n - 1], n)
            BY <2>1, <4>2 DEF IsPass
          <5>4. QED
            BY <4>2, <5>2, <5>3
        <4>3. CASE n = m + 1
          <5>1. n - 1 = m /\ m \in 0..m /\ n \notin 0..m /\ n # 0
            BY <4>3
          <5>2. g[n - 1] = f[m]
            BY <2>2, <5>1
          <5>3. g[n] = Further(walk, f[m], n)
            BY <2>2, <4>3, <5>1
          <5>4. QED
            BY <5>1, <5>2, <5>3
        <4>4. QED
          BY <4>1, <4>2, <4>3
      <3>2. QED
        BY <2>2, <3>1
    <2>4. QED
      BY <1>1, <1>3, <2>3 DEF IsPass
  <1>4. b \in S
    BY <1>1, <1>2, <1>3, AllAlong
  <1>5. QED
    BY <1>1, <1>4

LEMMA PassOneIs ==
    ASSUME NEW walk, Len(history) \in Nat
    PROVE  /\ PassOne(walk)[0] = NewPathIdentity
           /\ \A n \in 1..Len(history) :
                 PassOne(walk)[n] = Further(walk, PassOne(walk)[n - 1], n)
  <1>1. PICK f : IsPass(walk, Len(history), f)
    BY PassExists
  <1>2. IsPass(walk, Len(history), PassOne(walk))
    <2>1. PassOne(walk) = CHOOSE g : IsPass(walk, Len(history), g)
      BY DEF PassOne, IsPass, Further
    <2>2. QED
      BY <1>1, <2>1
  <1>3. QED
    BY <1>2 DEF IsPass

-----------------------------------------------------------------------------
(* Touch *)

RegistryOK(reg) ==
    /\ reg.current \in [Paths -> Nat] /\ reg.final \in Seq(Paths \cup {None})
    /\ \A p \in Paths : reg.current[p] # 0 =>
          reg.current[p] \in 1..Len(reg.final) /\ reg.final[reg.current[p]] = p

\* A changed path as diff-tree shows it.
Shown(ch) ==
    /\ ch.status \in {"A", "M", "R", "C", "D"}
    /\ ch.status # "D" => ch.new \in Paths
    /\ ch.status \in {"R", "C", "D"} => ch.old \in Paths
    /\ ch.status \in {"R", "C"} => ch.old # ch.new

\* A path has the identity it has been touched with, none once it was moved or deleted, and
\* the one it had otherwise.
Retraced(reg, ch, to, id) ==
    \A q \in Paths : to.current[q] =
        IF ch.status # "D" /\ q = ch.new THEN id
        ELSE IF ch.status \in {"R", "C", "D"} /\ q = ch.old THEN 0
        ELSE reg.current[q]

\* The names: only that of the touched identity changes, and only to a path.
Renamed(reg, ch, to, id) ==
    /\ Len(to.final) >= Len(reg.final) /\ id \in 1..Len(to.final)
    /\ Known(reg, ch) = 0 => id = Len(reg.final) + 1
    /\ Known(reg, ch) # 0 => id = Known(reg, ch) /\ id \in 1..Len(reg.final)
    /\ \A j \in 1..Len(reg.final) : j # id => to.final[j] = reg.final[j]
    /\ ch.status # "D" => to.final[id] = ch.new
    /\ ch.status = "D" /\ Known(reg, ch) # 0 => to.final[id] = reg.final[id]
    /\ ch.status = "D" /\ Known(reg, ch) = 0 => to.final[id] = None

LEMMA NewRegistryOK == RegistryOK(NewPathIdentity)
  BY DEF RegistryOK, NewPathIdentity

LEMMA KnownIs ==
    ASSUME NEW reg, RegistryOK(reg), NEW ch, Shown(ch)
    PROVE  /\ Known(reg, ch) \in Nat
           /\ Known(reg, ch) # 0 =>
                 /\ Known(reg, ch) \in 1..Len(reg.final)
                 /\ ch.status # "A"
                 /\ ch.status = "M" => Known(reg, ch) = reg.current[ch.new]
                                       /\ reg.final[Known(reg, ch)] = ch.new
                 /\ ch.status # "M" => Known(reg, ch) = reg.current[ch.old]
                                       /\ reg.final[Known(reg, ch)] = ch.old
           /\ Known(reg, ch) = 0 =>
                 /\ ch.status = "M" => reg.current[ch.new] = 0
                 /\ ch.status \in {"R", "C", "D"} => reg.current[ch.old] = 0
  BY DEF RegistryOK, Shown, Known

LEMMA Touches ==
    ASSUME NEW reg, RegistryOK(reg), NEW ch, Shown(ch)
    PROVE  /\ Retraced(reg, ch, Touch(reg, ch), Identity(reg, ch))
           /\ Renamed(reg, ch, Touch(reg, ch), Identity(reg, ch))
           /\ Touch(reg, ch).current \in [Paths -> Nat]
           /\ Touch(reg, ch).final \in Seq(Paths \cup {None})
  <1> DEFINE known == Known(reg, ch)
             id    == Identity(reg, ch)
             left  == IF known = 0 \/ ch.status \in {"A", "M"} THEN reg.current
                      ELSE Vacated(reg.current, ch.old)
             final == IF known = 0 THEN Append(reg.final, None) ELSE reg.final
  <1>1. known \in Nat /\ Len(reg.final) \in Nat /\ (known # 0 => known \in 1..Len(reg.final))
    BY KnownIs, LenProperties DEF RegistryOK
  <1>2. id = IF known = 0 THEN Len(reg.final) + 1 ELSE known
    BY DEF Identity
  <1>3. left \in [Paths -> Nat]
    <2>1. CASE known = 0 \/ ch.status \in {"A", "M"}
      BY <2>1 DEF RegistryOK
    <2>2. CASE ~(known = 0 \/ ch.status \in {"A", "M"})
      <3>1. left = Vacated(reg.current, ch.old)
        BY <2>2
      <3>2. QED
        BY <3>1 DEF Vacated, RegistryOK
    <2>3. QED
      BY <2>1, <2>2
  <1>4. \A q \in Paths : left[q] =
            IF ch.status \in {"R", "C", "D"} /\ q = ch.old THEN 0 ELSE reg.current[q]
    <2>1. CASE known = 0
      <3>1. left = reg.current
        BY <2>1
      <3>2. QED
        BY <2>1, <3>1, KnownIs
    <2>2. CASE known # 0 /\ ch.status \in {"A", "M"}
      <3>1. left = reg.current
        BY <2>2
      <3>2. QED
        BY <2>2, <3>1
    <2>3. CASE known # 0 /\ ch.status \notin {"A", "M"}
      <3>1. left = Vacated(reg.current, ch.old) /\ ch.old \in Paths
        BY <2>3 DEF Shown
      <3>2. left = [reg.current EXCEPT ![ch.old] = 0]
        BY <3>1, NullsOK DEF Vacated
      <3>3. ch.status \in {"R", "C", "D"}
        BY <2>3 DEF Shown
      <3>4. QED
        BY <3>2, <3>3 DEF RegistryOK
    <2>4. QED
      BY <2>1, <2>2, <2>3
  <1>5. /\ final \in Seq(Paths \cup {None}) /\ Len(final) >= Len(reg.final)
        /\ id \in 1..Len(final) /\ Len(final) \in Nat
        /\ \A j \in 1..Len(reg.final) : final[j] = reg.final[j]
        /\ known = 0 => final[id] = None
    <2>1. CASE known = 0
      <3>1. final = Append(reg.final, None) /\ id = Len(reg.final) + 1
        BY <2>1, <1>2
      <3>2. reg.final \in Seq(Paths \cup {None})
        BY DEF RegistryOK
      <3>3. QED
        BY <3>1, <3>2, AppendProperties
    <2>2. CASE known # 0
      <3>1. final = reg.final /\ id = known
        BY <2>2, <1>2
      <3>2. QED
        BY <2>2, <3>1, <1>1 DEF RegistryOK
    <2>3. QED
      BY <2>1, <2>2
  <1>6. Touch(reg, ch) =
          [current |-> IF ch.status = "D" THEN left ELSE [left EXCEPT ![ch.new] = id],
           final   |-> IF ch.status = "D" THEN final ELSE [final EXCEPT ![id] = ch.new]]
    BY DEF Touch
  <1>7. id \in Nat
    BY <1>1, <1>2
  <1> HIDE DEF known, id, left, final
  <1>8. CASE ch.status = "D"
    <2>1. Touch(reg, ch).current = left /\ Touch(reg, ch).final = final
      BY <1>6, <1>8
    <2>2. Retraced(reg, ch, Touch(reg, ch), id)
      BY <2>1, <1>4, <1>8 DEF Retraced
    <2>3. Renamed(reg, ch, Touch(reg, ch), id)
      BY <2>1, <1>1, <1>2, <1>5, <1>8 DEF Renamed, known
    <2>4. QED
      BY <2>1, <2>2, <2>3, <1>3, <1>5 DEF id
  <1>9. CASE ch.status # "D"
    <2>1. ch.new \in Paths
      BY <1>9 DEF Shown
    <2>2. /\ Touch(reg, ch).current = [left EXCEPT ![ch.new] = id]
          /\ Touch(reg, ch).final = [final EXCEPT ![id] = ch.new]
      BY <1>6, <1>9
    <2>3. Retraced(reg, ch, Touch(reg, ch), id)
      BY <2>1, <2>2, <1>3, <1>4, <1>9 DEF Retraced
    <2>4. /\ [final EXCEPT ![id] = ch.new] \in Seq(Paths \cup {None})
          /\ Len([final EXCEPT ![id] = ch.new]) = Len(final)
          /\ \A j \in 1..Len(final) :
                [final EXCEPT ![id] = ch.new][j] = IF j = id THEN ch.new ELSE final[j]
      BY <2>1, <1>5, ExceptSeq
    <2>5. Renamed(reg, ch, Touch(reg, ch), id)
      BY <2>2, <2>4, <1>1, <1>2, <1>5, <1>9 DEF Renamed, known
    <2>6. Touch(reg, ch).current \in [Paths -> Nat]
      BY <2>1, <2>2, <1>3, <1>7
    <2>7. QED
      BY <2>2, <2>3, <2>4, <2>5, <2>6 DEF id
  <1>10. QED
    BY <1>8, <1>9

\* A path with an identity is what that is called, as pass 1 goes along.
LEMMA TouchOK ==
    ASSUME NEW reg, RegistryOK(reg), NEW ch, Shown(ch)
    PROVE  RegistryOK(Touch(reg, ch))
  <1> DEFINE to == Touch(reg, ch)
             id == Identity(reg, ch)
  <1>1. Retraced(reg, ch, to, id) /\ Renamed(reg, ch, to, id)
        /\ to.current \in [Paths -> Nat] /\ to.final \in Seq(Paths \cup {None})
    BY Touches
  <1>2. Len(reg.final) \in Nat /\ Len(to.final) \in Nat
    BY <1>1, LenProperties DEF RegistryOK
  <1> HIDE DEF to, id
  <1>3. ASSUME NEW q \in Paths, to.current[q] # 0
        PROVE  to.current[q] \in 1..Len(to.final) /\ to.final[to.current[q]] = q
    <2>1. CASE ch.status # "D" /\ q = ch.new
      BY <2>1, <1>1 DEF Retraced, Renamed
    <2>2. CASE ~(ch.status # "D" /\ q = ch.new)
      <3>1. /\ to.current[q] = reg.current[q] /\ reg.current[q] # 0
            /\ ch.status \in {"R", "C", "D"} => q # ch.old
        BY <2>2, <1>1, <1>3 DEF Retraced
      <3>2. reg.current[q] \in 1..Len(reg.final) /\ reg.final[reg.current[q]] = q
        BY <3>1 DEF RegistryOK
      <3>3. reg.current[q] # id
        <4>1. CASE Known(reg, ch) = 0
          BY <4>1, <1>1, <1>2, <3>2 DEF Renamed
        <4>2. CASE Known(reg, ch) # 0
          <5>1. /\ id = Known(reg, ch) /\ ch.status # "A"
                /\ ch.status = "M" => reg.final[id] = ch.new
                /\ ch.status # "M" => reg.final[id] = ch.old
            BY <4>2, <1>1, KnownIs DEF Renamed
          <5>2. QED
            BY <5>1, <2>2, <3>1, <3>2 DEF Shown
        <4>3. QED
          BY <4>1, <4>2
      <3>4. QED
        BY <3>1, <3>2, <3>3, <1>1, <1>2 DEF Renamed
    <2>3. QED
      BY <2>1, <2>2
  <1>4. QED
    BY <1>1, <1>3 DEF RegistryOK, to

\* A name that an identity has is never lost.
LEMMA TouchKeepsNames ==
    ASSUME NEW reg, RegistryOK(reg), NEW ch, Shown(ch), NEW j \in 1..Len(reg.final)
    PROVE  /\ j \in 1..Len(Touch(reg, ch).final)
           /\ reg.final[j] # None => Touch(reg, ch).final[j] # None
  <1> DEFINE to == Touch(reg, ch)
             id == Identity(reg, ch)
  <1>1. Renamed(reg, ch, to, id) /\ to.final \in Seq(Paths \cup {None})
    BY Touches
  <1>2. Len(reg.final) \in Nat /\ Len(to.final) \in Nat
    BY <1>1, LenProperties DEF RegistryOK
  <1> HIDE DEF to, id
  <1>3. ch.status # "D" => ch.new # None
    BY NullsOK DEF Shown
  <1>4. ASSUME reg.final[j] # None PROVE to.final[j] # None
    <2>1. CASE j # id
      BY <2>1, <1>1, <1>4 DEF Renamed
    <2>2. CASE j = id
      BY <2>2, <1>1, <1>2, <1>3, <1>4 DEF Renamed
    <2>3. QED
      BY <2>1, <2>2
  <1>5. QED
    BY <1>1, <1>2, <1>4 DEF Renamed, to

LEMMA PassOK ==
    ASSUME NEW walk, Len(history) \in Nat,
           \A n \in 1..Len(history) : Shown(history[n])
    PROVE  \A n \in 0..Len(history) : RegistryOK(PassOne(walk)[n])
  <1> DEFINE P == PassOne(walk)
             S == {n \in 0..Len(history) : RegistryOK(P[n])}
  <1>1. 0 \in S
    BY PassOneIs, NewRegistryOK
  <1>2. ASSUME NEW n \in 0..Len(history), n < Len(history), n \in S PROVE n + 1 \in S
    <2>1. n + 1 \in 1..Len(history) /\ n + 1 - 1 = n
      BY <1>2
    <2>2. P[n + 1] = Further(walk, P[n], n + 1)
      BY <2>1, PassOneIs
    <2>3. RegistryOK(P[n + 1])
      <3>1. CASE history[n + 1].commit \in walk
        BY <1>2, <2>1, <2>2, <3>1, TouchOK DEF Further
      <3>2. CASE history[n + 1].commit \notin walk
        BY <1>2, <2>2, <3>2 DEF Further
      <3>3. QED
        BY <3>1, <3>2
    <2>4. QED
      BY <2>1, <2>3
  <1> HIDE DEF S
  <1>3. \A n \in 0..Len(history) : n \in S
    BY <1>1, <1>2, AllAlong
  <1>4. QED
    BY <1>3 DEF S

LEMMA PassKeepsNames ==
    ASSUME NEW walk, Len(history) \in Nat,
           \A n \in 1..Len(history) : Shown(history[n]),
           NEW a \in 0..Len(history),
           NEW j, j \in 1..Len(PassOne(walk)[a].final)
    PROVE  \A n \in a..Len(history) :
              /\ j \in 1..Len(PassOne(walk)[n].final)
              /\ PassOne(walk)[a].final[j] # None => PassOne(walk)[n].final[j] # None
  <1> DEFINE P == PassOne(walk)
             S == {n \in a..Len(history) :
                      /\ j \in 1..Len(P[n].final)
                      /\ P[a].final[j] # None => P[n].final[j] # None}
  <1>1. a \in S
    OBVIOUS
  <1>2. ASSUME NEW n \in a..Len(history), n < Len(history), n \in S PROVE n + 1 \in S
    <2>1. n + 1 \in 1..Len(history) /\ n + 1 - 1 = n /\ n \in 0..Len(history)
          /\ n + 1 \in a..Len(history)
      BY <1>2
    <2>2. P[n + 1] = Further(walk, P[n], n + 1) /\ RegistryOK(P[n])
      BY <2>1, PassOneIs, PassOK
    <2>3. /\ j \in 1..Len(P[n + 1].final)
          /\ P[a].final[j] # None => P[n + 1].final[j] # None
      <3>1. CASE history[n + 1].commit \in walk
        BY <1>2, <2>1, <2>2, <3>1, TouchKeepsNames DEF Further
      <3>2. CASE history[n + 1].commit \notin walk
        BY <1>2, <2>2, <3>2 DEF Further
      <3>3. QED
        BY <3>1, <3>2
    <2>4. QED
      BY <2>1, <2>3
  <1> HIDE DEF S
  <1>3. \A n \in a..Len(history) : n \in S
    <2>1. a \in Nat
      OBVIOUS
    <2>2. QED
      BY <2>1, <1>1, <1>2, AllAlong
  <1>4. QED
    BY <1>3 DEF S

\* Where a walk has ended the registry stays what it is.
LEMMA PassRests ==
    ASSUME NEW walk, Len(history) \in Nat, NEW a \in 0..Len(history),
           \A n \in (a + 1)..Len(history) : history[n].commit \notin walk
    PROVE  PassOne(walk)[Len(history)] = PassOne(walk)[a]
  <1> DEFINE P == PassOne(walk)
             S == {n \in a..Len(history) : P[n] = P[a]}
  <1>1. a \in S
    OBVIOUS
  <1>2. ASSUME NEW n \in a..Len(history), n < Len(history), n \in S PROVE n + 1 \in S
    <2>1. n + 1 \in 1..Len(history) /\ n + 1 - 1 = n /\ n + 1 \in (a + 1)..Len(history)
          /\ n + 1 \in a..Len(history)
      BY <1>2
    <2>2. P[n + 1] = Further(walk, P[n], n + 1)
      BY <2>1, PassOneIs
    <2>3. QED
      BY <1>2, <2>1, <2>2 DEF Further
  <1> HIDE DEF S
  <1>3. \A n \in a..Len(history) : n \in S
    <2>1. a \in Nat
      OBVIOUS
    <2>2. QED
      BY <2>1, <1>1, <1>2, AllAlong
  <1>4. Len(history) \in a..Len(history)
    OBVIOUS
  <1>5. QED
    BY <1>3, <1>4 DEF S

-----------------------------------------------------------------------------
(* What people commit *)

\* Who holds which path before and after a changed path.
Follows(held, ch, then) ==
    \/ /\ ch.status = "A" /\ ch.new \in Paths /\ held[ch.new] = None
       /\ then = [held EXCEPT ![ch.new] = ch.entity]
    \/ ch.status = "M" /\ ch.new \in Paths /\ held[ch.new] = ch.entity /\ then = held
    \/ /\ ch.status = "R" /\ ch.old \in Paths /\ ch.new \in Paths
       /\ held[ch.old] = ch.entity /\ held[ch.new] = None
       /\ then = [held EXCEPT ![ch.old] = None, ![ch.new] = ch.entity]
    \/ /\ ch.status = "C" /\ ch.old \in Paths /\ ch.new \in Paths
       /\ held[ch.old] # None /\ held[ch.new] = None
       /\ then = [held EXCEPT ![ch.new] = ch.entity]
    \/ /\ ch.status = "D" /\ ch.old \in Paths /\ held[ch.old] = ch.entity
       /\ then = [held EXCEPT ![ch.old] = None]

\* The x-th changed path is the last of the first n that left an entity with a name.
LastNaming(h, e, n, x) ==
    /\ x \in 1..n /\ h[x].entity = e /\ h[x].status # "D"
    /\ \A m \in 1..n : h[m].entity = e /\ h[m].status # "D" => m <= x

\* The commits are in order, and an entity comes with an addition or a copy.
Ordered(h) ==
    /\ \A m, n \in 1..Len(h) : m <= n => h[m].commit <= h[n].commit
    /\ \A n \in 1..Len(h) : h[n].entity <= h[n].commit
    /\ \A n \in 1..Len(h) : h[n].status \in {"A", "C"} =>
          \A m \in 1..(n - 1) : h[m].entity # h[n].entity

\* own[n] says who holds which path after n changed paths: each has a name it was given last.
Holds(h, own) ==
    /\ own \in [0..Len(h) -> [Paths -> Entities \cup {None}]]
    /\ own[0] = [p \in Paths |-> None]
    /\ \A n \in 1..Len(h) : Follows(own[n - 1], h[n], own[n])
    /\ \A n \in 0..Len(h) : \A p \in Paths : own[n][p] # None =>
          \E x \in 1..n : LastNaming(h, own[n][p], n, x) /\ h[x].new = p

\* Git shows a copy of a file only next to a change of that file.
Paired(h, own, n) ==
    h[n].status = "C" =>
        \E m \in 1..Len(h) : /\ h[m].status = "M" /\ h[m].commit = h[n].commit
                             /\ h[m].new = h[n].old /\ h[m].entity = own[n - 1][h[n].old]

Legal(h, own) ==
    /\ h \in Seq(Change) /\ Ordered(h) /\ Holds(h, own)
    /\ \A n \in 1..Len(h) : Paired(h, own, n)

LEMMA Typed ==
    ASSUME NEW h, h \in Seq(Change)
    PROVE  /\ Len(h) \in Nat /\ DOMAIN h = 1..Len(h)
           /\ \A n \in 1..Len(h) : /\ h[n].commit \in Entities /\ h[n].commit \in Nat
                                   /\ h[n].entity \in Entities /\ h[n].entity # None
                                   /\ h[n].status \in DOMAIN Operation
  <1>1. Len(h) \in Nat /\ DOMAIN h = 1..Len(h) /\ h \in [1..Len(h) -> Change]
    BY LenProperties
  <1>2. ASSUME NEW n \in 1..Len(h)
        PROVE  /\ h[n].commit \in Entities /\ h[n].entity \in Entities
               /\ h[n].status \in DOMAIN Operation
    <2>1. h[n] \in Change
      BY <1>1
    <2>2. QED
      BY <2>1 DEF Change
  <1>3. ASSUME NEW e \in Entities PROVE e \in Nat /\ e # None
    BY NullsOK DEF Entities
  <1>4. QED
    BY <1>1, <1>2, <1>3

LEMMA LegalShown ==
    ASSUME NEW h, NEW own, h \in Seq(Change), Holds(h, own)
    PROVE  /\ Len(h) \in Nat /\ DOMAIN h = 1..Len(h)
           /\ \A n \in 1..Len(h) : h[n] \in Change /\ Shown(h[n])
  <1>1. Len(h) \in Nat /\ DOMAIN h = 1..Len(h) /\ h \in [1..Len(h) -> Change]
    BY LenProperties
  <1>2. ASSUME NEW n \in 1..Len(h) PROVE h[n] \in Change /\ Shown(h[n])
    <2>1. h[n] \in Change
      BY <1>1
    <2>2. Follows(own[n - 1], h[n], own[n])
      BY DEF Holds
    <2>3. h[n].entity # None
      BY <2>1, NullsOK DEF Change
    <2>4. QED
      BY <2>1, <2>2, <2>3 DEF Shown, Follows
  <1>3. QED
    BY <1>1, <1>2

-----------------------------------------------------------------------------
(* An entity and its identity *)

\* What the registry tells of an entity that is there: where it is.
Alive(held, reg, e, id) == \E p \in Paths : held[p] = e /\ reg.current[p] = id

\* Once it is deleted nothing has its identity any more.
Gone(held, reg, e, id) == \A p \in Paths : held[p] # e /\ reg.current[p] # id

\* One changed path: an entity that is there keeps its identity or is deleted, with its name.
LEMMA AliveStep ==
    ASSUME NEW reg, RegistryOK(reg), NEW ch, Shown(ch),
           NEW held \in [Paths -> Entities \cup {None}], NEW then, Follows(held, ch, then),
           NEW id \in 1..Len(reg.final), NEW e \in Entities, ch.entity # None,
           ch.status \in {"A", "C"} => ch.entity # e,
           ch.status = "C" => held[ch.old] # e,
           \A p, q \in Paths : held[p] = e /\ held[q] = e => p = q,
           Alive(held, reg, e, id)
    PROVE  \/ Alive(then, Touch(reg, ch), e, id)
           \/ /\ ch.status = "D" /\ Gone(then, Touch(reg, ch), e, id)
              /\ Touch(reg, ch).final[id] = reg.final[id]
              /\ reg.final[id] \in Paths /\ held[reg.final[id]] = e
  <1> DEFINE to == Touch(reg, ch)
             id2 == Identity(reg, ch)
  <1>1. Retraced(reg, ch, to, id2) /\ Renamed(reg, ch, to, id2)
    BY Touches
  <1>2. Len(reg.final) \in Nat /\ e # None
    BY LenProperties, NullsOK DEF RegistryOK
  <1> HIDE DEF to, id2
  <1>3. PICK p \in Paths : held[p] = e /\ reg.current[p] = id
    BY DEF Alive
  <1>4. reg.final[id] = p /\ id # 0 /\ id \in Nat
    BY <1>2, <1>3 DEF RegistryOK
  <1>5. CASE ch.status = "A"
    <2>1. p # ch.new /\ then[p] = e
      BY <1>2, <1>3, <1>5 DEF Follows
    <2>2. to.current[p] = id
      BY <1>1, <1>3, <1>5, <2>1 DEF Retraced
    <2>3. QED
      BY <2>1, <2>2 DEF Alive, to
  <1>6. CASE ch.status = "M"
    <2>1. then = held
      BY <1>6 DEF Follows
    <2>2. to.current[p] = id
      <3>1. CASE p = ch.new
        <4>1. Known(reg, ch) = id
          BY <1>3, <1>6, <3>1 DEF Known
        <4>2. id2 = id
          BY <4>1, <1>1, <1>4 DEF Renamed
        <4>3. QED
          BY <4>2, <3>1, <1>1, <1>6 DEF Retraced
      <3>2. CASE p # ch.new
        BY <1>1, <1>3, <1>6, <3>2 DEF Retraced
      <3>3. QED
        BY <3>1, <3>2
    <2>3. QED
      BY <2>1, <2>2, <1>3 DEF Alive, to
  <1>7. CASE ch.status = "R"
    <2>1. p # ch.new /\ ch.new \in Paths
      BY <1>2, <1>3, <1>7 DEF Follows
    <2>2. CASE p = ch.old
      <3>1. Known(reg, ch) = id
        BY <1>3, <1>7, <2>2 DEF Known
      <3>2. id2 = id
        BY <3>1, <1>1, <1>4 DEF Renamed
      <3>3. to.current[ch.new] = id
        BY <3>2, <2>1, <1>1, <1>7 DEF Retraced
      <3>4. then[ch.new] = e
        BY <1>3, <1>7, <2>1, <2>2 DEF Follows
      <3>5. QED
        BY <3>3, <3>4, <2>1 DEF Alive, to
    <2>3. CASE p # ch.old
      <3>1. to.current[p] = id
        BY <1>1, <1>3, <1>7, <2>1, <2>3 DEF Retraced
      <3>2. then[p] = e
        BY <1>3, <1>7, <2>1, <2>3 DEF Follows
      <3>3. QED
        BY <3>1, <3>2 DEF Alive, to
    <2>4. QED
      BY <2>2, <2>3
  <1>8. CASE ch.status = "C"
    <2>1. p # ch.new /\ p # ch.old
      BY <1>2, <1>3, <1>8 DEF Follows
    <2>2. to.current[p] = id
      BY <1>1, <1>3, <1>8, <2>1 DEF Retraced
    <2>3. then[p] = e
      BY <1>3, <1>8, <2>1 DEF Follows
    <2>4. QED
      BY <2>2, <2>3 DEF Alive, to
  <1>9. CASE ch.status = "D"
    <2>1. CASE p = ch.old
      <3>1. Known(reg, ch) = id
        BY <1>3, <1>9, <2>1 DEF Known
      <3>2. id2 = id
        BY <3>1, <1>1, <1>4 DEF Renamed
      <3>3. to.final[id] = reg.final[id]
        BY <3>1, <3>2, <1>1, <1>4, <1>9 DEF Renamed
      <3>4. ASSUME NEW q \in Paths PROVE then[q] # e /\ to.current[q] # id
        <4>1. CASE q = p
          <5>1. then[q] = None
            BY <4>1, <1>9, <2>1 DEF Follows
          <5>2. to.current[q] = 0
            BY <4>1, <1>1, <1>9, <2>1 DEF Retraced
          <5>3. QED
            BY <5>1, <5>2, <1>2, <1>4
        <4>2. CASE q # p
          <5>1. then[q] = held[q]
            BY <4>2, <1>9, <2>1 DEF Follows
          <5>2. to.current[q] = reg.current[q]
            BY <4>2, <1>1, <1>9, <2>1 DEF Retraced
          <5>3. reg.current[q] # id
            BY <4>2, <1>4 DEF RegistryOK
          <5>4. QED
            BY <5>1, <5>2, <5>3, <4>2, <1>3
        <4>3. QED
          BY <4>1, <4>2
      <3>5. QED
        BY <3>3, <3>4, <1>3, <1>4, <1>9 DEF Gone, to
    <2>2. CASE p # ch.old
      <3>1. to.current[p] = id
        BY <1>1, <1>3, <1>9, <2>2 DEF Retraced
      <3>2. then[p] = e
        BY <1>3, <1>9, <2>2 DEF Follows
      <3>3. QED
        BY <3>1, <3>2 DEF Alive, to
    <2>3. QED
      BY <2>1, <2>2
  <1>10. QED
    BY <1>5, <1>6, <1>7, <1>8, <1>9 DEF Shown

\* An entity that is deleted stays so, and its identity keeps its name.
LEMMA GoneStep ==
    ASSUME NEW reg, RegistryOK(reg), NEW ch, Shown(ch),
           NEW held \in [Paths -> Entities \cup {None}], NEW then, Follows(held, ch, then),
           NEW id \in 1..Len(reg.final), NEW e \in Entities, ch.entity # None,
           ch.status \in {"A", "C"} => ch.entity # e,
           Gone(held, reg, e, id)
    PROVE  /\ Gone(then, Touch(reg, ch), e, id) /\ ch.entity # e
           /\ Touch(reg, ch).final[id] = reg.final[id]
  <1> DEFINE to == Touch(reg, ch)
             id2 == Identity(reg, ch)
  <1>1. Retraced(reg, ch, to, id2) /\ Renamed(reg, ch, to, id2)
    BY Touches
  <1>2. Len(reg.final) \in Nat /\ e # None
    BY LenProperties, NullsOK DEF RegistryOK
  <1> HIDE DEF to, id2
  <1>3. id2 # id
    <2>1. CASE Known(reg, ch) = 0
      BY <2>1, <1>1, <1>2 DEF Renamed
    <2>2. CASE Known(reg, ch) # 0
      <3>1. id2 = Known(reg, ch)
        BY <2>2, <1>1 DEF Renamed
      <3>2. QED
        BY <3>1, <2>2, KnownIs DEF Gone, Shown
    <2>3. QED
      BY <2>1, <2>2
  <1>4. to.final[id] = reg.final[id]
    BY <1>1, <1>3 DEF Renamed
  <1>5. ch.entity # e
    BY DEF Follows, Gone
  <1>6. ASSUME NEW p \in Paths PROVE then[p] # e /\ to.current[p] # id
    <2>1. then[p] \in {held[p], None, ch.entity}
      BY DEF Follows
    <2>2. to.current[p] \in {reg.current[p], 0, id2}
      BY <1>1 DEF Retraced
    <2>3. QED
      BY <2>1, <2>2, <1>2, <1>3, <1>5 DEF Gone
  <1>7. QED
    BY <1>4, <1>5, <1>6 DEF Gone, to

LEMMA OnePath ==
    ASSUME NEW h, NEW own, Len(h) \in Nat, Holds(h, own)
    PROVE  \A n \in 0..Len(h) : \A p, q \in Paths :
              own[n][p] # None /\ own[n][p] = own[n][q] => p = q
  <1>1. SUFFICES ASSUME NEW n \in 0..Len(h), NEW p \in Paths, NEW q \in Paths,
                        own[n][p] # None, own[n][p] = own[n][q]
                 PROVE  p = q
    OBVIOUS
  <1>2. PICK x \in 1..n : LastNaming(h, own[n][p], n, x) /\ h[x].new = p
    BY <1>1 DEF Holds
  <1>3. PICK y \in 1..n : LastNaming(h, own[n][q], n, y) /\ h[y].new = q
    BY <1>1 DEF Holds
  <1>4. x <= y /\ y <= x
    BY <1>1, <1>2, <1>3 DEF LastNaming
  <1>5. QED
    BY <1>2, <1>3, <1>4

\* What pass 1 knows after n changed paths of an entity e it has seen, by the identity id.
Knows(own, reg, e, id, n) ==
    /\ id \in 1..Len(reg.final)
    /\ \/ Alive(own[n], reg, e, id)
       \/ /\ Gone(own[n], reg, e, id)
          /\ \E x \in 1..n : LastNaming(history, e, n, x) /\ reg.final[id] \in {history[x].new, None}

\* It knows an entity from the first changed path of it.
LEMMA KnowsFirst ==
    ASSUME NEW own, Len(history) \in Nat, history \in Seq(Change), Holds(history, own),
           Ordered(history), NEW n \in 1..Len(history), NEW reg, RegistryOK(reg)
    PROVE  Knows(own, Touch(reg, history[n]), history[n].entity, Identity(reg, history[n]), n)
  <1> DEFINE ch == history[n]
             e  == ch.entity
             to == Touch(reg, ch)
             id == Identity(reg, ch)
  <1>1. /\ Shown(ch) /\ ch \in Change /\ Follows(own[n - 1], ch, own[n])
        /\ n - 1 \in 0..Len(history) /\ n \in 0..Len(history)
        /\ own[n - 1] \in [Paths -> Entities \cup {None}]
    BY LegalShown DEF Holds
  <1>2. Retraced(reg, ch, to, id) /\ Renamed(reg, ch, to, id)
    BY <1>1, Touches
  <1>3. Len(reg.final) \in Nat /\ e \in Entities /\ e # None
    BY <1>1, LenProperties, NullsOK DEF RegistryOK, Change
  <1>4. id \in 1..Len(to.final)
    BY <1>2 DEF Renamed
  <1> HIDE DEF ch, e, to, id
  <1>5. CASE ch.status # "D"
    <2>1. ch.new \in Paths /\ to.current[ch.new] = id
      BY <1>1, <1>2, <1>5 DEF Shown, Retraced
    <2>2. own[n][ch.new] = e
      BY <1>1, <1>5, <2>1 DEF Follows, e
    <2>3. QED
      BY <1>4, <2>1, <2>2 DEF Knows, Alive, ch, e, to, id
  <1>6. CASE ch.status = "D"
    <2>1. /\ ch.old \in Paths /\ own[n - 1][ch.old] = e
          /\ own[n] = [own[n - 1] EXCEPT ![ch.old] = None]
      BY <1>1, <1>6 DEF Follows, e
    <2>2. PICK x \in 1..(n - 1) : LastNaming(history, e, n - 1, x) /\ history[x].new = ch.old
      BY <1>1, <1>3, <2>1 DEF Holds
    <2>3. x \in 1..n /\ LastNaming(history, e, n, x)
      BY <2>2, <1>6 DEF LastNaming, ch
    <2>4. to.final[id] \in {ch.old, None}
      <3>1. CASE Known(reg, ch) = 0
        BY <3>1, <1>2, <1>6 DEF Renamed
      <3>2. CASE Known(reg, ch) # 0
        BY <3>2, <1>1, <1>2, <1>6, KnownIs DEF Renamed
      <3>3. QED
        BY <3>1, <3>2
    <2>5. ASSUME NEW q \in Paths PROVE own[n][q] # e /\ to.current[q] # id
      <3>1. CASE q = ch.old
        BY <3>1, <2>1, <1>1, <1>2, <1>3, <1>4, <1>6 DEF Retraced
      <3>2. CASE q # ch.old
        <4>1. own[n][q] = own[n - 1][q]
          BY <3>2, <2>1, <1>1
        <4>2. own[n - 1][q] # e
          BY <3>2, <2>1, <1>1, <1>3, OnePath
        <4>3. to.current[q] = reg.current[q]
          BY <3>2, <1>2, <1>6 DEF Retraced
        <4>4. reg.current[q] # id
          <5>1. CASE Known(reg, ch) = 0
            BY <5>1, <1>2, <1>3 DEF Renamed, RegistryOK
          <5>2. CASE Known(reg, ch) # 0
            <6>1. id = Known(reg, ch) /\ reg.final[id] = ch.old /\ id # 0
              BY <5>2, <1>1, <1>2, <1>6, KnownIs DEF Renamed
            <6>2. QED
              BY <6>1, <3>2 DEF RegistryOK
          <5>3. QED
            BY <5>1, <5>2
        <4>5. QED
          BY <4>1, <4>2, <4>3, <4>4
      <3>3. QED
        BY <3>1, <3>2
    <2>6. Gone(own[n], to, e, id)
      BY <2>5 DEF Gone
    <2>7. QED
      BY <1>4, <2>2, <2>3, <2>4, <2>6 DEF Knows, ch, e, to, id
  <1>7. QED
    BY <1>5, <1>6

\* And it goes on knowing it unless the file is copied.
LEMMA KnowsNext ==
    ASSUME NEW own, Len(history) \in Nat, history \in Seq(Change), Holds(history, own),
           Ordered(history), NEW n \in 0..Len(history), n < Len(history),
           NEW reg, RegistryOK(reg), NEW e \in Entities, NEW id,
           \E i \in 1..n : history[i].entity = e,
           history[n + 1].status = "C" => own[n][history[n + 1].old] # e,
           Knows(own, reg, e, id, n)
    PROVE  Knows(own, Touch(reg, history[n + 1]), e, id, n + 1)
  <1> DEFINE ch == history[n + 1]
             to == Touch(reg, ch)
  <1>1. n + 1 \in 1..Len(history) /\ n + 1 - 1 = n
    OBVIOUS
  <1>2. /\ Shown(ch) /\ ch \in Change /\ Follows(own[n], ch, own[n + 1])
        /\ own[n] \in [Paths -> Entities \cup {None}]
    BY <1>1, LegalShown DEF Holds
  <1>3. ch.entity # None /\ e # None
    BY <1>2, NullsOK DEF Change
  <1>4. ch.status \in {"A", "C"} => ch.entity # e
    BY <1>1 DEF Ordered
  <1>5. id \in 1..Len(reg.final)
    BY DEF Knows
  <1>6. ASSUME NEW j \in 1..Len(reg.final) PROVE j \in 1..Len(to.final)
    <2>1. Renamed(reg, ch, to, Identity(reg, ch)) /\ to.final \in Seq(Paths \cup {None})
      BY <1>2, Touches
    <2>2. Len(to.final) \in Nat /\ Len(reg.final) \in Nat
      BY <2>1, LenProperties DEF RegistryOK
    <2>3. QED
      BY <2>1, <2>2 DEF Renamed
  <1>7. id \in 1..Len(to.final)
    BY <1>5, <1>6
  <1>8. ASSUME NEW x \in 1..n, LastNaming(history, e, n, x),
               ch.status = "D" \/ ch.entity # e
        PROVE  x \in 1..(n + 1) /\ LastNaming(history, e, n + 1, x)
    BY <1>8 DEF LastNaming
  <1>9. CASE Alive(own[n], reg, e, id)
    <2>1. \A p, q \in Paths : own[n][p] = e /\ own[n][q] = e => p = q
      BY <1>3, OnePath
    <2>2. ch.status = "C" => own[n][ch.old] # e
      OBVIOUS
    <2>3. \/ Alive(own[n + 1], to, e, id)
          \/ /\ ch.status = "D" /\ Gone(own[n + 1], to, e, id)
             /\ to.final[id] = reg.final[id]
             /\ reg.final[id] \in Paths /\ own[n][reg.final[id]] = e
      <3> HIDE DEF ch
      <3>1. QED
        BY <1>2, <1>3, <1>4, <1>5, <1>9, <2>1, <2>2, AliveStep
    <2> HIDE DEF ch, to
    <2>4. CASE Alive(own[n + 1], to, e, id)
      BY <2>4, <1>7 DEF Knows, ch, to
    <2>5. CASE /\ ch.status = "D" /\ Gone(own[n + 1], to, e, id)
               /\ to.final[id] = reg.final[id]
               /\ reg.final[id] \in Paths /\ own[n][reg.final[id]] = e
      <3>1. PICK x \in 1..n : LastNaming(history, e, n, x) /\ history[x].new = reg.final[id]
        BY <2>5, <1>3 DEF Holds
      <3>2. x \in 1..(n + 1) /\ LastNaming(history, e, n + 1, x)
        BY <3>1, <2>5, <1>8
      <3>3. QED
        BY <3>1, <3>2, <2>5, <1>7 DEF Knows, ch, to
    <2>6. QED
      BY <2>3, <2>4, <2>5
  <1>10. CASE ~Alive(own[n], reg, e, id)
    <2>1. Gone(own[n], reg, e, id)
      BY <1>10 DEF Knows
    <2>2. PICK x \in 1..n : LastNaming(history, e, n, x) /\ reg.final[id] \in {history[x].new, None}
      BY <1>10 DEF Knows
    <2>3. Gone(own[n + 1], to, e, id) /\ ch.entity # e /\ to.final[id] = reg.final[id]
      <3> HIDE DEF ch
      <3>1. QED
        BY <1>2, <1>3, <1>4, <1>5, <2>1, GoneStep
    <2>4. x \in 1..(n + 1) /\ LastNaming(history, e, n + 1, x)
      BY <2>2, <2>3, <1>8
    <2>5. QED
      BY <2>2, <2>3, <2>4, <1>7 DEF Knows
  <1>11. QED
    BY <1>9, <1>10

LEMMA KnowsOn ==
    ASSUME NEW own, Len(history) \in Nat, history \in Seq(Change), Holds(history, own),
           Ordered(history), NEW walk, NEW i \in 1..Len(history), NEW N \in i..Len(history),
           \A n \in i..N : history[n].commit \in walk,
           \A n \in (i + 1)..N : history[n].status = "C" =>
              own[n - 1][history[n].old] # history[i].entity
    PROVE  Knows(own, PassOne(walk)[N], history[i].entity,
                 Identity(PassOne(walk)[i - 1], history[i]), N)
  <1> DEFINE P  == PassOne(walk)
             e  == history[i].entity
             id == Identity(P[i - 1], history[i])
             S  == {n \in i..N : Knows(own, P[n], e, id, n)}
  <1>1. \A n \in 0..Len(history) : RegistryOK(P[n])
    BY LegalShown, PassOK
  <1>2. i \in Nat /\ N \in Nat /\ i - 1 \in 0..Len(history) /\ i \in i..N /\ N \in i..N
    OBVIOUS
  <1>3. e \in Entities
    BY LegalShown DEF Change
  <1>4. i \in S
    <2>1. P[i] = Further(walk, P[i - 1], i)
      BY PassOneIs
    <2>2. P[i] = Touch(P[i - 1], history[i])
      BY <2>1, <1>2 DEF Further
    <2>3. Knows(own, P[i], e, id, i)
      BY <2>2, <1>1, <1>2, KnowsFirst
    <2>4. QED
      BY <2>3, <1>2
  <1>5. ASSUME NEW n \in i..N, n < N, n \in S PROVE n + 1 \in S
    <2>1. /\ n + 1 \in 1..Len(history) /\ n + 1 - 1 = n /\ n \in 0..Len(history)
          /\ n + 1 \in i..N /\ n + 1 \in (i + 1)..N /\ n < Len(history) /\ i \in 1..n
      BY <1>5
    <2>2. P[n + 1] = Further(walk, P[n], n + 1)
      BY <2>1, PassOneIs
    <2>3. P[n + 1] = Touch(P[n], history[n + 1])
      BY <2>1, <2>2 DEF Further
    <2>4. history[n + 1].status = "C" => own[n][history[n + 1].old] # e
      BY <2>1
    <2>5. RegistryOK(P[n]) /\ Knows(own, P[n], e, id, n) /\ \E j \in 1..n : history[j].entity = e
      BY <2>1, <1>1, <1>5
    <2> HIDE DEF P, e, id
    <2>6. Knows(own, P[n + 1], e, id, n + 1)
      BY <2>1, <2>3, <2>4, <2>5, <1>3, KnowsNext
    <2>7. QED
      BY <2>1, <2>6
  <1> HIDE DEF S
  <1>6. \A n \in i..N : n \in S
    BY <1>2, <1>4, <1>5, AllAlong
  <1>7. QED
    BY <1>2, <1>6 DEF S

\* So the name of an entity whose file has not been copied is the one it was given last, if any.
LEMMA NamedLast ==
    ASSUME NEW own, Len(history) \in Nat, history \in Seq(Change), Holds(history, own),
           Ordered(history), NEW walk, NEW i \in 1..Len(history), NEW N \in i..Len(history),
           \A n \in i..N : history[n].commit \in walk,
           \A n \in (N + 1)..Len(history) : history[n].commit \notin walk,
           \A n \in (i + 1)..N : history[n].status = "C" =>
              own[n - 1][history[n].old] # history[i].entity
    PROVE  \E x \in 1..N : /\ LastNaming(history, history[i].entity, N, x)
                           /\ FinalName(PassOne(walk), i) \in {history[x].new, None}
  <1> DEFINE P  == PassOne(walk)
             e  == history[i].entity
             id == Identity(P[i - 1], history[i])
  <1>1. RegistryOK(P[N]) /\ N \in 0..Len(history)
    BY LegalShown, PassOK
  <1>2. e \in Entities /\ e # None
    BY LegalShown, NullsOK DEF Change
  <1>3. Knows(own, P[N], e, id, N)
    BY KnowsOn
  <1>4. FinalName(P, i) = P[N].final[id]
    <2>1. P[Len(history)] = P[N]
      BY <1>1, PassRests
    <2>2. QED
      BY <2>1 DEF FinalName
  <1> HIDE DEF P, e, id
  <1>5. \E x \in 1..N : LastNaming(history, e, N, x) /\ P[N].final[id] \in {history[x].new, None}
    <2>1. CASE Alive(own[N], P[N], e, id)
      <3>1. PICK p \in Paths : own[N][p] = e /\ P[N].current[p] = id
        BY <2>1 DEF Alive
      <3>2. P[N].final[id] = p
        BY <3>1, <1>1, <1>3, LenProperties DEF RegistryOK, Knows
      <3>3. PICK x \in 1..N : LastNaming(history, e, N, x) /\ history[x].new = p
        BY <3>1, <1>1, <1>2 DEF Holds
      <3>4. QED
        BY <3>2, <3>3
    <2>2. CASE ~Alive(own[N], P[N], e, id)
      BY <2>2, <1>3 DEF Knows
    <2>3. QED
      BY <2>1, <2>2
  <1>6. QED
    BY <1>4, <1>5 DEF P, e

-----------------------------------------------------------------------------
(* The deletions without a name *)

\* An entity that is deleted has no changed paths any more.
LEMMA NeverAgain ==
    ASSUME NEW h, NEW own, h \in Seq(Change), Len(h) \in Nat, Holds(h, own), Ordered(h),
           NEW e \in Entities, NEW a \in 0..Len(h), \E m \in 1..a : h[m].entity = e,
           \A p \in Paths : own[a][p] # e
    PROVE  \A n \in (a + 1)..Len(h) : h[n].entity # e
  <1> DEFINE S == {n \in a..Len(h) : /\ \A p \in Paths : own[n][p] # e
                                     /\ n > a => h[n].entity # e}
  <1>1. a \in Nat /\ a \in S
    OBVIOUS
  <1>2. ASSUME NEW n \in a..Len(h), n < Len(h), n \in S PROVE n + 1 \in S
    <2>1. /\ n + 1 \in 1..Len(h) /\ n + 1 - 1 = n /\ n \in 0..Len(h) /\ n + 1 \in a..Len(h)
      BY <1>2
    <2>2. /\ Follows(own[n], h[n + 1], own[n + 1]) /\ Shown(h[n + 1])
          /\ own[n] \in [Paths -> Entities \cup {None}]
      BY <2>1, LegalShown DEF Holds
    <2>3. h[n + 1].status \in {"A", "C"} => h[n + 1].entity # e
      BY <2>1 DEF Ordered
    <2>4. \A p \in Paths : own[n][p] # e
      BY <1>2
    <2>5. h[n + 1].entity # e
      BY <2>2, <2>3, <2>4 DEF Follows
    <2>6. ASSUME NEW p \in Paths PROVE own[n + 1][p] # e
      <3>1. own[n + 1][p] \in {own[n][p], None, h[n + 1].entity}
        BY <2>2 DEF Follows
      <3>2. QED
        BY <3>1, <2>4, <2>5, NullsOK
    <2>7. QED
      BY <2>1, <2>5, <2>6
  <1> HIDE DEF S
  <1>3. \A n \in a..Len(h) : n \in S
    BY <1>1, <1>2, AllAlong
  <1>4. ASSUME NEW n \in (a + 1)..Len(h) PROVE h[n].entity # e
    BY <1>3, <1>4 DEF S
  <1>5. QED
    BY <1>4

\* Pass 1 has an identity for the path of an entity.
Sighted(held, reg, e) == \A p \in Paths : held[p] = e => reg.current[p] # 0

LEMMA SightedStep ==
    ASSUME NEW reg, RegistryOK(reg), NEW ch, Shown(ch),
           NEW held \in [Paths -> Entities \cup {None}], NEW then, Follows(held, ch, then),
           NEW e \in Entities, ch.status \in {"A", "C"} => ch.entity # e,
           ch.status = "C" => held[ch.old] # e,
           Sighted(held, reg, e)
    PROVE  Sighted(then, Touch(reg, ch), e)
  <1> DEFINE to == Touch(reg, ch)
             id == Identity(reg, ch)
  <1>1. Retraced(reg, ch, to, id) /\ Renamed(reg, ch, to, id)
    BY Touches
  <1>2. id # 0 /\ e # None
    BY <1>1, NullsOK DEF Renamed
  <1> HIDE DEF to, id
  <1>3. ASSUME NEW p \in Paths, then[p] = e PROVE to.current[p] # 0
    <2>1. CASE ch.status # "D" /\ p = ch.new
      BY <2>1, <1>1, <1>2 DEF Retraced
    <2>2. CASE ~(ch.status # "D" /\ p = ch.new)
      <3>1. held[p] = e /\ (ch.status \in {"R", "C", "D"} => p # ch.old)
        BY <2>2, <1>2, <1>3 DEF Follows
      <3>2. to.current[p] = reg.current[p]
        BY <2>2, <3>1, <1>1 DEF Retraced
      <3>3. QED
        BY <3>1, <3>2 DEF Sighted
    <2>3. QED
      BY <2>1, <2>2
  <1>4. QED
    BY <1>3 DEF Sighted, to

\* It has one from a change on that left the entity with a name, unless the file is copied.
LEMMA SightedOn ==
    ASSUME NEW own, Len(history) \in Nat, history \in Seq(Change), Holds(history, own),
           Ordered(history), NEW walk, NEW x \in 1..Len(history), NEW N \in x..Len(history),
           history[x].status # "D",
           \A n \in x..N : history[n].commit \in walk,
           \A n \in (x + 1)..N : history[n].status = "C" =>
              own[n - 1][history[n].old] # history[x].entity
    PROVE  Sighted(own[N], PassOne(walk)[N], history[x].entity)
  <1> DEFINE P == PassOne(walk)
             e == history[x].entity
             S == {n \in x..N : Sighted(own[n], P[n], e)}
  <1>1. \A n \in 0..Len(history) : RegistryOK(P[n])
    BY LegalShown, PassOK
  <1>2. x \in Nat /\ N \in Nat /\ x - 1 \in 0..Len(history) /\ x \in x..N /\ N \in x..N
        /\ x \in 0..Len(history)
    OBVIOUS
  <1>3. e \in Entities /\ e # None
    BY LegalShown, NullsOK DEF Change
  <1>4. x \in S
    <2>1. P[x] = Further(walk, P[x - 1], x)
      BY PassOneIs
    <2>2. P[x] = Touch(P[x - 1], history[x])
      BY <2>1, <1>2 DEF Further
    <2>3. /\ Shown(history[x]) /\ Follows(own[x - 1], history[x], own[x])
          /\ own[x - 1] \in [Paths -> Entities \cup {None}]
      BY <1>2, LegalShown DEF Holds
    <2>4. history[x].new \in Paths /\ own[x][history[x].new] = e
      BY <2>3 DEF Shown, Follows
    <2>5. P[x].current[history[x].new] # 0
      <3>1. /\ Retraced(P[x - 1], history[x], P[x], Identity(P[x - 1], history[x]))
            /\ Renamed(P[x - 1], history[x], P[x], Identity(P[x - 1], history[x]))
        BY <2>2, <2>3, <1>1, <1>2, Touches
      <3>2. Identity(P[x - 1], history[x]) # 0
        BY <3>1 DEF Renamed
      <3>3. QED
        BY <3>1, <3>2, <2>4 DEF Retraced
    <2>6. ASSUME NEW p \in Paths, own[x][p] = e PROVE p = history[x].new
      BY <2>4, <2>6, <1>2, <1>3, OnePath
    <2>7. QED
      BY <2>5, <2>6, <1>2 DEF Sighted
  <1>5. ASSUME NEW n \in x..N, n < N, n \in S PROVE n + 1 \in S
    <2>1. /\ n + 1 \in 1..Len(history) /\ n + 1 - 1 = n /\ n \in 0..Len(history)
          /\ n + 1 \in x..N /\ n + 1 \in (x + 1)..N /\ x \in 1..(n + 1 - 1)
      BY <1>5
    <2>2. P[n + 1] = Further(walk, P[n], n + 1)
      BY <2>1, PassOneIs
    <2>3. P[n + 1] = Touch(P[n], history[n + 1])
      BY <2>1, <2>2 DEF Further
    <2>4. history[n + 1].status = "C" => own[n][history[n + 1].old] # e
      BY <2>1
    <2>5. /\ Follows(own[n], history[n + 1], own[n + 1]) /\ Shown(history[n + 1])
          /\ own[n] \in [Paths -> Entities \cup {None}]
      <3>1. Shown(history[n + 1])
        BY <2>1, LegalShown
      <3>2. Follows(own[n + 1 - 1], history[n + 1], own[n + 1])
        BY <2>1 DEF Holds
      <3>3. own[n] \in [Paths -> Entities \cup {None}]
        BY <2>1 DEF Holds
      <3>4. QED
        BY <2>1, <3>1, <3>2, <3>3
    <2>6. history[n + 1].status \in {"A", "C"} => history[n + 1].entity # e
      BY <2>1 DEF Ordered
    <2>7. RegistryOK(P[n]) /\ Sighted(own[n], P[n], e)
      BY <2>1, <1>1, <1>5
    <2> HIDE DEF P, e
    <2>8. Sighted(own[n + 1], P[n + 1], e)
      BY <2>3, <2>4, <2>5, <2>6, <2>7, <1>3, SightedStep
    <2>9. QED
      BY <2>1, <2>8
  <1> HIDE DEF S
  <1>6. \A n \in x..N : n \in S
    BY <1>2, <1>4, <1>5, AllAlong
  <1>7. QED
    BY <1>2, <1>6 DEF S

\* Of the commits from the x-th changed path to the i-th the walk has missed one, or one has
\* copied the file.
Unseen(own, walk, i, x) ==
    \/ \E n \in x..i : history[n].commit \notin walk
    \/ \E n \in (x + 1)..(i - 1) : /\ history[n].status = "C"
                                   /\ own[n - 1][history[n].old] = history[i].entity

\* A changed path that comes out without a name is a deletion of what pass 1 had not seen: a
\* commit the walk missed has named it, or its file was copied in between.
LEMMA Nameless ==
    ASSUME NEW own, Len(history) \in Nat, history \in Seq(Change), Holds(history, own),
           Ordered(history), NEW walk, NEW i \in 1..Len(history), NEW N \in i..Len(history),
           history[i].commit \in walk, FinalName(PassOne(walk), i) = None
    PROVE  /\ history[i].status = "D"
           /\ \E x \in 1..(i - 1) : /\ LastNaming(history, history[i].entity, N, x)
                                    /\ Unseen(own, walk, i, x)
  <1> DEFINE P  == PassOne(walk)
             e  == history[i].entity
             ch == history[i]
             id == Identity(P[i - 1], history[i])
  <1>1. /\ RegistryOK(P[i - 1]) /\ RegistryOK(P[i]) /\ i \in 0..Len(history) /\ i \in Nat
        /\ i - 1 \in 0..Len(history) /\ Len(history) \in i..Len(history)
    BY LegalShown, PassOK
  <1>2. e \in Entities /\ e # None
    BY Typed
  <1>3. P[i] = Touch(P[i - 1], ch)
    BY PassOneIs DEF Further
  <1>4. /\ Shown(ch) /\ Follows(own[i - 1], ch, own[i])
        /\ own[i - 1] \in [Paths -> Entities \cup {None}]
    <2>1. Shown(ch)
      BY LegalShown
    <2>2. QED
      BY <2>1, <1>1 DEF Holds
  <1>5. Renamed(P[i - 1], ch, P[i], id)
    BY <1>1, <1>3, <1>4, Touches
  <1>6. P[i].final[id] = None
    <2>1. SUFFICES ASSUME P[i].final[id] # None PROVE FALSE
      OBVIOUS
    <2>2. id \in 1..Len(P[i].final)
      BY <1>5 DEF Renamed
    <2>3. \A n \in 1..Len(history) : Shown(history[n])
      BY LegalShown
    <2>4. P[Len(history)].final[id] # None
      <3> HIDE DEF id
      <3>1. QED
        BY <2>1, <2>2, <2>3, <1>1, PassKeepsNames
    <2>5. QED
      BY <2>4 DEF FinalName
  <1> HIDE DEF P, e, ch, id
  <1>7. ch.status = "D" /\ Known(P[i - 1], ch) = 0
    <2>1. ch.status = "D"
      BY <1>4, <1>5, <1>6, NullsOK DEF Renamed, Shown
    <2>2. ch.old \in Paths /\ ch.old # None
      BY <2>1, <1>4, NullsOK DEF Shown
    <2>3. Known(P[i - 1], ch) # 0 => P[i - 1].final[Known(P[i - 1], ch)] = ch.old
      BY <2>1, <1>1, <1>4, KnownIs
    <2>4. QED
      BY <2>1, <2>2, <2>3, <1>5, <1>6 DEF Renamed
  <1>8. /\ ch.old \in Paths /\ own[i - 1][ch.old] = e
        /\ own[i] = [own[i - 1] EXCEPT ![ch.old] = None]
        /\ P[i - 1].current[ch.old] = 0
    <2>1. ch.old \in Paths /\ own[i - 1][ch.old] = e /\ own[i] = [own[i - 1] EXCEPT ![ch.old] = None]
      BY <1>4, <1>7 DEF Follows, e, ch
    <2>2. QED
      BY <2>1, <1>1, <1>4, <1>7, KnownIs
  <1>9. PICK x \in 1..(i - 1) : LastNaming(history, e, i - 1, x) /\ history[x].new = ch.old
    BY <1>1, <1>2, <1>8 DEF Holds
  <1>10. \A n \in (i + 1)..Len(history) : history[n].entity # e
    <2>1. ASSUME NEW p \in Paths PROVE own[i][p] # e
      <3>1. p # ch.old => own[i - 1][p] # e
        BY <1>1, <1>2, <1>8, OnePath
      <3>2. QED
        BY <3>1, <1>2, <1>4, <1>8
    <2>2. \E m \in 1..i : history[m].entity = e
      BY DEF e
    <2>3. QED
      BY <2>1, <2>2, <1>1, <1>2, NeverAgain
  <1>11. LastNaming(history, e, N, x)
    <2>1. ASSUME NEW m \in 1..N, history[m].entity = e, history[m].status # "D" PROVE m <= x
      <3>1. m \in 1..(i - 1)
        BY <2>1, <1>7, <1>10 DEF ch
      <3>2. QED
        BY <2>1, <3>1, <1>9 DEF LastNaming
    <2>2. QED
      BY <2>1, <1>9 DEF LastNaming
  <1>12. ASSUME \A n \in x..i : history[n].commit \in walk
         PROVE  \E n \in (x + 1)..(i - 1) : history[n].status = "C" /\ own[n - 1][history[n].old] = e
    <2>1. SUFFICES ASSUME \A n \in (x + 1)..(i - 1) :
                             history[n].status = "C" => own[n - 1][history[n].old] # e
                   PROVE  FALSE
      OBVIOUS
    <2>2. history[x].entity = e /\ history[x].status # "D"
      BY <1>9 DEF LastNaming
    <2>3. /\ x \in 1..Len(history) /\ i - 1 \in x..Len(history)
          /\ \A n \in x..(i - 1) : history[n].commit \in walk
      BY <1>12
    <2>4. \A n \in (x + 1)..(i - 1) : history[n].status = "C" =>
             own[n - 1][history[n].old] # history[x].entity
      BY <2>1, <2>2
    <2>5. Sighted(own[i - 1], PassOne(walk)[i - 1], history[x].entity)
      BY <2>2, <2>3, <2>4, SightedOn
    <2>6. QED
      BY <2>2, <2>5, <1>8 DEF Sighted, P
  <1>13. Unseen(own, walk, i, x)
    BY <1>12 DEF Unseen, e
  <1>14. QED
    BY <1>7, <1>11, <1>13 DEF e, ch

-----------------------------------------------------------------------------
(* The rows of a run *)

\* The last change of an entity up to a commit that left it with a name.
LastCalled(h, e, head, x) ==
    /\ x \in 1..Len(h) /\ h[x].entity = e /\ h[x].status # "D" /\ h[x].commit <= head
    /\ \A m \in 1..Len(h) :
          h[m].entity = e /\ h[m].status # "D" /\ h[m].commit <= head => m <= x

\* What a row of commit k says of an entity, if its run had skipped nothing since from.
ChangeOK(c, k, head, from) ==
    /\ c.entity \notin Copied(k, head) /\ c.target # None =>
          \E x \in 1..Len(history) :
             LastCalled(history, c.entity, head, x) /\ c.target = history[x].new
    /\ c.target = None =>
          /\ c.op = "delete"
          /\ \E x \in 1..Len(history) :
                /\ LastCalled(history, c.entity, head, x)
                /\ history[x].commit < from \/ c.entity \in Copied(from, head)

LEMMA CopiedIf ==
    ASSUME NEW own, Len(history) \in Nat, DOMAIN history = 1..Len(history),
           NEW n \in 1..Len(history), Paired(history, own, n), history[n].status = "C",
           NEW a, NEW b, history[n].commit \in a..b
    PROVE  own[n - 1][history[n].old] \in Copied(a, b)
  BY DEF Paired, Copied

LEMMA WalkEndsAt ==
    ASSUME history \in Seq(Change), Ordered(history), NEW head \in Nat,
           NEW i \in 1..Len(history), history[i].commit <= head
    PROVE  \E N \in i..Len(history) :
              /\ \A n \in 1..N : history[n].commit <= head
              /\ \A n \in (N + 1)..Len(history) : history[n].commit > head
  <1>1. Len(history) \in Nat /\ \A n \in 1..Len(history) : history[n].commit \in Nat
    BY Typed
  <1> DEFINE T == {n \in 0..Len(history) :
                      \A m \in (n + 1)..Len(history) : history[m].commit > head}
  <1>2. Len(history) \in T /\ T \subseteq Nat
    BY <1>1
  <1>3. PICK N \in T : \A y \in T : N <= y
    <2> HIDE DEF T
    <2>1. QED
      BY <1>2, Least
  <1>4. N \in i..Len(history)
    BY <1>1, <1>3
  <1>5. history[N].commit <= head
    <2>1. SUFFICES ASSUME history[N].commit > head PROVE FALSE
      BY <1>1, <1>4
    <2>2. N - 1 \in 0..Len(history) /\ \A m \in (N - 1 + 1)..Len(history) : m = N \/ m \in (N + 1)..Len(history)
      BY <1>1, <1>4
    <2>3. N - 1 \in T
      BY <2>1, <2>2, <1>3
    <2>4. QED
      BY <2>3, <1>3, <1>4
  <1>6. ASSUME NEW n \in 1..N PROVE history[n].commit <= head
    <2>1. history[n].commit <= history[N].commit
      BY <1>1, <1>4 DEF Ordered
    <2>2. QED
      BY <2>1, <1>1, <1>4, <1>5
  <1>7. QED
    BY <1>3, <1>4, <1>6

\* A run names what it has to say of a commit, with no commit missed since, by the last names.
LEMMA DecomposedOK ==
    ASSUME NEW own, Legal(history, own), NEW head \in Nat, NEW from \in Nat, NEW walk,
           walk \subseteq 1..head, from..head \subseteq walk,
           NEW i \in 1..Len(history), history[i].commit \in from..head
    PROVE  ChangeOK(Decompose(PassOne(walk), i), history[i].commit, head, from)
  <1> DEFINE e == history[i].entity
             k == history[i].commit
             c == Decompose(PassOne(walk), i)
  <1>1. /\ history \in Seq(Change) /\ Ordered(history) /\ Holds(history, own)
        /\ \A n \in 1..Len(history) : Paired(history, own, n)
    BY DEF Legal
  <1>2. /\ Len(history) \in Nat /\ DOMAIN history = 1..Len(history)
        /\ \A n \in 1..Len(history) : history[n].commit \in Nat
    BY <1>1, Typed
  <1>3. PICK N \in i..Len(history) : /\ \A n \in 1..N : history[n].commit <= head
                                     /\ \A n \in (N + 1)..Len(history) : history[n].commit > head
    BY <1>1, WalkEndsAt
  <1>4. N \in Nat /\ i \in Nat /\ N <= Len(history)
    BY <1>2
  <1>5. ASSUME NEW n \in 1..N, history[n].commit >= from PROVE history[n].commit \in walk
    BY <1>2, <1>3, <1>4, <1>5
  <1>6. ASSUME NEW n \in i..N PROVE history[n].commit \in walk /\ history[n].commit \in k..head
    <2>1. k <= history[n].commit /\ n \in 1..N
      BY <1>1, <1>4 DEF Ordered
    <2>2. QED
      BY <2>1, <1>2, <1>3, <1>5
  <1>7. \A n \in (N + 1)..Len(history) : history[n].commit \notin walk
    BY <1>2, <1>3, <1>4
  <1>8. ASSUME NEW x \in 1..N, LastNaming(history, e, N, x)
        PROVE  x \in 1..Len(history) /\ LastCalled(history, e, head, x)
    <2>1. x \in 1..Len(history) /\ history[x].commit <= head
      BY <1>3, <1>4
    <2>2. ASSUME NEW m \in 1..Len(history), history[m].commit <= head PROVE m \in 1..N
      <3>1. m \notin (N + 1)..Len(history)
        BY <2>2, <1>2, <1>3
      <3>2. QED
        BY <3>1, <1>2, <1>4
    <2>3. QED
      BY <2>1, <2>2, <1>8 DEF LastNaming, LastCalled
  <1>9. /\ c.entity = e /\ c.op = Operation[history[i].status]
        /\ c.target = FinalName(PassOne(walk), i)
    BY DEF Decompose
  <1> HIDE DEF e, k, c
  <1>10. ASSUME e \notin Copied(k, head), c.target # None
         PROVE  \E x \in 1..Len(history) :
                   LastCalled(history, e, head, x) /\ c.target = history[x].new
    <2>1. ASSUME NEW n \in (i + 1)..N, history[n].status = "C"
          PROVE  own[n - 1][history[n].old] # history[i].entity
      <3>1. n \in 1..Len(history) /\ n \in i..N
        BY <1>4
      <3>2. own[n - 1][history[n].old] \in Copied(k, head)
        BY <2>1, <3>1, <1>1, <1>2, <1>6, CopiedIf
      <3>3. QED
        BY <3>2, <1>10 DEF e
    <2>2. \E x \in 1..N : /\ LastNaming(history, history[i].entity, N, x)
                          /\ FinalName(PassOne(walk), i) \in {history[x].new, None}
      BY <2>1, <1>1, <1>2, <1>6, <1>7, NamedLast
    <2>3. PICK x \in 1..N : LastNaming(history, e, N, x) /\ c.target \in {history[x].new, None}
      BY <2>2, <1>9 DEF e
    <2>4. QED
      BY <2>3, <1>8, <1>10
  <1>11. ASSUME c.target = None
         PROVE  /\ c.op = "delete"
                /\ \E x \in 1..Len(history) :
                      /\ LastCalled(history, e, head, x)
                      /\ history[x].commit < from \/ e \in Copied(from, head)
    <2>1. history[i].commit \in walk
      BY <1>4, <1>6
    <2>2. /\ history[i].status = "D"
          /\ \E x \in 1..(i - 1) : LastNaming(history, e, N, x) /\ Unseen(own, walk, i, x)
      <3>1. FinalName(PassOne(walk), i) = None
        BY <1>9, <1>11
      <3>2. /\ history[i].status = "D"
            /\ \E x \in 1..(i - 1) : /\ LastNaming(history, history[i].entity, N, x)
                                     /\ Unseen(own, walk, i, x)
        BY <2>1, <3>1, <1>1, <1>2, Nameless
      <3>3. QED
        BY <3>2 DEF e
    <2>3. PICK x \in 1..(i - 1) : LastNaming(history, e, N, x) /\ Unseen(own, walk, i, x)
      BY <2>2
    <2>4. x \in 1..N /\ x \in 1..Len(history) /\ LastCalled(history, e, head, x)
      BY <2>3, <1>4, <1>8
    <2>5. ASSUME ~(history[x].commit < from) PROVE e \in Copied(from, head)
      <3>1. ASSUME NEW n \in x..i
            PROVE  n \in 1..N /\ n \in 1..Len(history) /\ history[n].commit >= from
        <4>1. n \in 1..N /\ n \in 1..Len(history) /\ x \in 1..Len(history) /\ x <= n
          BY <1>4
        <4>2. history[x].commit <= history[n].commit
          BY <4>1, <1>1 DEF Ordered
        <4>3. QED
          BY <4>1, <4>2, <2>5, <1>2
      <3>2. \A n \in x..i : history[n].commit \in walk
        BY <3>1, <1>5
      <3>3. PICK n \in (x + 1)..(i - 1) : history[n].status = "C" /\ own[n - 1][history[n].old] = e
        BY <3>2, <2>3 DEF Unseen, e
      <3>4. n \in x..i
        BY <1>4
      <3>5. history[n].commit \in from..head /\ n \in 1..Len(history)
        BY <3>1, <3>4, <1>2, <1>3
      <3>6. QED
        BY <3>3, <3>5, <1>1, <1>2, CopiedIf
    <2>6. QED
      BY <2>2, <2>4, <2>5, <1>9 DEF Operation
  <1>12. QED
    BY <1>9, <1>10, <1>11 DEF ChangeOK, c, k

-----------------------------------------------------------------------------
(* A commit keeps the history legal *)

OneMore(h, ch, g) ==
    /\ g \in Seq(Change) /\ Len(g) = Len(h) + 1 /\ ch \in Change
    /\ \A n \in 1..Len(h) : g[n] = h[n]
    /\ g[Len(h) + 1] = ch

\* What a commit adds comes after what there is, and is new where it should be.
Newer(h, ch) ==
    /\ \A n \in 1..Len(h) : h[n].commit <= ch.commit
    /\ ch.entity <= ch.commit
    /\ ch.status \in {"A", "C"} => \A n \in 1..Len(h) : h[n].entity # ch.entity

LEMMA OrderedExtends ==
    ASSUME NEW h, h \in Seq(Change), Ordered(h), NEW ch, NEW g, OneMore(h, ch, g), Newer(h, ch)
    PROVE  Ordered(g)
  <1>1. /\ Len(h) \in Nat /\ ch.commit \in Nat
        /\ \A n \in 1..Len(h) : h[n].commit \in Nat
        /\ \A n \in 1..Len(g) : (n \in 1..Len(h) /\ g[n] = h[n]) \/ (n = Len(h) + 1 /\ g[n] = ch)
    <2>1. Len(h) \in Nat /\ \A n \in 1..Len(h) : h[n].commit \in Nat
      BY Typed
    <2>2. ch \in Change
      BY DEF OneMore
    <2>3. ch.commit \in Nat
      BY <2>2 DEF Change, Entities
    <2>4. ASSUME NEW n \in 1..Len(g)
          PROVE  (n \in 1..Len(h) /\ g[n] = h[n]) \/ (n = Len(h) + 1 /\ g[n] = ch)
      <3>1. n \in 1..Len(h) \/ n = Len(h) + 1
        BY <2>1 DEF OneMore
      <3>2. QED
        BY <3>1 DEF OneMore
    <2>5. QED
      BY <2>1, <2>3, <2>4
  <1>2. ASSUME NEW m \in 1..Len(g), NEW n \in 1..Len(g), m <= n PROVE g[m].commit <= g[n].commit
    <2>1. CASE n \in 1..Len(h)
      BY <1>1, <1>2, <2>1 DEF Ordered, OneMore
    <2>2. CASE n = Len(h) + 1
      BY <1>1, <1>2, <2>2 DEF Newer, OneMore
    <2>3. QED
      BY <1>1, <2>1, <2>2
  <1>3. ASSUME NEW n \in 1..Len(g) PROVE g[n].entity <= g[n].commit
    BY <1>1 DEF Ordered, Newer
  <1>4. ASSUME NEW n \in 1..Len(g), g[n].status \in {"A", "C"}, NEW m \in 1..(n - 1)
        PROVE  g[m].entity # g[n].entity
    <2>1. CASE n \in 1..Len(h)
      BY <1>1, <1>4, <2>1 DEF Ordered, OneMore
    <2>2. CASE n = Len(h) + 1
      BY <1>1, <1>4, <2>2 DEF Newer, OneMore
    <2>3. QED
      BY <1>1, <2>1, <2>2
  <1>5. QED
    BY <1>2, <1>3, <1>4 DEF Ordered

LEMMA HoldsExtends ==
    ASSUME NEW h, h \in Seq(Change), NEW own, Holds(h, own), NEW ch, NEW g, OneMore(h, ch, g),
           Newer(h, ch), NEW then \in [Paths -> Entities \cup {None}],
           Follows(own[Len(h)], ch, then)
    PROVE  \E more : /\ Holds(g, more) /\ more[Len(g)] = then
                     /\ \A n \in 0..Len(h) : more[n] = own[n]
  <1>1. /\ Len(h) \in Nat /\ Len(g) = Len(h) + 1
        /\ \A n \in 1..Len(h) : g[n] = h[n] /\ h[n].entity # None
        /\ g[Len(g)] = ch /\ ch.entity # None
    <2>1. ch \in Change
      BY DEF OneMore
    <2>2. ch.entity # None
      BY <2>1, NullsOK DEF Change
    <2>3. QED
      BY <2>2, Typed DEF OneMore
  <1>2. PICK more : more = [n \in 0..Len(g) |-> IF n = Len(g) THEN then ELSE own[n]]
    OBVIOUS
  <1>3. /\ \A n \in 0..Len(h) : more[n] = own[n]
        /\ more[Len(g)] = then
    BY <1>1, <1>2
  <1>4. more \in [0..Len(g) -> [Paths -> Entities \cup {None}]]
    BY <1>1, <1>2 DEF Holds
  <1>5. more[0] = [p \in Paths |-> None]
    BY <1>1, <1>3 DEF Holds
  <1>6. ASSUME NEW n \in 1..Len(g) PROVE Follows(more[n - 1], g[n], more[n])
    <2>1. CASE n \in 1..Len(h)
      <3>1. n - 1 \in 0..Len(h) /\ n \in 0..Len(h)
        BY <1>1, <2>1
      <3>2. Follows(own[n - 1], h[n], own[n])
        BY <2>1 DEF Holds
      <3>3. QED
        BY <2>1, <3>1, <3>2, <1>1, <1>3
    <2>2. CASE n = Len(g)
      <3>1. n - 1 = Len(h) /\ n - 1 \in 0..Len(h)
        BY <1>1, <2>2
      <3>2. QED
        BY <2>2, <3>1, <1>1, <1>3
    <2>3. QED
      BY <1>1, <2>1, <2>2
  <1>7. ASSUME NEW n \in 0..Len(g), NEW p \in Paths, more[n][p] # None
        PROVE  \E x \in 1..n : LastNaming(g, more[n][p], n, x) /\ g[x].new = p
    <2>1. CASE n \in 0..Len(h)
      <3>1. own[n][p] # None
        BY <1>3, <1>7, <2>1
      <3>2. PICK x \in 1..n : LastNaming(h, own[n][p], n, x) /\ h[x].new = p
        BY <2>1, <3>1 DEF Holds
      <3>3. \A m \in 1..n : m \in 1..Len(h) /\ g[m] = h[m]
        BY <1>1, <2>1
      <3>4. LastNaming(g, own[n][p], n, x) /\ g[x].new = p
        BY <3>2, <3>3 DEF LastNaming
      <3>5. QED
        BY <3>4, <1>3, <2>1
    <2>2. CASE n = Len(g)
      <3>1. more[n] = then /\ n \in Nat /\ Len(h) \in 0..Len(h)
        BY <1>1, <1>3, <2>2
      <3>2. CASE ch.status # "D" /\ p = ch.new
        <4>1. then[p] = ch.entity
          BY <3>2, <1>7, <3>1 DEF Follows, Holds
        <4>2. LastNaming(g, ch.entity, n, n) /\ n \in 1..n
          BY <1>1, <2>2, <3>2 DEF LastNaming
        <4>3. QED
          BY <4>1, <4>2, <1>1, <2>2, <3>1, <3>2
      <3>3. CASE ~(ch.status # "D" /\ p = ch.new)
        <4>1. /\ own[Len(h)][p] = then[p] /\ (ch.status \in {"R", "D"} => p # ch.old)
              /\ ch.status \in {"M", "R"} => own[Len(h)][IF ch.status = "M" THEN ch.new ELSE ch.old] = ch.entity
          <5>1. own[Len(h)] \in [Paths -> Entities \cup {None}] /\ then[p] # None
            BY <1>7, <3>1 DEF Holds
          <5>2. QED
            BY <3>3, <5>1 DEF Follows
        <4>2. PICK x \in 1..Len(h) : LastNaming(h, then[p], Len(h), x) /\ h[x].new = p
          BY <4>1, <3>1, <1>7 DEF Holds
        <4>3. ch.status = "D" \/ ch.entity # then[p]
          <5>1. CASE ch.status \in {"A", "C"}
            BY <5>1, <4>2 DEF LastNaming, Newer
          <5>2. CASE ch.status = "M"
            <6>1. ch.new \in Paths /\ own[Len(h)][ch.new] = ch.entity /\ p # ch.new
              BY <5>2, <3>3 DEF Follows
            <6>2. QED
              BY <6>1, <4>1, <3>1, <1>1, <1>7, OnePath
          <5>3. CASE ch.status = "R"
            <6>1. ch.old \in Paths /\ own[Len(h)][ch.old] = ch.entity /\ p # ch.old
              BY <5>3, <4>1 DEF Follows
            <6>2. QED
              BY <6>1, <4>1, <3>1, <1>1, <1>7, OnePath
          <5>4. QED
            BY <5>1, <5>2, <5>3 DEF Follows
        <4>4. x \in 1..n /\ LastNaming(g, then[p], n, x) /\ g[x].new = p
          BY <4>2, <4>3, <1>1, <2>2 DEF LastNaming
        <4>5. QED
          BY <4>4, <3>1
      <3>4. QED
        BY <3>2, <3>3
    <2>3. QED
      BY <1>1, <2>1, <2>2
  <1>8. Holds(g, more)
    BY <1>4, <1>5, <1>6, <1>7 DEF Holds
  <1>9. QED
    BY <1>3, <1>8

\* A copy that is shown next to a change of its file stays so.
LEMMA PairedExtends ==
    ASSUME NEW h, h \in Seq(Change), NEW own, NEW ch, NEW g, OneMore(h, ch, g), NEW more,
           \A n \in 0..Len(h) : more[n] = own[n],
           NEW n \in 1..Len(h), Paired(h, own, n)
    PROVE  Paired(g, more, n)
  <1>1. Len(h) \in Nat /\ Len(g) = Len(h) + 1 /\ g[n] = h[n] /\ more[n - 1] = own[n - 1]
    <2>1. Len(h) \in Nat
      BY Typed
    <2>2. n - 1 \in 0..Len(h)
      BY <2>1
    <2>3. QED
      BY <2>1, <2>2 DEF OneMore
  <1>2. CASE g[n].status = "C"
    <2>1. PICK m \in 1..Len(h) : /\ h[m].status = "M" /\ h[m].commit = h[n].commit
                                 /\ h[m].new = h[n].old /\ h[m].entity = own[n - 1][h[n].old]
      BY <1>1, <1>2 DEF Paired
    <2>2. m \in 1..Len(g) /\ g[m] = h[m]
      BY <1>1 DEF OneMore
    <2>3. QED
      BY <2>1, <2>2, <1>1 DEF Paired
  <1>3. QED
    BY <1>2 DEF Paired

\* The history there is, and who holds which path.
Recorded(h, held) == \E own : Legal(h, own) /\ own[Len(h)] = held

LEMMA OneAtATime ==
    ASSUME NEW h, NEW held, Recorded(h, held), NEW ch, NEW g, OneMore(h, ch, g), Newer(h, ch),
           ch.status # "C",
           NEW then \in [Paths -> Entities \cup {None}], Follows(held, ch, then)
    PROVE  Recorded(g, then)
  <1>1. PICK own : Legal(h, own) /\ own[Len(h)] = held
    BY DEF Recorded
  <1>2. h \in Seq(Change) /\ Ordered(h) /\ Holds(h, own) /\ Len(h) \in Nat
    BY <1>1, Typed DEF Legal
  <1>3. PICK more : /\ Holds(g, more) /\ more[Len(g)] = then
                    /\ \A n \in 0..Len(h) : more[n] = own[n]
    BY <1>1, <1>2, HoldsExtends
  <1>4. ASSUME NEW n \in 1..Len(g) PROVE Paired(g, more, n)
    <2>1. CASE n \in 1..Len(h)
      BY <2>1, <1>1, <1>2, <1>3, PairedExtends DEF Legal
    <2>2. CASE n \notin 1..Len(h)
      <3>1. g[n] = ch
        BY <2>2, <1>2 DEF OneMore
      <3>2. QED
        BY <3>1 DEF Paired
    <2>3. QED
      BY <2>1, <2>2
  <1>5. Ordered(g) /\ g \in Seq(Change)
    BY <1>2, OrderedExtends DEF OneMore
  <1>6. QED
    BY <1>3, <1>4, <1>5 DEF Legal, Recorded

Together(held, m, c) ==
    /\ m.status = "M" /\ c.status = "C" /\ m.commit = c.commit /\ m.new = c.old
    /\ held[c.old] = m.entity

\* A commit that copies a file: the change of the file and the copy, in either order.
LEMMA TwoAtATime ==
    ASSUME NEW h, NEW held, Recorded(h, held), NEW first, NEW g, OneMore(h, first, g),
           Newer(h, first), NEW mid \in [Paths -> Entities \cup {None}],
           Follows(held, first, mid),
           NEW second, NEW f, OneMore(g, second, f), Newer(g, second),
           NEW then \in [Paths -> Entities \cup {None}], Follows(mid, second, then),
           Together(held, first, second) \/ Together(held, second, first)
    PROVE  Recorded(f, then)
  <1>1. PICK own : Legal(h, own) /\ own[Len(h)] = held
    BY DEF Recorded
  <1>2. h \in Seq(Change) /\ Ordered(h) /\ Holds(h, own) /\ Len(h) \in Nat
    BY <1>1, Typed DEF Legal
  <1>3. PICK more : /\ Holds(g, more) /\ more[Len(g)] = mid
                    /\ \A n \in 0..Len(h) : more[n] = own[n]
    BY <1>1, <1>2, HoldsExtends
  <1>4. Ordered(g) /\ g \in Seq(Change)
    BY <1>2, OrderedExtends DEF OneMore
  <1>5. PICK most : /\ Holds(f, most) /\ most[Len(f)] = then
                    /\ \A n \in 0..Len(g) : most[n] = more[n]
    BY <1>3, <1>4, HoldsExtends
  <1>6. Ordered(f) /\ f \in Seq(Change)
    BY <1>4, OrderedExtends DEF OneMore
  <1>7. /\ Len(g) = Len(h) + 1 /\ Len(f) = Len(h) + 2
        /\ f[Len(h) + 1] = first /\ f[Len(h) + 2] = second
    BY <1>2 DEF OneMore
  <1>8. most[Len(h)] = held /\ most[Len(h) + 1] = mid
    <2>1. Len(h) \in 0..Len(h) /\ Len(h) \in 0..Len(g) /\ Len(h) + 1 \in 0..Len(g)
      BY <1>2, <1>7
    <2>2. QED
      BY <2>1, <1>1, <1>3, <1>5, <1>7
  <1>9. ASSUME NEW n \in 1..Len(f) PROVE Paired(f, most, n)
    <2>1. CASE n \in 1..Len(h)
      <3>1. Paired(h, own, n)
        BY <2>1, <1>1 DEF Legal
      <3>2. Paired(g, more, n)
        BY <2>1, <3>1, <1>2, <1>3, PairedExtends
      <3>3. n \in 1..Len(g)
        BY <2>1, <1>2, <1>7
      <3>4. QED
        BY <3>2, <3>3, <1>4, <1>5, PairedExtends
    <2>2. CASE n \notin 1..Len(h) /\ Together(held, first, second)
      <3>1. n = Len(h) + 1 \/ n = Len(h) + 2
        BY <2>2, <1>2, <1>7
      <3>2. CASE n = Len(h) + 1
        BY <3>2, <2>2, <1>7 DEF Paired, Together
      <3>3. CASE n = Len(h) + 2
        <4>1. most[n - 1] = mid /\ mid = held /\ f[n].status = "C" /\ f[n] = second
          BY <3>3, <2>2, <1>2, <1>7, <1>8 DEF Follows, Together
        <4>2. Len(h) + 1 \in 1..Len(f) /\ f[Len(h) + 1] = first
          BY <2>2, <1>2, <1>7
        <4>3. QED
          BY <2>2, <4>1, <4>2 DEF Paired, Together
      <3>4. QED
        BY <3>1, <3>2, <3>3
    <2>3. CASE n \notin 1..Len(h) /\ Together(held, second, first)
      <3>1. n = Len(h) + 1 \/ n = Len(h) + 2
        BY <2>3, <1>2, <1>7
      <3>2. CASE n = Len(h) + 2
        BY <3>2, <2>3, <1>7 DEF Paired, Together
      <3>3. CASE n = Len(h) + 1
        <4>1. most[n - 1] = held /\ f[n].status = "C" /\ f[n] = first
          BY <3>3, <2>3, <1>2, <1>7, <1>8 DEF Together
        <4>2. Len(h) + 2 \in 1..Len(f) /\ f[Len(h) + 2] = second
          BY <2>3, <1>2, <1>7
        <4>3. QED
          BY <2>3, <4>1, <4>2 DEF Paired, Together
      <3>4. QED
        BY <3>1, <3>2, <3>3
    <2>4. QED
      BY <2>1, <2>2, <2>3
  <1>10. QED
    BY <1>5, <1>6, <1>9 DEF Legal, Recorded

LEMMA OneMoreIs ==
    ASSUME NEW h, h \in Seq(Change), NEW ch \in Change
    PROVE  OneMore(h, ch, h \o <<ch>>)
  <1>1. <<ch>> \in Seq(Change) /\ Len(<<ch>>) = 1 /\ <<ch>>[1] = ch
    OBVIOUS
  <1>2. Len(h) \in Nat
    BY LenProperties
  <1>3. /\ h \o <<ch>> \in Seq(Change) /\ Len(h \o <<ch>>) = Len(h) + 1
        /\ \A i \in 1..(Len(h) + 1) : (h \o <<ch>>)[i] = IF i <= Len(h) THEN h[i] ELSE <<ch>>[i - Len(h)]
    BY <1>1, ConcatProperties
  <1>4. (h \o <<ch>>)[Len(h) + 1] = ch
    <2>1. Len(h) + 1 \in 1..(Len(h) + 1) /\ ~(Len(h) + 1 <= Len(h)) /\ Len(h) + 1 - Len(h) = 1
      BY <1>2
    <2>2. QED
      BY <2>1, <1>1, <1>3
  <1>5. \A i \in 1..Len(h) : (h \o <<ch>>)[i] = h[i]
    BY <1>2, <1>3
  <1>6. QED
    BY <1>3, <1>4, <1>5 DEF OneMore

LEMMA TwoMoreAre ==
    ASSUME NEW h, h \in Seq(Change), NEW a \in Change, NEW b \in Change
    PROVE  OneMore(h, a, h \o <<a>>) /\ OneMore(h \o <<a>>, b, h \o <<a, b>>)
  <1>1. OneMore(h, a, h \o <<a>>) /\ h \o <<a>> \in Seq(Change)
    BY OneMoreIs DEF OneMore
  <1>2. OneMore(h \o <<a>>, b, (h \o <<a>>) \o <<b>>)
    BY <1>1, OneMoreIs
  <1>3. /\ <<a>> \in Seq(Change) /\ <<b>> \in Seq(Change)
        /\ <<a>> \o <<b>> = <<a, b>>
    <2>1. <<a>> \in Seq(Change) /\ Len(<<a>>) = 1 /\ <<a>>[1] = a
      OBVIOUS
    <2>2. <<b>> \in Seq(Change) /\ Len(<<b>>) = 1 /\ <<b>>[1] = b
      OBVIOUS
    <2>3. <<a, b>> \in Seq(Change) /\ Len(<<a, b>>) = 2 /\ <<a, b>>[1] = a /\ <<a, b>>[2] = b
      OBVIOUS
    <2>4. /\ <<a>> \o <<b>> \in Seq(Change) /\ Len(<<a>> \o <<b>>) = 2
          /\ \A i \in 1..2 : (<<a>> \o <<b>>)[i] = IF i <= 1 THEN <<a>>[i] ELSE <<b>>[i - 1]
      BY <2>1, <2>2, ConcatProperties
    <2>5. (<<a>> \o <<b>>)[1] = a /\ (<<a>> \o <<b>>)[2] = b
      BY <2>1, <2>2, <2>4
    <2>6. \A i \in 1..2 : i = 1 \/ i = 2
      OBVIOUS
    <2>7. <<a>> \o <<b>> = <<a, b>>
      <3> DEFINE s == <<a>> \o <<b>>
                 t == <<a, b>>
      <3>1. s \in Seq(Change) /\ t \in Seq(Change) /\ Len(s) = 2 /\ Len(t) = 2
            /\ \A i \in 1..2 : s[i] = t[i]
        BY <2>3, <2>4, <2>5, <2>6
      <3> HIDE DEF s, t
      <3>2. s = t
        BY <3>1, SeqEqual
      <3>3. QED
        BY <3>2 DEF s, t
    <2>8. QED
      BY <2>1, <2>2, <2>7
  <1>4. (h \o <<a>>) \o <<b>> = h \o (<<a>> \o <<b>>)
    BY <1>3, ConcatAssociative
  <1>5. QED
    BY <1>1, <1>2, <1>3, <1>4

\* What is recorded of the commits there are.
LEMMA RecordedIs ==
    ASSUME Recorded(history, owner)
    PROVE  /\ history \in Seq(Change) /\ Ordered(history) /\ Len(history) \in Nat
           /\ Newest \in 0..MaxCommits
           /\ \A n \in 1..Len(history) : history[n].commit <= Newest /\ history[n].entity <= Newest
           /\ owner \in [Paths -> Entities \cup {None}]
           /\ \A p \in Paths : owner[p] # None => owner[p] \in Entities /\ owner[p] <= Newest
  <1>1. PICK own : Legal(history, own) /\ own[Len(history)] = owner
    BY DEF Recorded
  <1>2. history \in Seq(Change) /\ Ordered(history) /\ Holds(history, own)
    BY <1>1 DEF Legal
  <1>3. /\ Len(history) \in Nat
        /\ \A n \in 1..Len(history) : /\ history[n].commit \in Entities
                                      /\ history[n].commit \in Nat
                                      /\ history[n].entity \in Entities
                                      /\ history[n].entity # None
    BY <1>2, Typed
  <1>4. history = <<>> <=> Len(history) = 0
    BY <1>2, EmptySeq
  <1>5. Newest \in 0..MaxCommits
    <2>1. CASE Len(history) = 0
      BY <2>1, <1>4, ConstantsOK DEF Newest
    <2>2. CASE Len(history) # 0
      <3>1. Newest = history[Len(history)].commit /\ Len(history) \in 1..Len(history)
        BY <2>2, <1>3, <1>4 DEF Newest
      <3>2. QED
        BY <3>1, <1>3, ConstantsOK DEF Entities
    <2>3. QED
      BY <2>1, <2>2
  <1>6. ASSUME NEW n \in 1..Len(history)
        PROVE  history[n].commit <= Newest /\ history[n].entity <= Newest
    <2>1. Len(history) \in 1..Len(history) /\ n <= Len(history) /\ Len(history) # 0
      BY <1>3
    <2>2. Newest = history[Len(history)].commit
      BY <2>1, <1>4 DEF Newest
    <2>3. history[n].commit <= Newest
      BY <2>1, <2>2, <1>2 DEF Ordered
    <2>4. history[n].entity <= history[n].commit
      BY <1>2 DEF Ordered
    <2>5. QED
      BY <2>3, <2>4, <1>3, <1>5 DEF Entities
  <1>7. Len(history) \in 0..Len(history)
    BY <1>3
  <1>8. owner \in [Paths -> Entities \cup {None}]
    BY <1>1, <1>2, <1>7 DEF Holds
  <1>9. ASSUME NEW p \in Paths, owner[p] # None PROVE owner[p] \in Entities /\ owner[p] <= Newest
    <2>1. PICK x \in 1..Len(history) : LastNaming(history, owner[p], Len(history), x)
      BY <1>1, <1>2, <1>7, <1>9 DEF Holds
    <2>2. history[x].entity = owner[p]
      BY <2>1 DEF LastNaming
    <2>3. QED
      BY <2>2, <1>3, <1>6
  <1>10. QED
    BY <1>2, <1>3, <1>5, <1>6, <1>8, <1>9

\* A step leaves the commits as they are, or puts newer ones after them.
Onward ==
    /\ history' \in Seq(Change) /\ Len(history') >= Len(history)
    /\ \A n \in 1..Len(history) : history'[n] = history[n]
    /\ \A n \in (Len(history) + 1)..Len(history') : history'[n].commit = Next1

LEMMA NextIs ==
    ASSUME Recorded(history, owner), Next1 <= MaxCommits
    PROVE  Next1 \in Entities /\ Next1 = Newest + 1 /\ Next1 \in Nat
  BY RecordedIs, ConstantsOK DEF Next1, Entities

LEMMA NewerIs ==
    ASSUME Recorded(history, owner), Next1 <= MaxCommits, NEW ch,
           ch.commit = Next1,
           \/ ch.entity = Next1
           \/ ch.status \notin {"A", "C"} /\ ch.entity \in Entities /\ ch.entity <= Newest
    PROVE  Newer(history, ch)
  <1>1. /\ Newest \in 0..MaxCommits /\ Len(history) \in Nat
        /\ \A n \in 1..Len(history) : history[n].commit <= Newest /\ history[n].entity <= Newest
        /\ history \in Seq(Change)
    BY RecordedIs
  <1>2. Next1 \in Entities /\ Next1 = Newest + 1 /\ Entities \subseteq Nat
    BY NextIs DEF Entities
  <1>3. \A n \in 1..Len(history) : history[n].commit \in Nat /\ history[n].entity \in Nat
    BY <1>1, <1>2, Typed
  <1>4. \A n \in 1..Len(history) : history[n].commit <= ch.commit
    BY <1>1, <1>2, <1>3
  <1>5. ch.entity <= ch.commit
    <2>1. ch.commit \in Nat /\ Newest \in Nat /\ ch.commit = Newest + 1
      BY <1>1, <1>2, NextIs
    <2>2. ch.entity = Next1 \/ (ch.entity \in Nat /\ ch.entity <= Newest)
      BY <1>2
    <2>3. QED
      BY <2>1, <2>2
  <1>6. ch.status \in {"A", "C"} => \A n \in 1..Len(history) : history[n].entity # ch.entity
    BY <1>1, <1>2, <1>3
  <1>7. QED
    BY <1>4, <1>5, <1>6 DEF Newer

LEMMA PushOne ==
    ASSUME Recorded(history, owner), NEW ch \in Change, Newer(history, ch), ch.commit = Next1,
           ch.status # "C", NEW then \in [Paths -> Entities \cup {None}],
           Follows(owner, ch, then), Push(<<ch>>, then)
    PROVE  Onward /\ Recorded(history', owner')
  <1>1. history \in Seq(Change) /\ Len(history) \in Nat
    BY RecordedIs
  <1>2. history' = history \o <<ch>> /\ owner' = then
    BY DEF Push
  <1>3. OneMore(history, ch, history')
    BY <1>1, <1>2, OneMoreIs
  <1>4. Recorded(history', owner')
    BY <1>2, <1>3, OneAtATime
  <1>5. \A n \in (Len(history) + 1)..Len(history') : n = Len(history) + 1
    BY <1>1, <1>3 DEF OneMore
  <1>6. Onward
    BY <1>1, <1>3, <1>5 DEF Onward, OneMore
  <1>7. QED
    BY <1>4, <1>6

LEMMA PushTwo ==
    ASSUME Recorded(history, owner), Next1 <= MaxCommits,
           NEW p \in Paths, NEW q \in Paths, owner[p] # None, owner[q] = None,
           NEW m, m = Changed("M", p, p, FALSE, owner[p]),
           NEW c, c = Changed("C", p, q, FALSE, Next1),
           NEW first, NEW second, \/ m = first /\ c = second
                                  \/ m = second /\ c = first,
           Push(<<first, second>>, [owner EXCEPT ![q] = Next1])
    PROVE  Onward /\ Recorded(history', owner')
  <1> DEFINE then == [owner EXCEPT ![q] = Next1]
             mid  == IF m = first THEN owner ELSE then
             g    == history \o <<first>>
  <1>1. /\ history \in Seq(Change) /\ Len(history) \in Nat /\ Newest \in 0..MaxCommits
        /\ owner \in [Paths -> Entities \cup {None}]
        /\ owner[p] \in Entities /\ owner[p] <= Newest
    BY RecordedIs
  <1>2. /\ m \in Change /\ Newer(history, m) /\ m.status = "M" /\ m.old = p /\ m.new = p
        /\ m.entity = owner[p] /\ m.commit = Next1 /\ Next1 \in Entities /\ Next1 = Newest + 1
    <2>1. Next1 \in Entities /\ Next1 = Newest + 1
      BY <1>1, NextIs
    <2>2. /\ m.status = "M" /\ m.old = p /\ m.new = p
          /\ m.entity = owner[p] /\ m.commit = Next1
      BY DEF Changed
    <2>3. m \in Change
      BY <1>1, <2>1 DEF Changed, Change, Operation
    <2>4. Newer(history, m)
      BY <1>1, <2>1, <2>2, NewerIs
    <2>5. QED
      BY <2>1, <2>2, <2>3, <2>4
  <1>3. /\ c \in Change /\ Newer(history, c) /\ c.status = "C" /\ c.old = p /\ c.new = q
        /\ c.entity = Next1 /\ c.commit = Next1
    <2>1. Next1 \in Entities /\ Next1 = Newest + 1
      BY <1>1, NextIs
    <2>2. /\ c.status = "C" /\ c.old = p /\ c.new = q
          /\ c.entity = Next1 /\ c.commit = Next1
      BY DEF Changed
    <2>3. c \in Change
      BY <1>1, <2>1 DEF Changed, Change, Operation
    <2>4. Newer(history, c)
      BY <1>1, <2>1, <2>2, NewerIs
    <2>5. QED
      BY <2>1, <2>2, <2>3, <2>4
  <1>4. first \in Change /\ second \in Change
    BY <1>2, <1>3
  <1>5. history' = history \o <<first, second>> /\ owner' = then
    BY DEF Push
  <1>6. OneMore(history, first, g) /\ OneMore(g, second, history')
    BY <1>1, <1>4, <1>5, TwoMoreAre
  <1>7. then \in [Paths -> Entities \cup {None}] /\ mid \in [Paths -> Entities \cup {None}]
    BY <1>1, <1>2
  <1>8. Follows(owner, m, owner) /\ Follows(then, m, then) /\ Follows(owner, c, then)
    <2>1. p # q
      OBVIOUS
    <2>2. Follows(owner, m, owner) /\ Follows(then, m, then)
      BY <2>1, <1>1, <1>2 DEF Follows
    <2>3. Follows(owner, c, then)
      BY <1>1, <1>3 DEF Follows
    <2>4. QED
      BY <2>2, <2>3
  <1>9. m # c
    BY <1>2, <1>3
  <1>10. Newer(history, first)
    BY <1>2, <1>3
  <1> HIDE DEF g
  <1>11. Newer(g, second)
    <2>1. Len(g) = Len(history) + 1 /\ g[Len(history) + 1] = first
          /\ \A n \in 1..Len(history) : g[n] = history[n]
      BY <1>6 DEF OneMore
    <2>2. \A n \in 1..Len(g) : n \in 1..Len(history) \/ n = Len(history) + 1
      BY <2>1, <1>1
    <2>3. Newer(history, second)
      BY <1>2, <1>3
    <2>4. first.commit = second.commit /\ first.commit \in Nat
      BY <1>2, <1>3, NextIs
    <2>5. second.status = "C" => first.entity # second.entity
      <3>1. owner[p] \in Nat /\ Newest \in Nat /\ owner[p] # Newest + 1
        BY <1>1 DEF Entities
      <3>2. m.entity # c.entity
        BY <3>1, <1>2, <1>3
      <3>3. QED
        BY <3>2
    <2>6. second.status # "A"
      BY <1>2, <1>3
    <2>7. QED
      BY <2>1, <2>2, <2>3, <2>4, <2>5, <2>6 DEF Newer
  <1>12. Follows(owner, first, mid) /\ Follows(mid, second, then)
    <2>1. CASE m = first
      BY <2>1, <1>8, <1>9
    <2>2. CASE m # first
      BY <2>2, <1>8
    <2>3. QED
      BY <2>1, <2>2
  <1> HIDE DEF then, mid
  <1>13. Together(owner, first, second) \/ Together(owner, second, first)
    <2>1. Together(owner, m, c)
      BY <1>2, <1>3 DEF Together
    <2>2. QED
      BY <2>1
  <1>14. Recorded(history', then)
    BY <1>6, <1>7, <1>10, <1>11, <1>12, <1>13, TwoAtATime
  <1>15. Onward
    <2>1. /\ Len(g) = Len(history) + 1 /\ g[Len(history) + 1] = first
          /\ \A n \in 1..Len(history) : g[n] = history[n]
      BY <1>6 DEF OneMore
    <2>2. /\ Len(history') = Len(g) + 1 /\ history'[Len(g) + 1] = second
          /\ \A n \in 1..Len(g) : history'[n] = g[n]
      BY <1>6 DEF OneMore
    <2>3. /\ \A n \in 1..Len(history) : history'[n] = history[n]
          /\ history'[Len(history) + 1] = first /\ history'[Len(history) + 2] = second
          /\ Len(history') = Len(history) + 2
      BY <2>1, <2>2, <1>1
    <2>4. \A n \in (Len(history) + 1)..Len(history') :
             n = Len(history) + 1 \/ n = Len(history) + 2
      BY <2>3, <1>1
    <2>5. first.commit = Next1 /\ second.commit = Next1 /\ history' \in Seq(Change)
      BY <1>2, <1>3, <1>6 DEF OneMore
    <2>6. QED
      BY <2>3, <2>4, <2>5, <1>1 DEF Onward
  <1>16. QED
    BY <1>5, <1>14, <1>15

LEMMA CommitRecorded ==
    ASSUME Recorded(history, owner), Commit
    PROVE  Onward /\ Recorded(history', owner') /\ UNCHANGED <<rows, pc, loc, runs, listed>>
  <1>1. /\ history \in Seq(Change) /\ Len(history) \in Nat
        /\ owner \in [Paths -> Entities \cup {None}]
        /\ \A p \in Paths : owner[p] # None => owner[p] \in Entities /\ owner[p] <= Newest
    BY RecordedIs
  <1>2. PICK p \in Paths : \/ Add(p) \/ Modify(p) \/ Delete(p)
                           \/ \E q \in Paths : Rename(p, q) \/ Copy(p, q)
    BY DEF Commit
  <1>3. CASE Add(p)
    <2> DEFINE ch == Changed("A", None, p, FALSE, Next1)
               then == [owner EXCEPT ![p] = Next1]
    <2>1. owner[p] = None /\ Push(<<ch>>, then) /\ Next1 <= MaxCommits
      BY <1>3 DEF Add, Push
    <2>2. /\ ch \in Change /\ Newer(history, ch) /\ ch.commit = Next1 /\ ch.status = "A"
          /\ ch.new = p /\ ch.entity = Next1 /\ Next1 \in Entities
      <3>1. Next1 \in Entities /\ Next1 = Newest + 1
        BY <2>1, NextIs
      <3>2. /\ ch.status = "A" /\ ch.old = None /\ ch.new = p
            /\ ch.entity = Next1 /\ ch.commit = Next1
        BY DEF Changed
      <3>3. ch \in Change
        BY <2>1, <3>1 DEF Changed, Change, Operation
      <3>4. Newer(history, ch)
        <4> HIDE DEF ch
        <4>1. QED
          BY <2>1, <3>1, <3>2, NewerIs
      <3>5. QED
        BY <3>1, <3>2, <3>3, <3>4
    <2> HIDE DEF ch
    <2>3. then \in [Paths -> Entities \cup {None}] /\ Follows(owner, ch, then)
      BY <2>1, <2>2, <1>1 DEF Follows
    <2> HIDE DEF then
    <2>4. QED
      BY <2>1, <2>2, <2>3, PushOne DEF Push
  <1>4. CASE Modify(p)
    <2>1. PICK quiet \in BOOLEAN : Push(<<Changed("M", p, p, quiet, owner[p])>>, owner)
      BY <1>4 DEF Modify
    <2> DEFINE ch == Changed("M", p, p, quiet, owner[p])
    <2>2. owner[p] # None /\ Push(<<ch>>, owner) /\ Next1 <= MaxCommits
      BY <2>1, <1>4 DEF Modify, Push
    <2>3. /\ ch \in Change /\ Newer(history, ch) /\ ch.commit = Next1 /\ ch.status = "M"
          /\ ch.new = p /\ ch.entity = owner[p]
      <3>1. Next1 \in Entities /\ Next1 = Newest + 1
        BY <1>1, <2>2, NextIs
      <3>2. /\ ch.status = "M" /\ ch.old = p /\ ch.new = p
            /\ ch.entity = owner[p] /\ ch.commit = Next1
        BY DEF Changed
      <3>3. ch \in Change
        BY <1>1, <2>2, <3>1 DEF Changed, Change, Operation
      <3>4. Newer(history, ch)
        <4> HIDE DEF ch
        <4>1. QED
          BY <1>1, <2>2, <3>1, <3>2, NewerIs
      <3>5. QED
        BY <3>1, <3>2, <3>3, <3>4
    <2> HIDE DEF ch
    <2>4. Follows(owner, ch, owner)
      BY <2>3 DEF Follows
    <2>5. QED
      BY <2>2, <2>3, <2>4, <1>1, PushOne DEF Push
  <1>5. CASE Delete(p)
    <2> DEFINE ch == Changed("D", p, None, FALSE, owner[p])
               then == [owner EXCEPT ![p] = None]
    <2>1. owner[p] # None /\ Push(<<ch>>, then) /\ Next1 <= MaxCommits
      BY <1>5 DEF Delete, Push
    <2>2. /\ ch \in Change /\ Newer(history, ch) /\ ch.commit = Next1 /\ ch.status = "D"
          /\ ch.old = p /\ ch.entity = owner[p]
      <3>1. Next1 \in Entities /\ Next1 = Newest + 1
        BY <1>1, <2>1, NextIs
      <3>2. /\ ch.status = "D" /\ ch.old = p /\ ch.new = None
            /\ ch.entity = owner[p] /\ ch.commit = Next1
        BY DEF Changed
      <3>3. ch \in Change
        BY <1>1, <2>1, <3>1 DEF Changed, Change, Operation
      <3>4. Newer(history, ch)
        <4> HIDE DEF ch
        <4>1. QED
          BY <1>1, <2>1, <3>1, <3>2, NewerIs
      <3>5. QED
        BY <3>1, <3>2, <3>3, <3>4
    <2> HIDE DEF ch
    <2>3. then \in [Paths -> Entities \cup {None}] /\ Follows(owner, ch, then)
      BY <2>2, <1>1 DEF Follows
    <2> HIDE DEF then
    <2>4. QED
      BY <2>1, <2>2, <2>3, PushOne DEF Push
  <1>6. ASSUME NEW q \in Paths, Rename(p, q)
        PROVE  Onward /\ Recorded(history', owner') /\ UNCHANGED <<rows, pc, loc, runs, listed>>
    <2> DEFINE ch == Changed("R", p, q, FALSE, owner[p])
               then == [owner EXCEPT ![p] = None, ![q] = owner[p]]
    <2>1. owner[p] # None /\ owner[q] = None /\ Push(<<ch>>, then) /\ Next1 <= MaxCommits
      BY <1>6 DEF Rename, Push
    <2>2. /\ ch \in Change /\ Newer(history, ch) /\ ch.commit = Next1 /\ ch.status = "R"
          /\ ch.old = p /\ ch.new = q /\ ch.entity = owner[p]
      <3>1. Next1 \in Entities /\ Next1 = Newest + 1
        BY <1>1, <2>1, NextIs
      <3>2. /\ ch.status = "R" /\ ch.old = p /\ ch.new = q
            /\ ch.entity = owner[p] /\ ch.commit = Next1
        BY DEF Changed
      <3>3. ch \in Change
        BY <1>1, <2>1, <3>1 DEF Changed, Change, Operation
      <3>4. Newer(history, ch)
        <4> HIDE DEF ch
        <4>1. QED
          BY <1>1, <2>1, <3>1, <3>2, NewerIs
      <3>5. QED
        BY <3>1, <3>2, <3>3, <3>4
    <2> HIDE DEF ch
    <2>3. then \in [Paths -> Entities \cup {None}] /\ Follows(owner, ch, then)
      BY <2>1, <2>2, <1>1 DEF Follows
    <2> HIDE DEF then
    <2>4. QED
      BY <2>1, <2>2, <2>3, PushOne DEF Push
  <1>7. ASSUME NEW q \in Paths, Copy(p, q)
        PROVE  Onward /\ Recorded(history', owner') /\ UNCHANGED <<rows, pc, loc, runs, listed>>
    <2> DEFINE m == Changed("M", p, p, FALSE, owner[p])
               c == Changed("C", p, q, FALSE, Next1)
    <2>1. /\ owner[p] # None /\ owner[q] = None
          /\ \E changes \in {<<m, c>>, <<c, m>>} : Push(changes, [owner EXCEPT ![q] = Next1])
      BY <1>7 DEF Copy
    <2> HIDE DEF m, c
    <2>2. \/ Push(<<m, c>>, [owner EXCEPT ![q] = Next1])
          \/ Push(<<c, m>>, [owner EXCEPT ![q] = Next1])
      BY <2>1
    <2>3. Next1 <= MaxCommits /\ UNCHANGED <<rows, pc, loc, runs, listed>>
      BY <2>2 DEF Push
    <2>4. Onward /\ Recorded(history', owner')
      <3>1. CASE Push(<<m, c>>, [owner EXCEPT ![q] = Next1])
        BY <3>1, <2>1, <2>3, PushTwo DEF m, c
      <3>2. CASE Push(<<c, m>>, [owner EXCEPT ![q] = Next1])
        BY <3>2, <2>1, <2>3, PushTwo DEF m, c
      <3>3. QED
        BY <2>2, <3>1, <3>2
    <2>5. QED
      BY <2>3, <2>4
  <1>8. QED
    BY <1>2, <1>3, <1>4, <1>5, <1>6, <1>7

-----------------------------------------------------------------------------
(* The inductive invariant *)

PlanRow == [commit : Entities,
            changes : SUBSET [op : {"create", "update", "delete"}, target : Paths \cup {None},
                              entity : Entities],
            head : Entities, from : 1..(MaxCommits + 1)]

Local == [head : 0..MaxCommits, since : Nat \ {0}, limit : 0..1, plan : SUBSET PlanRow]

TypeOK ==
    /\ rows \in [Entities -> Row \cup {None}]
    /\ pc \in [Procs -> {"idle", "list", "write"}]
    /\ loc \in [Procs -> Local]
    /\ listed \subseteq Commits

\* What a row of commit k, written or still to be, says of its entities.
RowOK(row, k) ==
    /\ row.head <= Newest
    /\ row.from <= k => \A c \in row.changes : ChangeOK(c, k, row.head, row.from)

\* A run has still to write what it has listed and has found no row for.
Covered(l) ==
    \A n \in 1..Len(history) :
        history[n].commit \in l.since..l.head /\ ~Same(history[n]) =>
            \/ rows[history[n].commit] # None
            \/ \E row \in l.plan : row.commit = history[n].commit

RunOK(r) ==
    /\ pc[r] # "idle" => loc[r].head <= Newest
    /\ pc[r] = "write" => /\ Covered(loc[r])
                          /\ \A row \in loc[r].plan : RowOK(row, row.commit)

RowsOK == \A k \in Entities : \A row \in Row : rows[k] = row => RowOK(row, k)

IInv ==
    /\ TypeOK /\ Recorded(history, owner) /\ RowsOK
    /\ \A r \in Procs : RunOK(r)
    /\ HistoryReplayed

LEMMA NewestGrows ==
    ASSUME Recorded(history, owner), Onward, Recorded(history', owner')
    PROVE  Newest \in Nat /\ Newest' \in Nat /\ Newest <= Newest' /\ Commits \subseteq Commits'
  <1>1. /\ history \in Seq(Change) /\ Len(history) \in Nat /\ Newest \in Nat
    BY RecordedIs
  <1>2. history' \in Seq(Change) /\ Len(history') \in Nat /\ Len(history') >= Len(history)
    BY Typed DEF Onward
  <1>3. /\ history = <<>> <=> Len(history) = 0
        /\ history' = <<>> <=> Len(history') = 0
    BY <1>1, <1>2, EmptySeq
  <1>4. Newest' \in Nat /\ Newest <= Newest'
    <2>1. CASE Len(history') = 0
      <3>1. Newest = 0 /\ Newest' = 0
        BY <2>1, <1>1, <1>2, <1>3 DEF Newest
      <3>2. QED
        BY <3>1
    <2>2. CASE Len(history') # 0 /\ Len(history') = Len(history)
      <3>1. Newest' = history'[Len(history')].commit /\ Newest = history[Len(history)].commit
        BY <2>2, <1>3 DEF Newest
      <3>2. history'[Len(history)] = history[Len(history)]
        BY <2>2, <1>1 DEF Onward
      <3>3. QED
        BY <3>1, <3>2, <2>2, <1>1
    <2>3. CASE Len(history') # 0 /\ Len(history') # Len(history)
      <3>1. Newest' = history'[Len(history')].commit
        BY <2>3, <1>3 DEF Newest
      <3>2. Len(history') \in (Len(history) + 1)..Len(history')
        BY <2>3, <1>1, <1>2
      <3>3. Newest' = Newest + 1
        BY <3>1, <3>2 DEF Onward, Next1
      <3>4. QED
        BY <3>3, <1>1
    <2>4. QED
      BY <2>1, <2>2, <2>3
  <1>5. Commits \subseteq Commits'
    BY <1>1, <1>4 DEF Commits
  <1>6. QED
    BY <1>1, <1>4, <1>5

\* Newer commits take nothing from what is said of the older ones.
LEMMA ChangeStays ==
    ASSUME Recorded(history, owner), Onward, NEW head \in Nat, head <= Newest,
           NEW c, NEW k, NEW from, ChangeOK(c, k, head, from)
    PROVE  ChangeOK(c, k, head, from)'
  <1>1. /\ history \in Seq(Change) /\ Len(history) \in Nat /\ Newest \in Nat
        /\ DOMAIN history = 1..Len(history)
    BY RecordedIs, Typed
  <1>2. /\ history' \in Seq(Change) /\ Len(history') \in Nat /\ DOMAIN history' = 1..Len(history')
        /\ Len(history') >= Len(history)
    BY Typed DEF Onward
  <1>3. \A n \in 1..Len(history) : n \in 1..Len(history') /\ history'[n] = history[n]
    BY <1>1, <1>2 DEF Onward
  <1>4. ASSUME NEW n \in 1..Len(history'), history'[n].commit <= head
        PROVE  n \in 1..Len(history)
    <2>1. SUFFICES ASSUME n \notin 1..Len(history) PROVE FALSE
      OBVIOUS
    <2>2. n \in (Len(history) + 1)..Len(history')
      BY <2>1, <1>1, <1>2
    <2>3. history'[n].commit = Newest + 1
      BY <2>2 DEF Onward, Next1
    <2>4. QED
      BY <2>3, <1>1, <1>4
  <1>5. ASSUME NEW e, NEW x \in 1..Len(history), LastCalled(history, e, head, x)
        PROVE  /\ x \in 1..Len(history') /\ LastCalled(history', e, head, x)
               /\ history'[x] = history[x]
    BY <1>3, <1>4, <1>5 DEF LastCalled
  <1>6. ASSUME NEW a, NEW e \in Copied(a, head) PROVE e \in Copied(a, head)'
    <2>1. PICK n \in DOMAIN history :
             /\ history[n].entity = e
             /\ history[n].status = "M" /\ history[n].commit \in a..head
             /\ \E m \in DOMAIN history : /\ history[m].commit = history[n].commit
                                          /\ history[m].status = "C"
                                          /\ history[m].old = history[n].new
      BY <1>6 DEF Copied
    <2>2. PICK m \in DOMAIN history : /\ history[m].commit = history[n].commit
                                      /\ history[m].status = "C"
                                      /\ history[m].old = history[n].new
      BY <2>1
    <2>3. /\ n \in DOMAIN history' /\ history'[n] = history[n]
          /\ m \in DOMAIN history' /\ history'[m] = history[m]
      BY <1>1, <1>2, <1>3
    <2>4. \E i \in DOMAIN history' :
             /\ history'[i].entity = e
             /\ history'[i].status = "M" /\ history'[i].commit \in a..head
             /\ \E j \in DOMAIN history' : /\ history'[j].commit = history'[i].commit
                                           /\ history'[j].status = "C"
                                           /\ history'[j].old = history'[i].new
      BY <2>1, <2>2, <2>3
    <2>5. QED
      BY <2>4 DEF Copied
  <1>7. ASSUME c.entity \notin Copied(k, head)', c.target # None
        PROVE  \E x \in 1..Len(history') :
                  LastCalled(history', c.entity, head, x) /\ c.target = history'[x].new
    <2>1. c.entity \notin Copied(k, head)
      BY <1>6, <1>7
    <2>2. PICK x \in 1..Len(history) :
             LastCalled(history, c.entity, head, x) /\ c.target = history[x].new
      BY <2>1, <1>7 DEF ChangeOK
    <2>3. QED
      BY <2>2, <1>5
  <1>8. ASSUME c.target = None
        PROVE  /\ c.op = "delete"
               /\ \E x \in 1..Len(history') :
                     /\ LastCalled(history', c.entity, head, x)
                     /\ history'[x].commit < from \/ c.entity \in Copied(from, head)'
    <2>1. PICK x \in 1..Len(history) :
             /\ LastCalled(history, c.entity, head, x)
             /\ history[x].commit < from \/ c.entity \in Copied(from, head)
      BY <1>8 DEF ChangeOK
    <2>2. c.op = "delete"
      BY <1>8 DEF ChangeOK
    <2>3. QED
      BY <2>1, <2>2, <1>5, <1>6
  <1>9. QED
    BY <1>7, <1>8 DEF ChangeOK

LEMMA RowStays ==
    ASSUME Recorded(history, owner), Onward, Recorded(history', owner'),
           NEW row, row.head \in Nat, NEW k, RowOK(row, k)
    PROVE  RowOK(row, k)'
  <1>1. Newest \in Nat /\ Newest' \in Nat /\ Newest <= Newest'
    BY NewestGrows
  <1>2. row.head <= Newest /\ row.head <= Newest'
    BY <1>1 DEF RowOK
  <1>3. ASSUME row.from <= k, NEW c \in row.changes PROVE ChangeOK(c, k, row.head, row.from)'
    BY <1>2, <1>3, ChangeStays DEF RowOK
  <1>4. QED
    BY <1>2, <1>3 DEF RowOK

LEMMA CoveredStays ==
    ASSUME Recorded(history, owner), Onward, NEW l, NEW m, l.head <= Newest, l.head \in Nat,
           m.since = l.since, m.head = l.head, Covered(l),
           \A k \in Entities : rows[k] # None => rows'[k] # None,
           \A row \in l.plan : row \in m.plan \/ rows'[row.commit] # None
    PROVE  Covered(m)'
  <1>1. /\ history \in Seq(Change) /\ Len(history) \in Nat /\ Newest \in Nat
        /\ Len(history') \in Nat
        /\ \A n \in 1..Len(history) : history[n].commit \in Entities
    BY RecordedIs, Typed DEF Onward
  <1>2. SUFFICES ASSUME NEW n \in 1..Len(history'), history'[n].commit \in m.since..m.head,
                        ~Same(history'[n])
                 PROVE  \/ rows'[history'[n].commit] # None
                        \/ \E row \in m.plan : row.commit = history'[n].commit
    BY DEF Covered, Same
  <1>3. n \in 1..Len(history)
    <2>1. SUFFICES ASSUME n \notin 1..Len(history) PROVE FALSE
      OBVIOUS
    <2>2. n \in (Len(history) + 1)..Len(history')
      BY <2>1, <1>1
    <2>3. history'[n].commit = Newest + 1
      BY <2>2 DEF Onward, Next1
    <2>4. QED
      BY <2>3, <1>1, <1>2
  <1>4. history'[n] = history[n]
    BY <1>3 DEF Onward
  <1>5. rows[history[n].commit] # None \/ \E row \in l.plan : row.commit = history[n].commit
    BY <1>2, <1>3, <1>4 DEF Covered
  <1>6. QED
    BY <1>1, <1>3, <1>4, <1>5

-----------------------------------------------------------------------------
(* What a run plans *)

LEMMA UnbrokenIs ==
    ASSUME NEW walk, NEW head \in Nat, walk \subseteq 1..head
    PROVE  /\ Unbroken(walk, head) \in 1..(head + 1)
           /\ Unbroken(walk, head)..head \subseteq walk
  <1> DEFINE T == {f \in 1..(head + 1) : f..head \subseteq walk}
  <1>1. head + 1 \in T /\ T \subseteq Nat
    OBVIOUS
  <1>2. PICK f \in T : \A y \in T : f <= y
    <2> HIDE DEF T
    <2>1. QED
      BY <1>1, Least
  <1>3. f - 1 \notin walk
    <2>1. SUFFICES ASSUME f - 1 \in walk PROVE FALSE
      OBVIOUS
    <2>2. f - 1 \in 1..(head + 1) /\ \A j \in (f - 1)..head : j = f - 1 \/ j \in f..head
      BY <2>1, <1>2
    <2>3. f - 1 \in T
      BY <2>1, <2>2, <1>2
    <2>4. QED
      BY <2>3, <1>2
  <1>4. \E g \in 1..(head + 1) : g..head \subseteq walk /\ g - 1 \notin walk
    BY <1>2, <1>3
  <1>5. QED
    BY <1>4 DEF Unbroken

\* The name that comes out is a path or none.
LEMMA FinalNameTyped ==
    ASSUME history \in Seq(Change), NEW own, Holds(history, own), NEW walk,
           NEW i \in 1..Len(history), history[i].commit \in walk
    PROVE  FinalName(PassOne(walk), i) \in Paths \cup {None}
  <1> DEFINE P  == PassOne(walk)
             id == Identity(P[i - 1], history[i])
  <1>1. /\ Len(history) \in Nat
        /\ \A n \in 1..Len(history) : Shown(history[n])
    BY LegalShown
  <1>2. RegistryOK(P[i - 1]) /\ RegistryOK(P[Len(history)]) /\ i \in 0..Len(history)
    BY <1>1, PassOK
  <1>3. P[i] = Touch(P[i - 1], history[i])
    BY <1>1, PassOneIs DEF Further
  <1>4. id \in 1..Len(P[i].final)
    BY <1>1, <1>2, <1>3, Touches DEF Renamed
  <1> HIDE DEF id
  <1>5. Len(history) \in i..Len(history)
    BY <1>1
  <1>6. id \in 1..Len(P[Len(history)].final)
    BY <1>1, <1>2, <1>4, <1>5, PassKeepsNames
  <1>7. P[Len(history)].final[id] \in Paths \cup {None}
    BY <1>2, <1>6, LenProperties DEF RegistryOK
  <1>8. QED
    BY <1>7 DEF FinalName, id

\* The row for one commit.
Row1(l, walk, k) ==
    [commit |-> k,
     changes |-> {Decompose(PassOne(walk), n) : n \in {m \in DOMAIN history :
                      history[m].commit = k /\ ~Same(history[m])}},
     head |-> l.head, from |-> Unbroken(walk, l.head)]

LEMMA PlannedIs ==
    ASSUME NEW l, NEW already
    PROVE  \A row \in Planned(l, already) : \E k \in (l.since..l.head) \ already :
              row = Row1(l, (l.since..l.head) \ already, k)
  BY DEF Planned, Row1

LEMMA PlannedAre ==
    ASSUME NEW l, NEW already, NEW walk, walk = (l.since..l.head) \ already, NEW k \in walk,
           Row1(l, walk, k).changes # {}
    PROVE  Row1(l, walk, k) \in Planned(l, already)
  <1>1. Planned(l, already) = {row \in {Row1(l, walk, j) : j \in walk} : row.changes # {}}
    BY DEF Planned, Row1
  <1>2. QED
    BY <1>1

LEMMA PlannedOK ==
    ASSUME Recorded(history, owner), NEW l, l.head \in Nat, l.head <= Newest,
           l.since \in Nat \ {0}, NEW row \in Planned(l, Already)
    PROVE  row \in PlanRow /\ RowOK(row, row.commit)
  <1> DEFINE walk == (l.since..l.head) \ Already
  <1>1. PICK own : Legal(history, own)
    BY DEF Recorded
  <1>2. history \in Seq(Change) /\ Holds(history, own)
    BY <1>1 DEF Legal
  <1>3. /\ DOMAIN history = 1..Len(history)
        /\ \A n \in 1..Len(history) : /\ history[n].entity \in Entities
                                      /\ history[n].status \in DOMAIN Operation
    BY <1>2, Typed
  <1>4. Newest \in 0..MaxCommits /\ walk \subseteq 1..l.head /\ MaxCommits \in Nat
    BY RecordedIs, ConstantsOK
  <1>5. PICK k \in walk : row = Row1(l, walk, k)
    BY PlannedIs
  <1>6. k \in Entities /\ l.head \in Entities /\ k \in 1..l.head
    BY <1>4, <1>5 DEF Entities
  <1>7. /\ row.commit = k /\ row.head = l.head /\ row.from = Unbroken(walk, l.head)
        /\ row = [commit |-> row.commit, changes |-> row.changes, head |-> row.head, from |-> row.from]
        /\ row.changes = {Decompose(PassOne(walk), n) : n \in {m \in DOMAIN history :
                             history[m].commit = k /\ ~Same(history[m])}}
    BY <1>5 DEF Row1
  <1> HIDE DEF walk
  <1>8. row.from \in 1..(l.head + 1) /\ row.from..l.head \subseteq walk
    BY <1>4, <1>7, UnbrokenIs
  <1>9. row.from \in 1..(MaxCommits + 1)
    BY <1>4, <1>6, <1>8 DEF Entities
  <1>10. ASSUME NEW c \in row.changes
         PROVE  /\ c \in [op : {"create", "update", "delete"}, target : Paths \cup {None},
                          entity : Entities]
                /\ row.from <= k => ChangeOK(c, k, l.head, row.from)
    <2>1. PICK n \in 1..Len(history) : history[n].commit = k /\ c = Decompose(PassOne(walk), n)
      BY <1>3, <1>7
    <2>2. FinalName(PassOne(walk), n) \in Paths \cup {None}
      BY <2>1, <1>2, <1>5, FinalNameTyped
    <2>3. Operation[history[n].status] \in {"create", "update", "delete"}
      BY <1>3 DEF Operation
    <2>4. c = [op |-> Operation[history[n].status], target |-> FinalName(PassOne(walk), n),
               entity |-> history[n].entity]
      BY <2>1 DEF Decompose
    <2>5. c \in [op : {"create", "update", "delete"}, target : Paths \cup {None}, entity : Entities]
      BY <2>2, <2>3, <2>4, <1>3
    <2>6. ASSUME row.from <= k PROVE ChangeOK(c, k, l.head, row.from)
      <3>1. history[n].commit \in row.from..l.head /\ row.from \in Nat
        BY <2>1, <2>6, <1>6, <1>8
      <3>2. QED
        BY <2>1, <3>1, <1>1, <1>4, <1>8, DecomposedOK
    <2>7. QED
      BY <2>5, <2>6
  <1>11. row \in PlanRow
    <2>1. row.changes \in SUBSET [op : {"create", "update", "delete"},
                                  target : Paths \cup {None}, entity : Entities]
      BY <1>10
    <2>2. QED
      BY <2>1, <1>6, <1>7, <1>9 DEF PlanRow
  <1>12. RowOK(row, row.commit)
    BY <1>7, <1>10 DEF RowOK
  <1>13. QED
    BY <1>11, <1>12

LEMMA PlannedCovers ==
    ASSUME Recorded(history, owner), NEW l, NEW m,
           m.since = l.since, m.head = l.head, m.plan = Planned(l, Already)
    PROVE  Covered(m)
  <1> DEFINE walk == (l.since..l.head) \ Already
  <1>1. /\ DOMAIN history = 1..Len(history)
        /\ \A n \in 1..Len(history) : history[n].commit <= Newest /\ history[n].commit \in Entities
        /\ Newest \in Nat
    BY RecordedIs, Typed
  <1>2. SUFFICES ASSUME NEW n \in 1..Len(history), history[n].commit \in m.since..m.head,
                        ~Same(history[n]), rows[history[n].commit] = None
                 PROVE  \E row \in m.plan : row.commit = history[n].commit
    BY DEF Covered
  <1>3. history[n].commit \in walk
    BY <1>2 DEF Already
  <1>4. Decompose(PassOne(walk), n) \in Row1(l, walk, history[n].commit).changes
    BY <1>1, <1>2 DEF Row1
  <1>5. Row1(l, walk, history[n].commit) \in m.plan
    <2>1. walk = (l.since..l.head) \ Already
      OBVIOUS
    <2> HIDE DEF walk
    <2>2. QED
      BY <2>1, <1>3, <1>4, PlannedAre
  <1>6. Row1(l, walk, history[n].commit).commit = history[n].commit
    BY DEF Row1
  <1>7. QED
    BY <1>5, <1>6

-----------------------------------------------------------------------------
(* The invariant is inductive *)

\* A row that a run has written stays.
Written == \A k \in Entities : rows[k] # None => rows'[k] # None

LEMMA Still ==
    ASSUME Recorded(history, owner), UNCHANGED <<history, owner>>
    PROVE  Onward /\ Recorded(history', owner')
  <1>1. history \in Seq(Change) /\ Len(history) \in Nat
    BY RecordedIs
  <1>2. history' = history /\ owner' = owner
    OBVIOUS
  <1>3. Onward
    BY <1>1, <1>2 DEF Onward
  <1>4. QED
    BY <1>2, <1>3

LEMMA OthersOK ==
    ASSUME IInv, Onward, Recorded(history', owner'), Written,
           NEW r \in Procs, pc'[r] = pc[r], loc'[r] = loc[r]
    PROVE  RunOK(r)'
  <1>1. /\ Recorded(history, owner) /\ RunOK(r) /\ loc[r] \in Local
        /\ Newest \in Nat /\ Newest' \in Nat /\ Newest <= Newest'
    BY NewestGrows DEF IInv, TypeOK
  <1>2. PICK l : l = loc[r]
    OBVIOUS
  <1>3. loc'[r] = l /\ l \in Local /\ l.head \in Nat /\ l.plan \subseteq PlanRow
    BY <1>1, <1>2 DEF Local
  <1>4. ASSUME pc[r] # "idle" PROVE l.head <= Newest /\ l.head <= Newest'
    BY <1>1, <1>2, <1>3, <1>4 DEF RunOK
  <1>5. ASSUME pc[r] = "write"
        PROVE  Covered(l)' /\ \A row \in l.plan : RowOK(row, row.commit)'
    <2>1. Covered(l) /\ \A row \in l.plan : RowOK(row, row.commit)
      BY <1>1, <1>2, <1>5 DEF RunOK
    <2>2. Covered(l)'
      BY <2>1, <1>1, <1>3, <1>4, <1>5, CoveredStays DEF Written
    <2>3. ASSUME NEW row \in l.plan PROVE RowOK(row, row.commit)'
      <3>1. row \in PlanRow
        BY <1>3
      <3>2. row.head \in Nat
        BY <3>1 DEF PlanRow, Entities
      <3>3. QED
        BY <2>1, <3>2, <1>1, RowStays
    <2>4. QED
      BY <2>2, <2>3
  <1>6. QED
    BY <1>3, <1>4, <1>5 DEF RunOK, Covered

\* What is written stays true, whatever else is.
LEMMA RowsStayOK ==
    ASSUME IInv, Onward, Recorded(history', owner'), UNCHANGED rows
    PROVE  RowsOK'
  <1>1. SUFFICES ASSUME NEW k \in Entities, NEW row \in Row, rows'[k] = row
                 PROVE  RowOK(row, k)'
    BY DEF RowsOK
  <1>2. RowOK(row, k)
    BY <1>1 DEF IInv, RowsOK
  <1>3. row.head \in Nat
    BY DEF Row, Entities
  <1>4. QED
    BY <1>2, <1>3, RowStays DEF IInv

LEMMA ReplayedStays ==
    ASSUME IInv, Onward, Recorded(history', owner'), Written, UNCHANGED listed
    PROVE  HistoryReplayed'
  <1>1. /\ history \in Seq(Change) /\ Len(history) \in Nat /\ DOMAIN history = 1..Len(history)
        /\ \A n \in 1..Len(history) : history[n].commit \in Entities
        /\ Newest \in Nat /\ listed \subseteq Commits
    BY RecordedIs, Typed DEF IInv, TypeOK
  <1>2. Len(history') \in Nat /\ DOMAIN history' = 1..Len(history')
    BY Typed DEF Onward
  <1>3. SUFFICES ASSUME NEW n \in 1..Len(history'), history'[n].commit \in listed,
                        ~Same(history'[n])
                 PROVE  rows'[history'[n].commit] # None
    BY <1>2 DEF HistoryReplayed, Same
  <1>4. n \in 1..Len(history)
    <2>1. SUFFICES ASSUME n \notin 1..Len(history) PROVE FALSE
      OBVIOUS
    <2>2. n \in (Len(history) + 1)..Len(history')
      BY <2>1, <1>1, <1>2
    <2>3. history'[n].commit = Newest + 1
      BY <2>2 DEF Onward, Next1
    <2>4. QED
      BY <2>3, <1>1, <1>3 DEF Commits
  <1>5. history'[n] = history[n]
    BY <1>4 DEF Onward
  <1>6. rows[history[n].commit] # None
    BY <1>1, <1>3, <1>4, <1>5 DEF IInv, HistoryReplayed
  <1>7. QED
    BY <1>1, <1>4, <1>5, <1>6 DEF Written

LEMMA GotoIs ==
    ASSUME TypeOK, NEW r \in Procs, NEW point \in {"idle", "list", "write"}, NEW l \in Local,
           Goto(r, point, l)
    PROVE  /\ pc' \in [Procs -> {"idle", "list", "write"}] /\ loc' \in [Procs -> Local]
           /\ pc'[r] = point /\ loc'[r] = l
           /\ \A s \in Procs \ {r} : pc'[s] = pc[s] /\ loc'[s] = loc[s]
  BY DEF TypeOK, Goto

LEMMA NoLocalTyped == NoLocal \in Local
  BY ConstantsOK DEF NoLocal, Local, PlanRow

\* A step of one run that writes no row.
LEMMA RunStep ==
    ASSUME IInv, NEW r \in Procs, UNCHANGED <<history, owner, rows, listed>>,
           NEW point \in {"idle", "list", "write"}, NEW l \in Local, Goto(r, point, l),
           point # "idle" => l.head <= Newest,
           point = "write" => Covered(l) /\ \A row \in l.plan : RowOK(row, row.commit)
    PROVE  IInv'
  <1>1. TypeOK /\ Recorded(history, owner)
    BY DEF IInv
  <1>2. Onward /\ Recorded(history', owner')
    BY <1>1, Still
  <1>3. /\ pc' \in [Procs -> {"idle", "list", "write"}] /\ loc' \in [Procs -> Local]
        /\ pc'[r] = point /\ loc'[r] = l
        /\ \A s \in Procs \ {r} : pc'[s] = pc[s] /\ loc'[s] = loc[s]
    BY <1>1, GotoIs
  <1>4. Written
    BY DEF Written
  <1>5. Commits \subseteq Commits' /\ Newest \in Nat /\ Newest' \in Nat /\ Newest <= Newest'
    BY <1>1, <1>2, NewestGrows
  <1>6. TypeOK'
    BY <1>1, <1>3, <1>5 DEF TypeOK
  <1>7. RunOK(r)'
    <2>1. l.head \in Nat /\ l.plan \subseteq PlanRow
      BY DEF Local
    <2>2. point # "idle" => l.head <= Newest'
      BY <2>1, <1>5
    <2>3. point = "write" => Covered(l)'
      BY <2>1, <1>1, <1>2, <1>4, CoveredStays DEF Written
    <2>4. ASSUME point = "write", NEW row \in l.plan PROVE RowOK(row, row.commit)'
      <3>1. row.head \in Nat
        BY <2>1 DEF PlanRow, Entities
      <3>2. RowOK(row, row.commit)
        BY <2>4
      <3>3. QED
        BY <3>1, <3>2, <1>1, <1>2, RowStays
    <2>5. QED
      BY <2>2, <2>3, <2>4, <1>3 DEF RunOK, Covered
  <1>8. \A s \in Procs : RunOK(s)'
    BY <1>2, <1>3, <1>4, <1>7, OthersOK
  <1>9. QED
    BY <1>2, <1>4, <1>6, <1>8, RowsStayOK, ReplayedStays DEF IInv

LEMMA InitIInv == Init => IInv
  <1> SUFFICES ASSUME Init PROVE IInv
    OBVIOUS
  <1>1. /\ history = <<>> /\ owner = [p \in Paths |-> None] /\ rows = [k \in Entities |-> None]
        /\ pc = [r \in Procs |-> "idle"] /\ loc = [r \in Procs |-> NoLocal] /\ listed = {}
    BY DEF Init, Entities
  <1>2. history \in Seq(Change) /\ Len(history) = 0 /\ DOMAIN history = {}
    BY <1>1
  <1>3. Newest = 0
    BY <1>1 DEF Newest
  <1>4. TypeOK
    <2>1. rows \in [Entities -> Row \cup {None}]
      BY <1>1
    <2>2. loc \in [Procs -> Local]
      BY <1>1, NoLocalTyped
    <2>3. QED
      BY <2>1, <2>2, <1>1 DEF TypeOK
  <1>5. Recorded(history, owner)
    <2>1. PICK own : own = [n \in 0..0 |-> [p \in Paths |-> None]]
      OBVIOUS
    <2>2. own[0] = [p \in Paths |-> None] /\ own \in [0..0 -> [Paths -> Entities \cup {None}]]
      BY <2>1
    <2>3. \A n \in 0..0 : n = 0
      OBVIOUS
    <2>4. Holds(history, own)
      BY <1>2, <2>2, <2>3 DEF Holds
    <2>5. Ordered(history)
      BY <1>2 DEF Ordered
    <2>6. QED
      BY <1>1, <1>2, <2>2, <2>4, <2>5 DEF Recorded, Legal
  <1>6. RowsOK
    BY <1>1, NullsOK DEF RowsOK
  <1>7. \A r \in Procs : RunOK(r)
    BY <1>1 DEF RunOK
  <1>8. HistoryReplayed
    BY <1>2 DEF HistoryReplayed
  <1>9. QED
    BY <1>4, <1>5, <1>6, <1>7, <1>8 DEF IInv

LEMMA CommitIInv == ASSUME IInv, Commit PROVE IInv'
  <1>1. TypeOK /\ Recorded(history, owner)
    BY DEF IInv
  <1>2. Onward /\ Recorded(history', owner') /\ UNCHANGED <<rows, pc, loc, runs, listed>>
    BY <1>1, CommitRecorded
  <1>3. Written
    BY <1>2 DEF Written
  <1>4. TypeOK'
    BY <1>1, <1>2, NewestGrows DEF TypeOK
  <1>5. \A s \in Procs : RunOK(s)'
    BY <1>2, <1>3, OthersOK
  <1>6. QED
    BY <1>2, <1>3, <1>4, <1>5, RowsStayOK, ReplayedStays DEF IInv

LEMMA StartIInv == ASSUME IInv, NEW r \in Procs, Start(r) PROVE IInv'
  <1>1. Recorded(history, owner) /\ Newest \in 0..MaxCommits /\ Newest \in Nat
    BY RecordedIs DEF IInv
  <1>2. PICK since \in Commits, limit \in 0..1 :
           Goto(r, "list", [NoLocal EXCEPT !.head = Newest, !.since = since, !.limit = limit])
    BY DEF Start
  <1> DEFINE m == [NoLocal EXCEPT !.head = Newest, !.since = since, !.limit = limit]
  <1>3. NoLocal \in Local
    BY NoLocalTyped
  <1>4. since \in Nat \ {0}
    BY <1>1 DEF Commits
  <1>5. m \in Local /\ m.head = Newest
    <2>1. m \in Local
      BY <1>1, <1>3, <1>4 DEF Local
    <2>2. m.head = Newest
      BY <1>3 DEF Local
    <2>3. QED
      BY <2>1, <2>2
  <1> HIDE DEF m
  <1>6. PICK l \in Local : l = m
    BY <1>5
  <1>7. Goto(r, "list", l) /\ l.head <= Newest
    BY <1>1, <1>2, <1>5, <1>6 DEF m
  <1>8. UNCHANGED <<history, owner, rows, listed>>
    BY DEF Start
  <1>9. QED
    BY <1>7, <1>8, RunStep

LEMMA ListIInv == ASSUME IInv, NEW r \in Procs, List(r) PROVE IInv'
  <1>1. Recorded(history, owner) /\ loc[r] \in Local /\ RunOK(r) /\ pc[r] = "list"
    BY DEF IInv, TypeOK, List, At
  <1>2. PICK l : l = loc[r]
    OBVIOUS
  <1>3. l \in Local /\ l.head \in Nat /\ l.head <= Newest /\ l.since \in Nat \ {0}
    BY <1>1, <1>2 DEF Local, RunOK
  <1>4. PICK m : m = [l EXCEPT !.plan = Planned(l, Already)]
    OBVIOUS
  <1>5. /\ m.head = l.head /\ m.since = l.since /\ m.plan = Planned(l, Already)
        /\ m = [head |-> l.head, since |-> l.since, limit |-> l.limit, plan |-> Planned(l, Already)]
    BY <1>3, <1>4 DEF Local
  <1>6. \A row \in m.plan : row \in PlanRow /\ RowOK(row, row.commit)
    BY <1>1, <1>3, <1>5, PlannedOK
  <1>7. m \in Local
    BY <1>3, <1>5, <1>6 DEF Local
  <1>8. Covered(m)
    BY <1>1, <1>5, PlannedCovers
  <1>9. Goto(r, "write", m) /\ UNCHANGED <<history, owner, rows, listed>>
    BY <1>2, <1>4 DEF List
  <1>10. QED
    BY <1>3, <1>5, <1>6, <1>7, <1>8, <1>9, RunStep

LEMMA StopIInv == ASSUME IInv, NEW r \in Procs, Stop(r) PROVE IInv'
  <1>1. Goto(r, "idle", NoLocal) /\ UNCHANGED <<history, owner, rows, listed>>
    BY DEF Stop, Finish
  <1>2. QED
    BY <1>1, NoLocalTyped, RunStep

LEMMA CompleteIInv == ASSUME IInv, NEW r \in Procs, Complete(r) PROVE IInv'
  <1>1. TypeOK /\ Recorded(history, owner) /\ RunOK(r) /\ HistoryReplayed /\ loc[r] \in Local
    BY DEF IInv, TypeOK
  <1>2. /\ pc[r] = "write" /\ loc[r].plan = {} /\ Goto(r, "idle", NoLocal)
        /\ listed' = listed \cup (loc[r].since..loc[r].head)
        /\ UNCHANGED <<history, owner, rows>>
    BY DEF Complete, At, Finish
  <1>3. Onward /\ Recorded(history', owner')
    BY <1>1, <1>2, Still
  <1>4. Written
    BY <1>2 DEF Written
  <1>5. /\ pc' \in [Procs -> {"idle", "list", "write"}] /\ loc' \in [Procs -> Local]
        /\ pc'[r] = "idle" /\ loc'[r] = NoLocal
        /\ \A s \in Procs \ {r} : pc'[s] = pc[s] /\ loc'[s] = loc[s]
    BY <1>1, <1>2, NoLocalTyped, GotoIs
  <1>6. Commits \subseteq Commits' /\ Newest \in Nat
    BY <1>1, <1>3, NewestGrows
  <1>7. Covered(loc[r]) /\ loc[r].head <= Newest
    BY <1>1, <1>2 DEF RunOK
  <1>8. loc[r].since..loc[r].head \subseteq Commits
    BY <1>1, <1>6, <1>7 DEF Local, Commits
  <1>9. TypeOK'
    BY <1>1, <1>2, <1>5, <1>6, <1>8 DEF TypeOK
  <1>10. RunOK(r)'
    BY <1>5 DEF RunOK
  <1>11. \A s \in Procs : RunOK(s)'
    BY <1>3, <1>4, <1>5, <1>10, OthersOK
  <1>12. RowsOK'
    BY <1>2, <1>3, RowsStayOK
  <1>13. HistoryReplayed'
    <2>1. DOMAIN history = 1..Len(history)
      BY <1>1, RecordedIs, Typed
    <2>2. ASSUME NEW n \in DOMAIN history, history[n].commit \in listed', ~Same(history[n])
          PROVE  rows[history[n].commit] # None
      <3>1. CASE history[n].commit \in listed
        BY <3>1, <2>2, <1>1 DEF HistoryReplayed
      <3>2. CASE history[n].commit \in loc[r].since..loc[r].head
        BY <3>2, <2>1, <2>2, <1>2, <1>7 DEF Covered
      <3>3. QED
        BY <3>1, <3>2, <2>2, <1>2
    <2>3. QED
      BY <2>2, <1>2 DEF HistoryReplayed, Same
  <1>14. QED
    BY <1>3, <1>9, <1>11, <1>12, <1>13 DEF IInv

LEMMA WriteIInv == ASSUME IInv, NEW r \in Procs, Write(r) PROVE IInv'
  <1>1. TypeOK /\ Recorded(history, owner) /\ RunOK(r) /\ loc[r] \in Local
    BY DEF IInv, TypeOK
  <1>2. PICK l : l = loc[r]
    OBVIOUS
  <1>3. /\ l \in Local /\ l.head \in Nat /\ l.head <= Newest /\ Covered(l)
        /\ l.plan \subseteq PlanRow /\ pc[r] = "write"
        /\ \A row \in l.plan : RowOK(row, row.commit)
    BY <1>1, <1>2 DEF Local, RunOK, Write, At
  <1>4. UNCHANGED <<history, owner, listed>>
    BY DEF Write
  <1>5. PICK row \in l.plan :
           IF rows[row.commit] # None THEN Finish(r) /\ UNCHANGED rows
           ELSE /\ rows' = [rows EXCEPT ![row.commit] =
                              [changes |-> row.changes, head |-> row.head, from |-> row.from]]
                /\ IF l.limit = 1 THEN Finish(r)
                   ELSE Goto(r, "write", [l EXCEPT !.plan = @ \ {row}])
    BY <1>2 DEF Write
  <1>6. row \in PlanRow /\ row.commit \in Entities /\ RowOK(row, row.commit)
    BY <1>3, <1>5 DEF PlanRow
  <1>7. CASE rows[row.commit] # None
    <2>1. Goto(r, "idle", NoLocal) /\ UNCHANGED rows
      BY <1>5, <1>7 DEF Finish
    <2>2. QED
      BY <2>1, <1>4, NoLocalTyped, RunStep
  <1>8. CASE rows[row.commit] = None
    <2>1. PICK new : new = [changes |-> row.changes, head |-> row.head, from |-> row.from]
      OBVIOUS
    <2>2. new \in Row /\ new # None
      BY <2>1, <1>6, NullsOK DEF PlanRow, Row
    <2>3. rows' = [rows EXCEPT ![row.commit] = new]
      BY <2>1, <1>5, <1>8
    <2>4. /\ rows' \in [Entities -> Row \cup {None}] /\ rows'[row.commit] = new
          /\ \A k \in Entities \ {row.commit} : rows'[k] = rows[k]
      BY <2>2, <2>3, <1>1, <1>6 DEF TypeOK
    <2>5. Written
      BY <2>2, <2>4 DEF Written
    <2>6. PICK m : m = [l EXCEPT !.plan = @ \ {row}]
      OBVIOUS
    <2>7. /\ m.head = l.head /\ m.since = l.since /\ m.plan = l.plan \ {row}
          /\ m = [head |-> l.head, since |-> l.since, limit |-> l.limit, plan |-> l.plan \ {row}]
      BY <2>6, <1>3 DEF Local
    <2>8. m \in Local
      BY <2>7, <1>3 DEF Local
    <2>9. Onward /\ Recorded(history', owner')
      BY <1>1, <1>4, Still
    <2>10. Finish(r) \/ Goto(r, "write", m)
      BY <2>6, <1>5, <1>8
    <2>11. /\ pc' \in [Procs -> {"idle", "list", "write"}] /\ loc' \in [Procs -> Local]
           /\ pc'[r] = "idle" \/ (pc'[r] = "write" /\ loc'[r] = m)
           /\ \A s \in Procs \ {r} : pc'[s] = pc[s] /\ loc'[s] = loc[s]
      BY <2>8, <2>10, <1>1, NoLocalTyped, GotoIs DEF Finish
    <2>12. /\ Commits \subseteq Commits' /\ Newest \in Nat /\ Newest' \in Nat /\ Newest <= Newest'
      BY <2>9, <1>1, NewestGrows
    <2>13. TypeOK'
      BY <2>4, <2>11, <2>12, <1>1, <1>4 DEF TypeOK
    <2>14. RunOK(r)'
      <3>1. CASE pc'[r] = "idle"
        BY <3>1 DEF RunOK
      <3>2. CASE pc'[r] = "write" /\ loc'[r] = m
        <4>1. m.head <= Newest'
          BY <2>7, <2>12, <1>3
        <4>2. \A other \in l.plan : other \in m.plan \/ rows'[other.commit] # None
          BY <2>2, <2>4, <2>7
        <4>3. Covered(m)'
          BY <4>2, <2>5, <2>7, <2>9, <1>1, <1>3, CoveredStays DEF Written
        <4>4. ASSUME NEW other \in m.plan PROVE RowOK(other, other.commit)'
          <5>1. other \in PlanRow /\ RowOK(other, other.commit)
            BY <2>7, <1>3
          <5>2. other.head \in Nat
            BY <5>1 DEF PlanRow, Entities
          <5>3. QED
            BY <5>1, <5>2, <2>9, <1>1, RowStays
        <4>5. QED
          BY <4>1, <4>3, <4>4, <3>2 DEF RunOK, Covered
      <3>3. QED
        BY <3>1, <3>2, <2>11
    <2>15. \A s \in Procs : RunOK(s)'
      BY <2>5, <2>9, <2>11, <2>14, OthersOK
    <2>16. RowsOK'
      <3>1. SUFFICES ASSUME NEW k \in Entities, NEW other \in Row, rows'[k] = other
                     PROVE  RowOK(other, k)'
        BY DEF RowsOK
      <3>2. other.head \in Nat
        BY DEF Row, Entities
      <3>3. RowOK(other, k)
        <4>1. CASE k = row.commit
          <5>1. other = new /\ other.changes = row.changes /\ other.head = row.head
                /\ other.from = row.from
            BY <4>1, <3>1, <2>1, <2>4
          <5>2. QED
            BY <5>1, <4>1, <1>6 DEF RowOK
        <4>2. CASE k # row.commit
          BY <4>2, <3>1, <2>4 DEF IInv, RowsOK
        <4>3. QED
          BY <4>1, <4>2
      <3>4. QED
        BY <3>2, <3>3, <2>9, <1>1, RowStays
    <2>17. HistoryReplayed'
      BY <2>5, <2>9, <1>4, ReplayedStays
    <2>18. QED
      BY <2>9, <2>13, <2>15, <2>16, <2>17 DEF IInv
  <1>9. QED
    BY <1>7, <1>8

LEMMA NextIInv == IInv /\ [Next]_vars => IInv'
  <1> SUFFICES ASSUME IInv, [Next]_vars PROVE IInv'
    OBVIOUS
  <1>1. CASE Commit
    BY <1>1, CommitIInv
  <1>2. ASSUME NEW r \in Procs, Run(r) PROVE IInv'
    <2>1. CASE Start(r)
      BY <2>1, StartIInv
    <2>2. CASE List(r)
      BY <2>2, ListIInv
    <2>3. CASE Write(r)
      BY <2>3, WriteIInv
    <2>4. CASE Complete(r)
      BY <2>4, CompleteIInv
    <2>5. CASE Stop(r)
      BY <2>5, StopIInv
    <2>6. QED
      BY <1>2, <2>1, <2>2, <2>3, <2>4, <2>5 DEF Run
  <1>3. CASE UNCHANGED vars
    <2>1. UNCHANGED <<history, owner, rows, pc, loc, listed>>
      BY <1>3 DEF vars
    <2>2. TypeOK /\ Recorded(history, owner)
      BY DEF IInv
    <2>3. Onward /\ Recorded(history', owner')
      BY <2>1, <2>2, Still
    <2>4. Written
      BY <2>1 DEF Written
    <2>5. TypeOK'
      BY <2>1, <2>2, <2>3, NewestGrows DEF TypeOK
    <2>6. \A s \in Procs : RunOK(s)'
      BY <2>1, <2>3, <2>4, OthersOK
    <2>7. QED
      BY <2>1, <2>3, <2>4, <2>5, <2>6, RowsStayOK, ReplayedStays DEF IInv
  <1>4. QED
    BY <1>1, <1>2, <1>3 DEF Next

\* However people commit and runs overlap, stop and fail: the history is one git can show, what
\* a run has planned covers what it has listed, and rows, planned or written, are named from
\* the walk they were made in.
THEOREM Invariance == Spec => []IInv
  <1>1. Init => IInv
    BY InitIInv
  <1>2. IInv /\ [Next]_vars => IInv'
    BY NextIInv
  <1>3. QED
    BY <1>1, <1>2, PTL DEF Spec

-----------------------------------------------------------------------------
(* What follows *)

LEMMA NamingIs ==
    ASSUME DOMAIN history = 1..Len(history), Len(history) \in Nat,
           NEW e, NEW head, NEW x, LastCalled(history, e, head, x)
    PROVE  Naming(e, head) = history[x]
  <1>1. x \in Named(e, head) /\ \A m \in Named(e, head) : m <= x
    BY DEF LastCalled, Named
  <1>2. \A m \in Named(e, head) : m \in Nat
    BY DEF Named
  <1>3. ASSUME NEW n \in Named(e, head), \A m \in Named(e, head) : m <= n PROVE n = x
    <2>1. n <= x /\ x <= n /\ n \in Nat /\ x \in Nat
      BY <1>1, <1>2, <1>3
    <2>2. QED
      BY <2>1
  <1>4. (CHOOSE n \in Named(e, head) : \A m \in Named(e, head) : m <= n) = x
    BY <1>1, <1>3
  <1>5. QED
    BY <1>4 DEF Naming

LEMMA NamesFollow == IInv => RowsNameLast
  <1> SUFFICES ASSUME IInv, NEW k \in Commits, rows[k] # None, rows[k].from <= k,
                      NEW c \in rows[k].changes
               PROVE  /\ c.entity \notin Copied(k, rows[k].head) /\ c.target # None =>
                            c.target = Naming(c.entity, rows[k].head).new
                      /\ c.target = None =>
                            /\ c.op = "delete"
                            /\ \/ Naming(c.entity, rows[k].head).commit < rows[k].from
                               \/ c.entity \in Copied(rows[k].from, rows[k].head)
    BY DEF RowsNameLast
  <1>1. /\ Len(history) \in Nat /\ DOMAIN history = 1..Len(history) /\ Newest \in 0..MaxCommits
    BY RecordedIs, Typed DEF IInv
  <1>2. k \in Entities
    BY <1>1, ConstantsOK DEF Commits, Entities
  <1>3. PICK row : row = rows[k]
    OBVIOUS
  <1>4. row \in Row
    BY <1>2, <1>3 DEF IInv, TypeOK
  <1>5. RowOK(row, k)
    BY <1>2, <1>3, <1>4 DEF IInv, RowsOK
  <1>6. ChangeOK(c, k, row.head, row.from)
    BY <1>3, <1>5 DEF RowOK
  <1>7. ASSUME c.entity \notin Copied(k, row.head), c.target # None
        PROVE  c.target = Naming(c.entity, row.head).new
    <2>1. PICK x \in 1..Len(history) :
             LastCalled(history, c.entity, row.head, x) /\ c.target = history[x].new
      BY <1>6, <1>7 DEF ChangeOK
    <2>2. Naming(c.entity, row.head) = history[x]
      BY <2>1, <1>1, NamingIs
    <2>3. QED
      BY <2>1, <2>2
  <1>8. ASSUME c.target = None
        PROVE  /\ c.op = "delete"
               /\ \/ Naming(c.entity, row.head).commit < row.from
                  \/ c.entity \in Copied(row.from, row.head)
    <2>1. PICK x \in 1..Len(history) :
             /\ LastCalled(history, c.entity, row.head, x)
             /\ history[x].commit < row.from \/ c.entity \in Copied(row.from, row.head)
      BY <1>6, <1>8 DEF ChangeOK
    <2>2. Naming(c.entity, row.head) = history[x]
      BY <2>1, <1>1, NamingIs
    <2>3. QED
      BY <2>1, <2>2, <1>6, <1>8 DEF ChangeOK
  <1>9. QED
    BY <1>3, <1>7, <1>8

\* Whatever runs were cut short, fail or go on beside each other while people commit: a commit
\* that some run through to its end had listed has its row, unless it changed nothing.
THEOREM Replayed == Spec => []HistoryReplayed
  <1>1. IInv => HistoryReplayed
    BY DEF IInv
  <1>2. QED
    BY <1>1, Invariance, PTL

\* A row, once written, names each entity as the last rename its run had listed has left it, for
\* all commits that come later and all runs beside it; where it cannot, the run had skipped the
\* commit with the name or the file was copied.
THEOREM NamedAsLast == Spec => []RowsNameLast
  <1>1. QED
    BY NamesFollow, Invariance, PTL
=============================================================================
