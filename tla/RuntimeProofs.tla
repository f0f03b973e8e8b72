--------------------------- MODULE RuntimeProofs ---------------------------
(***************************************************************************)
(* What every module has in it: its entry, the division and the printing.   *)
(* A module that is loaded and gives up leaves nothing, however many are    *)
(* loaded (include/iopmod/mod.h); the division is exact for words of any    *)
(* number of bits (builtin/__udivmoddi4.c); what is printed is cut where    *)
(* the buffer ends, whatever the format (builtin/vsnprintf.c).              *)
(***************************************************************************)
EXTENDS ModuleInit, Udivmod, Vsnprintf, FiniteSetTheorems, WellFoundedInduction, TLAPS

----------------------------------------------------------------------------
(* Numbers                                                                  *)

\* A set of numbers that is not empty has a least one.
LEMMA Least ==
    ASSUME NEW T \in SUBSET Nat, T # {}
    PROVE  \E m \in T : \A k \in T : m <= k
<1>. DEFINE R == OpToRel(<, Nat)
<1>1. IsWellFoundedOn(R, Nat)
  BY NatLessThanWellFounded
<1>2. R = {ss \in Nat \X Nat : ss[1] < ss[2]}
  BY DEF OpToRel
<1>. HIDE DEF R
<1>3. PICK m \in T : \A k \in T : ~ (<<k, m>> \in R)
  BY <1>1, WFMin
<1>4. ASSUME NEW k \in T PROVE m <= k
  <2>1. m \in Nat /\ k \in Nat
    OBVIOUS
  <2>2. ~ (<<k, m>> \in {ss \in Nat \X Nat : ss[1] < ss[2]})
    BY <1>3, <1>2
  <2> QED BY <2>1, <2>2
<1> QED BY <1>4

\* Induction over the numbers of a set.
LEMMA Induction ==
    ASSUME NEW S, 0 \in S, \A i \in Nat : i \in S => i + 1 \in S
    PROVE  Nat \subseteq S
<1>. SUFFICES ASSUME Nat \ S # {} PROVE FALSE
  OBVIOUS
<1>1. PICK m \in Nat \ S : \A k \in Nat \ S : m <= k
  BY Least
<1>2. m - 1 \in Nat /\ m - 1 \in S
  BY <1>1
<1> QED BY <1>2

\* A function whose next value a step makes of the one before.
Follows(f, a, step) == f[0] = a /\ \A k \in Nat : f[k + 1] = step[k][f[k]]

\* There is one: its values up to a number are those of a function of finitely
\* many, which there is, and only one.
LEMMA Recursion ==
    ASSUME NEW A, NEW a \in A, NEW step \in [Nat -> [A -> A]]
    PROVE  \E f \in [Nat -> A] : Follows(f, a, step)
<1>. DEFINE Upto(g, i) == g[0] = a /\ \A k \in 0 .. i - 1 : g[k + 1] = step[k][g[k]]
            S == {i \in Nat : \E g \in [0 .. i -> A] : Upto(g, i)}
<1>1. Nat \subseteq S
  <2>1. 0 \in S
    <3>1. [k \in 0 .. 0 |-> a] \in [0 .. 0 -> A] /\ Upto([k \in 0 .. 0 |-> a], 0)
      OBVIOUS
    <3> QED BY <3>1
  <2>2. ASSUME NEW i \in Nat, i \in S PROVE i + 1 \in S
    <3>1. PICK g \in [0 .. i -> A] : Upto(g, i)
      BY <2>2
    <3>. DEFINE h == [k \in 0 .. i + 1 |-> IF k = i + 1 THEN step[i][g[i]] ELSE g[k]]
    <3>2. h \in [0 .. i + 1 -> A]
      <4>1. g[i] \in A /\ step[i] \in [A -> A]
        OBVIOUS
      <4> QED BY <4>1
    <3>3. h[i + 1] = step[i][h[i]] /\ \A k \in 0 .. i : h[k] = g[k]
      OBVIOUS
    <3>. HIDE DEF h
    <3>4. Upto(h, i + 1)
      <4>1. h[0] = a
        BY <3>1, <3>3
      <4>2. ASSUME NEW k \in 0 .. i PROVE h[k + 1] = step[k][h[k]]
        <5>1. CASE k = i
          BY <5>1, <3>3
        <5>2. CASE k # i
          <6>1. k \in 0 .. i - 1 /\ k + 1 \in 0 .. i /\ k \in 0 .. i
            BY <5>2
          <6>2. g[k + 1] = step[k][g[k]]
            BY <6>1, <3>1
          <6> QED BY <6>1, <6>2, <3>3
        <5> QED BY <5>1, <5>2
      <4>3. \A k \in 0 .. (i + 1) - 1 : h[k + 1] = step[k][h[k]]
        BY <4>2
      <4> QED BY <4>1, <4>3
    <3>. HIDE DEF Upto
    <3> QED BY <3>2, <3>4
  <2>. HIDE DEF S
  <2> QED BY <2>1, <2>2, Induction
<1>2. ASSUME NEW i \in Nat, NEW g, NEW h, Upto(g, i), Upto(h, i), NEW j \in 0 .. i
      PROVE  g[j] = h[j]
  <2>. DEFINE E == {k \in Nat : k <= i => g[k] = h[k]}
  <2>1. 0 \in E
    BY <1>2
  <2>2. ASSUME NEW k \in Nat, k \in E PROVE k + 1 \in E
    <3>. SUFFICES ASSUME k + 1 <= i PROVE g[k + 1] = h[k + 1]
      OBVIOUS
    <3>1. k \in 0 .. i - 1 /\ g[k] = h[k]
      BY <2>2
    <3> QED BY <3>1, <1>2
  <2>. HIDE DEF E
  <2>3. Nat \subseteq E
    BY <2>1, <2>2, Induction
  <2> QED BY <2>3 DEF E
<1>. DEFINE G(i) == CHOOSE g \in [0 .. i -> A] : Upto(g, i)
            f == [i \in Nat |-> G(i)[i]]
<1>3. \A i \in Nat : G(i) \in [0 .. i -> A] /\ Upto(G(i), i)
  <2>. TAKE i \in Nat
  <2>1. \E g \in [0 .. i -> A] : Upto(g, i)
    BY <1>1
  <2>. HIDE DEF Upto
  <2> QED BY <2>1
<1>4. f \in [Nat -> A]
  <2>. HIDE DEF G
  <2>1. \A i \in Nat : G(i)[i] \in A
    BY <1>3
  <2> QED BY <2>1
<1>5. f[0] = a
  <2>. HIDE DEF G
  <2> QED BY <1>3
<1>6. ASSUME NEW k \in Nat PROVE f[k + 1] = step[k][f[k]]
  <2>. HIDE DEF G
  <2>1. Upto(G(k), k) /\ Upto(G(k + 1), k + 1)
    BY <1>3
  <2>2. Upto(G(k + 1), k)
    BY <2>1
  <2>3. G(k + 1)[k] = G(k)[k]
    <3>. HIDE DEF Upto
    <3> QED BY <2>1, <2>2, <1>2
  <2>4. G(k + 1)[k + 1] = step[k][G(k + 1)[k]]
    BY <2>1
  <2> QED BY <2>3, <2>4
<1>. HIDE DEF f
<1> QED BY <1>4, <1>5, <1>6 DEF Follows

\* The powers of a base are a function.
LEMMA PowersAre ==
    ASSUME NEW b \in Nat \ {0}
    PROVE  \E f \in [Nat -> Nat \ {0}] : f[0] = 1 /\ \A k \in Nat : f[k + 1] = b * f[k]
<1>. DEFINE A == Nat \ {0}
            step == [k \in Nat |-> [x \in A |-> b * x]]
<1>1. \A x \in A : b * x \in A
  OBVIOUS
<1>2. step \in [Nat -> [A -> A]]
  BY <1>1
<1>3. 1 \in A /\ \A k \in Nat, x \in A : step[k][x] = b * x
  OBVIOUS
<1>. HIDE DEF A, step
<1>4. PICK f \in [Nat -> A] : f[0] = 1 /\ \A k \in Nat : f[k + 1] = step[k][f[k]]
  <2>1. ASSUME NEW a \in A, NEW st \in [Nat -> [A -> A]]
        PROVE  \E f \in [Nat -> A] : Follows(f, a, st)
    BY Recursion
  <2>2. \E f \in [Nat -> A] : Follows(f, 1, step)
    BY <1>2, <1>3, <2>1
  <2> QED BY <2>2 DEF Follows
<1>5. \A k \in Nat : f[k + 1] = b * f[k]
  <2>. TAKE k \in Nat
  <2>1. f[k] \in A /\ f[k + 1] = step[k][f[k]]
    BY <1>4
  <2> QED BY <1>3, <2>1
<1> QED BY <1>4, <1>5 DEF A

----------------------------------------------------------------------------
(* Modules that are loaded                                                  *)

\* The places where a module has been loaded and has not become resident.
Loading == {"init", "start", "exit"}

\* What the ladders lack: these stay with a module that gives up.
Kept(m) == CASE m = "gamepad" -> {"irq"} [] m = "ata" -> {"dev9"} [] OTHER -> {}

\* What the rungs below one have given.
Below(m, r) == {Ladder[m][k] : k \in 1 .. r - 1}

Things == {"dev9", "irq", "thread", "sema", "run", "command", "queue", "rpc"}

OneAtATime ==
    \A m, k \in Modules : phase[m] \in Loading /\ phase[k] \in Loading => m = k

\* A library is that of a module that is there.
LibrariesAreThere ==
    \A m \in libraries : m \in Modules /\ phase[m] \in {"start", "exit", "resident"}

\* A module that is started has what the rungs behind it gave, and what an
\* earlier load of it has left.
RungsGive ==
    \A m \in Modules :
        /\ phase[m] \in {"out", "init", "exit"} => held[m] \subseteq Kept(m)
        /\ phase[m] = "init" => rung = 1
        /\ phase[m] = "start" => /\ rung \in 1 .. Len(Ladder[m]) + 1
                                 /\ held[m] \subseteq Kept(m) \cup Below(m, rung)

ModInv ==
    /\ ModTypeOK /\ held \in [Modules -> SUBSET Things]
    /\ OneAtATime /\ LibrariesAreThere /\ RungsGive
    /\ ImportsStay /\ UsesAreCounted

----------------------------------------------------------------------------
(* Ladders                                                                  *)

LEMMA Rungs ==
    /\ Ladder["ata"] = <<"dev9", "thread", "sema", "run", "command">>
    /\ Ladder["gamepad"] = <<"irq", "thread", "sema", "run">>
    /\ Ladder["irqrelay"] = <<"thread", "queue", "rpc", "run">>
    /\ Ladder["driver"] = <<"dev9", "thread">>
    /\ \A m \in Modules \ {"ata", "gamepad", "irqrelay", "driver"} : Ladder[m] = <<>>
  BY DEF Ladder, Modules, ata_init, gamepad_init, irqrelay_init, driver_init

\* When a call fails, what the rungs below have given is given back, but for what
\* the ladders lack.
LEMMA LaddersUndo ==
    ASSUME NEW m \in Modules, NEW r \in 1 .. Len(Ladder[m]),
           Ladder[m][r] \notin CannotFail \cup {"dev9"}
    PROVE  (Kept(m) \cup Below(m, r)) \ Undone(m, Ladder[m][r]) \subseteq Kept(m)
<1>. USE Rungs DEF Below, Kept, Undone, CannotFail
<1>1. CASE m = "ata"
  <2>1. r \in {2, 3, 4}
    <3>1. Ladder[m] = <<"dev9", "thread", "sema", "run", "command">>
      BY <1>1
    <3>2. r \in {1, 2, 3, 4, 5}
      BY <3>1
    <3> QED BY <3>1, <3>2
  <2>2. CASE r = 2
    BY <1>1, <2>2
  <2>3. CASE r = 3
    BY <1>1, <2>3
  <2>4. CASE r = 4
    BY <1>1, <2>4
  <2> QED BY <2>1, <2>2, <2>3, <2>4
<1>2. CASE m = "gamepad"
  <2>1. r \in {1, 2, 3, 4}
    BY <1>2
  <2>2. CASE r = 1
    BY <1>2, <2>2
  <2>3. CASE r = 2
    BY <1>2, <2>3
  <2>4. CASE r = 3
    BY <1>2, <2>4
  <2>5. CASE r = 4
    BY <1>2, <2>5
  <2> QED BY <2>1, <2>2, <2>3, <2>4, <2>5
<1>3. CASE m = "irqrelay"
  <2>1. r \in {1, 4}
    BY <1>3
  <2>2. CASE r = 1
    BY <1>3, <2>2
  <2>3. CASE r = 4
    BY <1>3, <2>3
  <2> QED BY <2>1, <2>2, <2>3
<1>4. CASE m = "driver"
  <2>1. r = 2
    BY <1>4
  <2> QED BY <1>4, <2>1
<1>5. CASE m \notin {"ata", "gamepad", "irqrelay", "driver"}
  BY <1>5
<1> QED BY <1>1, <1>2, <1>3, <1>4, <1>5

LEMMA RungsAreThings ==
    ASSUME NEW m \in Modules, NEW r \in 1 .. Len(Ladder[m])
    PROVE  /\ Ladder[m][r] \in Things /\ Range(Ladder[m]) \subseteq Things
           /\ Ladder[m][r] \in Range(Ladder[m])
<1>. USE Rungs DEF Things, Range
<1>1. CASE m = "ata"
  <2>1. Ladder[m] = <<"dev9", "thread", "sema", "run", "command">>
    BY <1>1
  <2>2. r \in {1, 2, 3, 4, 5}
    BY <2>1
  <2> QED BY <2>1, <2>2
<1>2. CASE m = "gamepad"
  BY <1>2
<1>3. CASE m = "irqrelay"
  BY <1>3
<1>4. CASE m = "driver"
  BY <1>4
<1>5. CASE m \notin {"ata", "gamepad", "irqrelay", "driver"}
  BY <1>5
<1> QED BY <1>1, <1>2, <1>3, <1>4, <1>5

----------------------------------------------------------------------------
(* Steps of modules that are loaded                                         *)

\* Changing what one module has changes the number of those that use the DEV9
\* by whether it does.
Users(h) == {m \in Modules : "dev9" \in h[m]}

LEMMA UsersChange ==
    ASSUME NEW h \in [Modules -> SUBSET Things], NEW m \in Modules, NEW s \in SUBSET Things
    PROVE  LET g == [h EXCEPT ![m] = s]
           IN  /\ Cardinality(Users(h)) \in Nat
               /\ Cardinality(Users(g)) =
                      Cardinality(Users(h)) - (IF "dev9" \in h[m] THEN 1 ELSE 0)
                                            + (IF "dev9" \in s THEN 1 ELSE 0)
               /\ "dev9" \in h[m] => Cardinality(Users(h)) > 0
<1>. DEFINE g == [h EXCEPT ![m] = s]
            rest == Users(h) \ {m}
<1>1. IsFiniteSet(Modules)
  <2>1. Modules = {"irq", "printk", "dev9", "irqrelay"} \cup {"gamepad", "ata", "driver", "client"}
    BY DEF Modules
  <2>2. IsFiniteSet({"irq"} \cup {"printk"} \cup {"dev9"} \cup {"irqrelay"}
                    \cup {"gamepad"} \cup {"ata"} \cup {"driver"} \cup {"client"})
    BY FS_Singleton, FS_Union
  <2> QED BY <2>1, <2>2
<1>2. IsFiniteSet(Users(h)) /\ IsFiniteSet(rest) /\ Cardinality(rest) \in Nat
  <2>1. Users(h) \subseteq Modules /\ rest \subseteq Modules
    BY DEF Users
  <2> QED BY <1>1, <2>1, FS_Subset, FS_CardinalityType
<1>3. Cardinality(Users(h)) = Cardinality(rest) + IF "dev9" \in h[m] THEN 1 ELSE 0
  <2>1. CASE "dev9" \in h[m]
    <3>1. m \in Users(h)
      BY <2>1 DEF Users
    <3>2. Cardinality(rest) = Cardinality(Users(h)) - 1 /\ Cardinality(Users(h)) \in Nat
      BY <1>2, <3>1, FS_RemoveElement, FS_CardinalityType
    <3> QED BY <2>1, <3>2
  <2>2. CASE "dev9" \notin h[m]
    <3>1. rest = Users(h)
      BY <2>2 DEF Users
    <3>2. Cardinality(rest) = Cardinality(Users(h)) /\ Cardinality(rest) \in Nat
      BY <1>2, <3>1
    <3>. HIDE DEF rest
    <3> QED BY <2>2, <3>2
  <2> QED BY <2>1, <2>2
<1>4. Cardinality(Users(g)) = Cardinality(rest) + IF "dev9" \in s THEN 1 ELSE 0
  <2>1. CASE "dev9" \in s
    <3>1. Users(g) = rest \cup {m} /\ m \notin rest
      BY <2>1 DEF Users
    <3>2. Cardinality(rest \cup {m}) = Cardinality(rest) + 1
      BY <1>2, <3>1, FS_AddElement
    <3> QED BY <2>1, <3>1, <3>2
  <2>2. CASE "dev9" \notin s
    <3>1. Users(g) = rest
      BY <2>2 DEF Users
    <3>2. Cardinality(Users(g)) = Cardinality(rest) /\ Cardinality(rest) \in Nat
      BY <1>2, <3>1
    <3>. HIDE DEF rest, g
    <3> QED BY <2>2, <3>2
  <2> QED BY <2>1, <2>2
<1>. HIDE DEF rest, g
<1>5. Cardinality(Users(h)) \in Nat /\ ("dev9" \in h[m] => Cardinality(Users(h)) > 0)
  BY <1>2, <1>3
<1> QED BY <1>2, <1>3, <1>4, <1>5 DEF g

LEMMA ImportsAreModules == \A m \in Modules : Imports[m] \subseteq Modules \ {m}
  BY DEF Imports, Modules

\* Where the module that is loaded goes: the others stay.
LEMMA Goes ==
    ASSUME ModInv, NEW m \in Modules, phase[m] \in Loading,
           NEW ph \in {"init", "start", "exit", "resident", "out"}, To(m, ph)
    PROVE  /\ phase' \in [Modules -> {"out", "init", "start", "exit", "resident"}]
           /\ phase'[m] = ph
           /\ \A k \in Modules \ {m} : phase'[k] = phase[k] /\ phase[k] \in {"out", "resident"}
           /\ OneAtATime' /\ ImportsStay'
<1>1. /\ phase' \in [Modules -> {"out", "init", "start", "exit", "resident"}]
      /\ phase'[m] = ph
      /\ \A k \in Modules \ {m} : phase'[k] = phase[k]
  BY DEF To, ModInv, ModTypeOK
<1>2. \A k \in Modules \ {m} : phase[k] \in {"out", "resident"}
  BY DEF ModInv, ModTypeOK, OneAtATime, Loading
<1>3. OneAtATime'
  BY <1>1, <1>2 DEF OneAtATime, Loading
<1>4. ImportsStay'
  <2>. SUFFICES ASSUME NEW k \in Modules, phase'[k] # "out", NEW i \in Imports[k]
                PROVE  phase'[i] = "resident"
    BY DEF ImportsStay
  <2>1. phase[k] # "out" /\ i \in Modules
    BY <1>1, ImportsAreModules DEF Loading
  <2>2. phase[i] = "resident" /\ i # m
    BY <2>1 DEF ModInv, ImportsStay, Loading
  <2> QED BY <1>1, <2>1, <2>2
<1> QED BY <1>1, <1>2, <1>3, <1>4

\* A module is linked with libraries of modules that are resident, for nothing
\* else is loaded.
LEMMA LoadStep ==
    ASSUME ModInv, NEW m \in Modules, Load(m)
    PROVE  ModInv'
<1>1. /\ phase[m] = "out" /\ To(m, "init") /\ rung' = 1 /\ loads' = loads + 1
      /\ Imports[m] \subseteq libraries
      /\ \A k \in Modules : phase[k] \in {"out", "resident"}
      /\ UNCHANGED <<libraries, dev9_use_count, bus>>
  BY DEF Load
<1>2. /\ phase' \in [Modules -> {"out", "init", "start", "exit", "resident"}]
      /\ phase'[m] = "init"
      /\ \A k \in Modules \ {m} : phase'[k] = phase[k]
  BY <1>1 DEF To, ModInv, ModTypeOK
<1>3. PICK s \in SUBSET Things : s = held[m] \ {"dev9"} /\ held' = [held EXCEPT ![m] = s]
  BY DEF Load, ModInv
<1>4. /\ held' \in [Modules -> SUBSET Things]
      /\ held'[m] = held[m] \ {"dev9"} /\ \A k \in Modules \ {m} : held'[k] = held[k]
  BY <1>3 DEF ModInv
<1>5. lost' = lost + IF "dev9" \in held[m] THEN 1 ELSE 0
  <2>1. lost' = lost + Cardinality(held[m] \cap {"dev9"})
    BY DEF Load
  <2>2. CASE "dev9" \in held[m]
    <3>1. held[m] \cap {"dev9"} = {"dev9"} /\ Cardinality({"dev9"}) = 1
      BY <2>2, FS_Singleton
    <3> QED BY <2>1, <2>2, <3>1
  <2>3. CASE "dev9" \notin held[m]
    <3>1. held[m] \cap {"dev9"} = {} /\ Cardinality({}) = 0
      BY <2>3, FS_EmptySet
    <3> QED BY <2>1, <2>3, <3>1
  <2> QED BY <2>2, <2>3
<1>6. ModTypeOK'
  <2>1. {lost', dev9_use_count', rung', loads'} \subseteq Nat
    BY <1>1, <1>5 DEF ModInv, ModTypeOK
  <2> QED BY <1>1, <1>2, <1>4, <2>1 DEF ModInv, ModTypeOK
<1>7. OneAtATime'
  BY <1>1, <1>2 DEF OneAtATime, Loading
<1>8. LibrariesAreThere'
  BY <1>1, <1>2 DEF ModInv, LibrariesAreThere
<1>9. RungsGive'
  BY <1>1, <1>2, <1>4 DEF ModInv, RungsGive
<1>10. ImportsStay'
  <2>. SUFFICES ASSUME NEW k \in Modules, phase'[k] # "out", NEW i \in Imports[k]
                PROVE  phase'[i] = "resident"
    BY DEF ImportsStay
  <2>1. i \in Modules /\ (k = m => i # m)
    BY ImportsAreModules
  <2>2. phase[i] = "resident"
    <3>1. CASE k = m
      BY <1>1, <2>1, <3>1 DEF ModInv, LibrariesAreThere
    <3>2. CASE k # m
      BY <1>2, <3>2 DEF ModInv, ImportsStay
    <3> QED BY <3>1, <3>2
  <2> QED BY <1>1, <1>2, <2>1, <2>2
<1>11. UsesAreCounted'
  <2>1. /\ Cardinality(Users(held)) \in Nat
        /\ Cardinality(Users(held')) = Cardinality(Users(held)) - (IF "dev9" \in held[m] THEN 1 ELSE 0)
                                                                + (IF "dev9" \in s THEN 1 ELSE 0)
    BY <1>3, UsersChange DEF ModInv
  <2>2. dev9_use_count = lost + Cardinality(Users(held)) /\ (dev9_use_count > 0 => bus)
    BY DEF ModInv, UsesAreCounted, Users
  <2>3. dev9_use_count' = lost' + Cardinality(Users(held'))
    BY <1>1, <1>3, <1>5, <2>1, <2>2 DEF ModInv, ModTypeOK
  <2> QED BY <1>1, <2>2, <2>3 DEF UsesAreCounted, Users
<1> QED BY <1>4, <1>6, <1>7, <1>8, <1>9, <1>10, <1>11 DEF ModInv

\* Steps of _module_init that obtain nothing.
LEMMA EntryStep ==
    ASSUME ModInv, NEW m \in Modules,
           loadcore_register_library(m) \/ NoLibrary(m) \/ Resident(m) \/ Exit(m)
    PROVE  ModInv'
<1>1. UNCHANGED <<held, dev9_use_count, bus, lost, rung, loads>>
  BY DEF loadcore_register_library, NoLibrary, Resident, Exit
<1>2. /\ phase[m] \in Loading
      /\ \/ phase[m] = "init" /\ To(m, "start") /\ libraries' \in {libraries, libraries \cup {m}}
         \/ phase[m] = "init" /\ To(m, "out") /\ libraries' = libraries
         \/ phase[m] = "start" /\ To(m, "resident") /\ libraries' = libraries
         \/ phase[m] = "exit" /\ To(m, "out") /\ libraries' = libraries \ {m}
  BY DEF loadcore_register_library, NoLibrary, Resident, Exit, Loading
<1>3. PICK ph \in {"start", "resident", "out"} : To(m, ph)
  BY <1>2
<1>4. /\ phase' \in [Modules -> {"out", "init", "start", "exit", "resident"}]
      /\ phase'[m] = ph
      /\ \A k \in Modules \ {m} : phase'[k] = phase[k] /\ phase[k] \in {"out", "resident"}
      /\ OneAtATime' /\ ImportsStay'
  BY <1>2, <1>3, Goes
<1>5. /\ phase[m] = "init" => ph \in {"start", "out"}
      /\ phase[m] = "start" => ph = "resident"
      /\ phase[m] = "exit" => ph = "out" /\ libraries' = libraries \ {m}
      /\ libraries' \in {libraries, libraries \cup {m}, libraries \ {m}}
      /\ libraries' = libraries \cup {m} => libraries' = libraries \/ ph = "start"
      /\ phase[m] = "init" /\ ph = "out" => libraries' = libraries
  BY <1>2, <1>4 DEF To, ModInv, ModTypeOK
<1>6. ModTypeOK'
  BY <1>1, <1>4, <1>5 DEF ModInv, ModTypeOK
<1>7. LibrariesAreThere'
  BY <1>2, <1>4, <1>5 DEF ModInv, LibrariesAreThere, Loading
<1>8. RungsGive'
  <2>1. rung = 1 => rung \in 1 .. Len(Ladder[m]) + 1
    BY Rungs
  <2> QED BY <1>1, <1>2, <1>4, <1>5, <2>1 DEF ModInv, RungsGive, Loading
<1>9. UsesAreCounted'
  BY <1>1 DEF ModInv, UsesAreCounted
<1> QED BY <1>1, <1>4, <1>6, <1>7, <1>8, <1>9 DEF ModInv

\* One rung up.
LEMMA ObtainStep ==
    ASSUME ModInv, NEW m \in Modules, Obtain(m)
    PROVE  ModInv'
<1>1. /\ phase[m] = "start" /\ rung <= Len(Ladder[m]) /\ Ladder[m][rung] \notin held[m]
      /\ held' = [held EXCEPT ![m] = held[m] \cup {Ladder[m][rung]}]
      /\ rung' = rung + 1
      /\ UNCHANGED <<phase, libraries, lost, loads>>
  BY DEF Obtain, Climbing, Wanted, ModInv
<1>2. rung \in 1 .. Len(Ladder[m]) /\ Len(Ladder[m]) \in Nat
      /\ held[m] \subseteq Kept(m) \cup Below(m, rung)
  BY <1>1, Rungs DEF ModInv, RungsGive
<1>3. PICK w \in Things : w = Ladder[m][rung] /\ w \in Range(Ladder[m])
  BY <1>2, RungsAreThings
<1>4. PICK s \in SUBSET Things : s = held[m] \cup {w} /\ held' = [held EXCEPT ![m] = s]
  BY <1>1, <1>3 DEF ModInv
<1>5. /\ held' \in [Modules -> SUBSET Things]
      /\ held'[m] = held[m] \cup {w} /\ \A k \in Modules \ {m} : held'[k] = held[k]
  BY <1>4 DEF ModInv
<1>6. /\ dev9_use_count' = dev9_use_count + (IF w = "dev9" THEN 1 ELSE 0)
      /\ w = "dev9" => bus' = TRUE
      /\ w # "dev9" => bus' = bus
      /\ dev9_use_count \in Nat /\ lost \in Nat /\ rung \in Nat /\ loads \in Nat /\ bus \in BOOLEAN
  <2>1. dev9_use_count \in Nat /\ lost \in Nat /\ rung \in Nat /\ loads \in Nat /\ bus \in BOOLEAN
    BY DEF ModInv, ModTypeOK
  <2>2. dev9_use_count = 0 \/ bus = TRUE
    BY <2>1 DEF ModInv, UsesAreCounted
  <2>3. CASE w = "dev9"
    <3>1. bus' = (dev9_use_count = 0 \/ bus) /\ dev9_use_count' = dev9_use_count + 1
      BY <1>3, <2>3 DEF Obtain, Wanted, dev9_request
    <3>2. bus' = TRUE
      BY <2>2, <3>1
    <3> QED BY <2>1, <2>3, <3>1, <3>2
  <2>4. CASE w # "dev9"
    BY <1>3, <2>1, <2>4 DEF Obtain, Wanted
  <2> QED BY <2>1, <2>3, <2>4
<1>7. ModTypeOK'
  <2>1. dev9_use_count' \in Nat /\ lost' \in Nat /\ rung' \in Nat /\ loads' \in Nat
    BY <1>1, <1>6
  <2>3. bus' \in BOOLEAN
    BY <1>6
  <2>2. \A k \in Modules : held'[k] \subseteq Range(Ladder[k])
    BY <1>3, <1>5 DEF ModInv, ModTypeOK
  <2> QED BY <1>1, <2>1, <2>2, <2>3 DEF ModInv, ModTypeOK
<1>8. OneAtATime' /\ LibrariesAreThere' /\ ImportsStay'
  BY <1>1 DEF ModInv, OneAtATime, LibrariesAreThere, ImportsStay
<1>9. RungsGive'
  <2>1. \A k \in Modules \ {m} : phase[k] \in {"out", "resident"}
    BY <1>1 DEF ModInv, ModTypeOK, OneAtATime, Loading
  <2>2. held'[m] \subseteq Kept(m) \cup Below(m, rung')
    BY <1>1, <1>2, <1>3, <1>5 DEF Below
  <2>3. rung' \in 1 .. Len(Ladder[m]) + 1
    BY <1>1, <1>2
  <2> QED BY <1>1, <1>5, <2>1, <2>2, <2>3 DEF ModInv, RungsGive
<1>10. UsesAreCounted'
  <2>1. /\ Cardinality(Users(held)) \in Nat
        /\ Cardinality(Users(held')) = Cardinality(Users(held)) - (IF "dev9" \in held[m] THEN 1 ELSE 0)
                                                                + (IF "dev9" \in s THEN 1 ELSE 0)
    BY <1>4, UsersChange DEF ModInv
  <2>2. dev9_use_count = lost + Cardinality(Users(held)) /\ (dev9_use_count > 0 => bus)
    BY DEF ModInv, UsesAreCounted, Users
  <2>3. "dev9" \in s <=> "dev9" \in held[m] \/ w = "dev9"
    BY <1>4
  <2>4. w = "dev9" => "dev9" \notin held[m]
    BY <1>1, <1>3
  <2>5. dev9_use_count' = lost' + Cardinality(Users(held'))
    BY <1>1, <1>6, <2>1, <2>2, <2>3, <2>4
  <2>6. dev9_use_count' > 0 => bus'
    BY <1>6, <2>2
  <2> QED BY <2>5, <2>6 DEF UsesAreCounted, Users
<1> QED BY <1>5, <1>7, <1>8, <1>9, <1>10 DEF ModInv

\* Down the ladder.
LEMMA FailStep ==
    ASSUME ModInv, NEW m \in Modules, FailToObtain(m)
    PROVE  ModInv'
<1>1. /\ phase[m] = "start" /\ rung <= Len(Ladder[m]) /\ To(m, "exit")
      /\ Ladder[m][rung] \notin CannotFail \cup {"dev9"}
      /\ UNCHANGED <<libraries, lost, rung, loads>>
  BY DEF FailToObtain, Climbing, Wanted
<1>2. rung \in 1 .. Len(Ladder[m]) /\ held[m] \subseteq Kept(m) \cup Below(m, rung)
  BY <1>1, Rungs DEF ModInv, RungsGive
<1>3. PICK u \in SUBSET Things : u = held[m] \cap Undone(m, Ladder[m][rung])
  BY DEF ModInv
<1>4. PICK s \in SUBSET Things : s = held[m] \ u
  BY DEF ModInv
<1>5. /\ held' = [held EXCEPT ![m] = s]
      /\ IF "dev9" \in u THEN dev9_release ELSE UNCHANGED <<dev9_use_count, bus>>
  BY <1>3, <1>4 DEF FailToObtain, Wanted, ModInv
<1>6. /\ held' \in [Modules -> SUBSET Things]
      /\ held'[m] = s /\ \A k \in Modules \ {m} : held'[k] = held[k]
  BY <1>5 DEF ModInv
<1>7. s \subseteq Kept(m)
  <2>1. (Kept(m) \cup Below(m, rung)) \ Undone(m, Ladder[m][rung]) \subseteq Kept(m)
    BY <1>1, <1>2, LaddersUndo
  <2> QED BY <1>2, <1>3, <1>4, <2>1
<1>8. /\ phase' \in [Modules -> {"out", "init", "start", "exit", "resident"}]
      /\ phase'[m] = "exit"
      /\ \A k \in Modules \ {m} : phase'[k] = phase[k] /\ phase[k] \in {"out", "resident"}
      /\ OneAtATime' /\ ImportsStay'
  BY <1>1, Goes DEF Loading
<1>9. dev9_use_count' = dev9_use_count - (IF "dev9" \in u THEN 1 ELSE 0) /\ bus' = bus
      /\ dev9_use_count \in Nat /\ lost \in Nat
  <2>1. dev9_use_count \in Nat /\ lost \in Nat
    BY DEF ModInv, ModTypeOK
  <2> QED BY <1>5, <2>1 DEF dev9_release
<1>10. /\ dev9_use_count' = lost' + Cardinality(Users(held'))
       /\ dev9_use_count' \in Nat
       /\ dev9_use_count' > 0 => bus'
  <2>1. /\ Cardinality(Users(held)) \in Nat
        /\ Cardinality(Users(held')) = Cardinality(Users(held)) - (IF "dev9" \in held[m] THEN 1 ELSE 0)
                                                                + (IF "dev9" \in s THEN 1 ELSE 0)
        /\ "dev9" \in held[m] => Cardinality(Users(held)) > 0
    BY <1>5, UsersChange DEF ModInv
  <2>2. dev9_use_count = lost + Cardinality(Users(held)) /\ (dev9_use_count > 0 => bus)
    BY DEF ModInv, UsesAreCounted, Users
  <2>3. /\ "dev9" \in u => "dev9" \in held[m] /\ "dev9" \notin s
        /\ "dev9" \notin u => ("dev9" \in s <=> "dev9" \in held[m])
    BY <1>3, <1>4
  <2> QED BY <1>1, <1>9, <2>1, <2>2, <2>3
<1>11. ModTypeOK'
  <2>1. {dev9_use_count', lost', rung', loads'} \subseteq Nat /\ bus' \in BOOLEAN
    BY <1>1, <1>9, <1>10 DEF ModInv, ModTypeOK
  <2>2. \A k \in Modules : held'[k] \subseteq Range(Ladder[k])
    BY <1>4, <1>6 DEF ModInv, ModTypeOK
  <2> QED BY <1>1, <1>8, <2>1, <2>2 DEF ModInv, ModTypeOK
<1>12. LibrariesAreThere'
  BY <1>1, <1>8 DEF ModInv, LibrariesAreThere
<1>13. RungsGive'
  BY <1>6, <1>7, <1>8 DEF ModInv, RungsGive
<1>14. UsesAreCounted'
  BY <1>10 DEF UsesAreCounted, Users
<1> QED BY <1>6, <1>8, <1>11, <1>12, <1>13, <1>14 DEF ModInv

LEMMA ModInvStarts == ModInit => ModInv
<1>. SUFFICES ASSUME ModInit PROVE ModInv
  OBVIOUS
<1>1. \A m \in Modules : phase[m] = "out" /\ held[m] = {}
  BY DEF ModInit
<1>2. Users(held) = {} /\ Cardinality({}) = 0
  BY <1>1, FS_EmptySet DEF Users
<1>3. UsesAreCounted
  BY <1>2 DEF ModInit, UsesAreCounted, Users
<1>4. ModTypeOK /\ held \in [Modules -> SUBSET Things]
  <2>1. phase \in [Modules -> {"out", "init", "start", "exit", "resident"}]
    BY DEF ModInit
  <2>2. held \in [Modules -> SUBSET Things]
    BY DEF ModInit
  <2>3. libraries \subseteq Modules /\ bus \in BOOLEAN
    BY DEF ModInit
  <2>4. \A m \in Modules : held[m] \subseteq Range(Ladder[m])
    BY <1>1
  <2>5. {dev9_use_count, lost, rung, loads} \subseteq Nat
    BY SMT DEF ModInit
  <2> QED BY <2>1, <2>2, <2>3, <2>4, <2>5 DEF ModTypeOK
<1>5. OneAtATime /\ LibrariesAreThere /\ ImportsStay
  BY <1>1 DEF ModInit, OneAtATime, Loading, LibrariesAreThere, ImportsStay
<1>6. RungsGive
  BY <1>1 DEF RungsGive
<1> QED BY <1>3, <1>4, <1>5, <1>6 DEF ModInv

LEMMA ModInvStays == ModInv /\ [ModNext]_modVars => ModInv'
<1>. SUFFICES ASSUME ModInv, [ModNext]_modVars PROVE ModInv'
  OBVIOUS
<1>1. CASE UNCHANGED modVars
  <2>1. UNCHANGED <<phase, libraries, held, dev9_use_count, bus, lost, rung, loads>>
    BY <1>1 DEF modVars
  <2> QED BY <2>1 DEF ModInv, ModTypeOK, OneAtATime, LibrariesAreThere, RungsGive, ImportsStay,
         UsesAreCounted
<1>2. ASSUME NEW m \in Modules, Load(m) \/ _module_init(m) PROVE ModInv'
  BY <1>2, LoadStep, EntryStep, ObtainStep, FailStep DEF _module_init
<1> QED BY <1>1, <1>2 DEF ModNext

\* The invariant holds in every state.
THEOREM ModInvHolds == ModSpec => []ModInv
  BY ModInvStarts, ModInvStays, PTL DEF ModSpec

\* A module that gives up, at whichever call of its ladder, leaves no library
\* and nothing it obtained, but what the ladders of gamepad.c and ata.c lack.
THEOREM GivingUpLeavesNothing == ModSpec => []ExitLeavesNothing
<1>1. ModInv => ExitLeavesNothing
  BY DEF ModInv, LibrariesAreThere, RungsGive, Kept, ExitLeavesNothing
<1> QED BY <1>1, ModInvHolds, PTL

\* A module that is there can call the libraries it was linked with (mod.h).
THEOREM LibrariesStay == ModSpec => []ImportsStay
<1>1. ModInv => ImportsStay
  BY DEF ModInv
<1> QED BY <1>1, ModInvHolds, PTL

\* The DEV9 is not taken for unused while it is used, for any number of loads.
THEOREM UsesStayCounted == ModSpec => []UsesAreCounted
<1>1. ModInv => UsesAreCounted
  BY DEF ModInv
<1> QED BY <1>1, ModInvHolds, PTL

----------------------------------------------------------------------------
(* Division                                                                 *)

\* While the divisor is shifted up it is a multiple of what it was, by a power
\* of two; while it is shifted down, what is left of the dividend is less than
\* twice that multiple, and in the end less than the divisor.
UdivInv ==
    /\ UdivTypeOK
    /\ loop # "done" => value = -1
    /\ loop = "justify" => num = dividend /\ quot = 0
    /\ divisor # 0 =>
          /\ dividend = quot * divisor + num
          /\ qbit = 0 \/ \E k \in 0 .. Bits - 1 : qbit = Pow2[k]
          /\ qbit # 0 => den = divisor * qbit
          /\ loop = "justify" => qbit # 0
          /\ loop # "justify" => IF qbit # 0 THEN num < 2 * den ELSE num < divisor
          /\ loop = "done" => /\ qbit = 0
                              /\ value = IF called = Quotient THEN quot ELSE num
    /\ loop = "justify" /\ divisor = 0 => den = 0
    /\ loop = "divide" => divisor # 0

\* What the recursive function is.
LEMMA PowersOfTwo ==
    /\ Pow2 \in [0 .. Bits -> Nat \ {0}]
    /\ Pow2[0] = 1 /\ \A k \in 1 .. Bits : Pow2[k] = 2 * Pow2[k - 1]
<1>. DEFINE Doubled(f) == [k \in 0 .. Bits |-> IF k = 0 THEN 1 ELSE 2 * f[k - 1]]
<1>0. Bits \in Nat \ {0}
  BY UdivmodAssumption
<1>1. PICK f \in [Nat -> Nat \ {0}] : f[0] = 1 /\ \A k \in Nat : f[k + 1] = 2 * f[k]
  <2>1. 2 \in Nat \ {0}
    OBVIOUS
  <2> QED BY <2>1, PowersAre
<1>. DEFINE g == [k \in 0 .. Bits |-> f[k]]
<1>2. g = Doubled(g)
  <2>1. ASSUME NEW k \in 0 .. Bits PROVE g[k] = IF k = 0 THEN 1 ELSE 2 * g[k - 1]
    <3>1. CASE k = 0
      BY <1>1, <3>1
    <3>2. CASE k # 0
      <4>1. k - 1 \in 0 .. Bits /\ k - 1 \in Nat /\ k = (k - 1) + 1
        BY <1>0, <3>2
      <4>2. f[k] = 2 * f[k - 1]
        BY <1>1, <4>1
      <4> QED BY <3>2, <4>1, <4>2
    <3> QED BY <3>1, <3>2
  <2> QED BY <2>1
<1>3. Pow2 = Doubled(Pow2)
  BY <1>2 DEF Pow2
<1>4. Pow2[0] = 1
  BY <1>0, <1>3
<1>5. \A k \in 1 .. Bits : Pow2[k] = 2 * Pow2[k - 1]
  <2>. TAKE k \in 1 .. Bits
  <2>1. k \in 0 .. Bits /\ k # 0
    BY <1>0
  <2>2. Pow2[k] = IF k = 0 THEN 1 ELSE 2 * Pow2[k - 1]
    BY <1>3, <2>1
  <2> QED BY <2>1, <2>2
<1>. DEFINE S == {k \in Nat : k <= Bits => Pow2[k] \in Nat \ {0}}
<1>6. Nat \subseteq S
  <2>1. 0 \in S
    BY <1>4
  <2>2. ASSUME NEW k \in Nat, k \in S PROVE k + 1 \in S
    <3>. SUFFICES ASSUME k + 1 <= Bits PROVE Pow2[k + 1] \in Nat \ {0}
      OBVIOUS
    <3>1. k + 1 \in 1 .. Bits /\ (k + 1) - 1 = k /\ Pow2[k] \in Nat \ {0}
      BY <1>0, <2>2
    <3>2. Pow2[k + 1] = 2 * Pow2[k]
      BY <1>5, <3>1
    <3> QED BY <3>1, <3>2
  <2>. HIDE DEF S
  <2> QED BY <2>1, <2>2, Induction
<1>7. \A k \in 0 .. Bits : Pow2[k] \in Nat \ {0}
  BY <1>0, <1>6
<1>8. Pow2 \in [0 .. Bits -> Nat \ {0}]
  <2>1. Pow2 = [k \in 0 .. Bits |-> Pow2[k]]
    BY <1>3
  <2> QED BY <1>7, <2>1
<1> QED BY <1>4, <1>5, <1>8

\* A power of two is one, or twice a power of two.
LEMMA Halves ==
    ASSUME NEW k \in 0 .. Bits - 1
    PROVE  \/ Pow2[k] = 1
           \/ k - 1 \in 0 .. Bits - 1 /\ Pow2[k] = 2 * Pow2[k - 1] /\ Pow2[k - 1] \in Nat \ {0}
  BY UdivmodAssumption, PowersOfTwo

LEMMA WordFacts == Word \in Nat /\ Word = 2 * (Word \div 2) /\ Word \div 2 \in Nat \ {0}
  <1>1. Bits \in 1 .. Bits /\ Bits - 1 \in 0 .. Bits
    BY UdivmodAssumption, PowersOfTwo
  <1>2. Word = 2 * Pow2[Bits - 1] /\ Pow2[Bits - 1] \in Nat \ {0}
    BY <1>1, UdivmodAssumption, PowersOfTwo DEF Word
  <1> QED
    BY <1>2

\* What a product does when one of its factors is halved or split.
LEMMA Products ==
    ASSUME NEW a \in Nat, NEW b \in Nat, NEW c \in Nat
    PROVE  /\ a * (2 * b) = 2 * (a * b) /\ a * b \in Nat
           /\ (a + b) * c = a * c + b * c
           /\ a # 0 => b <= a * b
  <1>1. a * (2 * b) = 2 * (a * b) /\ a * b \in Nat
    OBVIOUS
  <1>2. (a + b) * c = a * c + b * c
    OBVIOUS
  <1>3. ASSUME a # 0 PROVE b <= a * b
    <2>1. a - 1 \in Nat /\ a = (a - 1) + 1
      BY <1>3
    <2>2. a * b = (a - 1) * b + b
      BY <2>1
    <2>3. (a - 1) * b \in Nat
      BY <2>1
    <2> QED
      BY <2>2, <2>3
  <1> QED
    BY <1>1, <1>2, <1>3

LEMMA UdivInvStarts == UdivInit => UdivInv
  <1> SUFFICES ASSUME UdivInit PROVE UdivInv
    OBVIOUS
  <1>1. 1 \in Words
    BY WordFacts DEF Words
  <1>2. UdivTypeOK
    BY <1>1, WordFacts DEF UdivInit, UdivTypeOK, Words
  <1>3. dividend = quot * divisor + num /\ den = divisor * qbit
    BY WordFacts DEF UdivInit, Words
  <1>4. \E k \in 0 .. Bits - 1 : qbit = Pow2[k]
    <2>1. 0 \in 0 .. Bits - 1 /\ Pow2[0] = 1
      BY UdivmodAssumption, PowersOfTwo
    <2> QED
      BY <2>1 DEF UdivInit
  <1> QED
    BY <1>2, <1>3, <1>4 DEF UdivInit, UdivInv

\* Every step keeps it.
LEMMA UdivInvStays == UdivInv /\ [__udivmoddi4]_udivVars => UdivInv'
  <1> SUFFICES ASSUME UdivInv, [__udivmoddi4]_udivVars PROVE UdivInv'
    OBVIOUS
  <1> USE WordFacts
  <1>0. /\ dividend \in Nat /\ divisor \in Nat /\ num \in Nat /\ den \in Nat
        /\ quot \in Nat /\ qbit \in Nat
    BY DEF UdivInv, UdivTypeOK, Words
  <1>1. CASE DivideByZero
    <2>1. divisor = 0
      <3>1. ASSUME divisor # 0 PROVE FALSE
        <4>1. den = divisor * qbit /\ qbit # 0
          BY <1>1, <3>1 DEF DivideByZero, UdivInv
        <4>2. qbit <= divisor * qbit
          BY <1>0, <3>1, Products
        <4> QED
          BY <1>0, <1>1, <4>1, <4>2 DEF DivideByZero
      <3> QED
        BY <3>1
    <2>2. value' \in Words
      BY <1>1 DEF DivideByZero, Words
    <2>3. UdivTypeOK'
      BY <1>1, <2>2 DEF DivideByZero, UdivInv, UdivTypeOK
    <2> QED
      BY <1>1, <2>1, <2>3 DEF DivideByZero, UdivInv
  <1>2. CASE Justify
    <2>1. divisor # 0
      BY <1>2 DEF Justify, UdivInv
    <2>2. den = divisor * qbit /\ qbit # 0
      BY <1>2, <2>1 DEF Justify, UdivInv
    <2>3. qbit <= den /\ den < Word \div 2
      BY <1>0, <1>2, <2>1, <2>2, Products DEF Justify
    <2>4. den' = 2 * den /\ qbit' = 2 * qbit /\ den' \in Words /\ qbit' \in Words
      BY <1>0, <1>2, <2>3 DEF Justify, Words
    <2>5. PICK k \in 0 .. Bits - 1 : qbit = Pow2[k]
      BY <2>1, <2>2 DEF UdivInv
    <2>6. k + 1 \in 0 .. Bits - 1 /\ qbit' = Pow2[k + 1]
      <3>1. k + 1 \in 1 .. Bits
        BY UdivmodAssumption, PowersOfTwo
      <3>2. Pow2[k + 1] = 2 * qbit
        BY <2>5, <3>1, UdivmodAssumption, PowersOfTwo
      <3>3. k + 1 # Bits
        <4>1. 2 * qbit < Word
          BY <1>0, <2>3
        <4> QED
          BY <1>0, <3>2, <4>1 DEF Word
      <3> QED
        BY <2>4, <3>1, <3>2, <3>3, UdivmodAssumption, PowersOfTwo
    <2>7. den' = divisor * qbit' /\ qbit' # 0
      BY <1>0, <2>2, <2>4, Products
    <2>8. UdivTypeOK'
      BY <1>2, <2>4 DEF Justify, UdivInv, UdivTypeOK
    <2> QED
      BY <1>2, <2>1, <2>6, <2>7, <2>8 DEF Justify, UdivInv
  <1>3. CASE Justified
    <2>1. UdivTypeOK'
      BY <1>3 DEF Justified, UdivInv, UdivTypeOK
    <2>2. divisor # 0 /\ qbit # 0
      BY <1>0, <1>3 DEF Justified, UdivInv
    <2>3. num < 2 * den
      <3>1. num < Word
        BY DEF UdivInv, UdivTypeOK, Words
      <3> QED
        BY <1>0, <1>3, <3>1 DEF Justified
    <2> QED
      BY <1>3, <2>1, <2>2, <2>3 DEF Justified, UdivInv
  <1>4. CASE Divide
    <2>1. divisor # 0 /\ loop = "divide" /\ qbit # 0
      BY <1>4 DEF Divide, UdivInv
    <2>2. /\ dividend = quot * divisor + num /\ den = divisor * qbit /\ num < 2 * den
      BY <2>1 DEF UdivInv
    <2>3. num' \in Nat /\ num' <= num /\ num' < den
      BY <1>0, <1>4, <2>2 DEF Divide
    <2>4. quot' \in Words /\ dividend = quot' * divisor + num'
      <3>1. CASE den <= num
        <4>1. (quot + qbit) * divisor = quot * divisor + den
          BY <1>0, <2>2, Products
        <4>2. dividend = (quot + qbit) * divisor + (num - den)
          <5>1. quot * divisor \in Nat
            BY <1>0
          <5> QED
            BY <1>0, <2>2, <3>1, <4>1, <5>1
        <4>3. quot + qbit <= (quot + qbit) * divisor
          <5>1. quot + qbit \in Nat
            BY <1>0
          <5>2. quot + qbit <= divisor * (quot + qbit)
            BY <1>0, <2>1, <5>1, Products
          <5> QED
            BY <1>0, <5>1, <5>2
        <4>4. quot + qbit < Word
          <5>1. dividend < Word
            BY DEF UdivInv, UdivTypeOK, Words
          <5>2. (quot + qbit) * divisor \in Nat /\ num - den \in Nat
            BY <1>0, <3>1
          <5> QED
            BY <1>0, <4>2, <4>3, <5>1, <5>2
        <4>5. quot' = quot + qbit /\ num' = num - den
          BY <1>0, <1>4, <3>1, <4>4 DEF Divide
        <4> QED
          BY <1>0, <4>2, <4>4, <4>5 DEF Words
      <3>2. CASE ~(den <= num)
        BY <1>4, <2>2, <3>2 DEF Divide, UdivInv, UdivTypeOK
      <3> QED
        BY <3>1, <3>2
    <2>5. PICK k \in 0 .. Bits - 1 : qbit = Pow2[k]
      BY <2>1 DEF UdivInv
    <2>6. \/ qbit' = 0 /\ den = divisor
          \/ /\ \E j \in 0 .. Bits - 1 : qbit' = Pow2[j]
             /\ qbit' \in Nat \ {0} /\ qbit = 2 * qbit' /\ den' = divisor * qbit' /\ den = 2 * den'
      <3>1. CASE qbit = 1
        BY <1>0, <1>4, <2>2, <3>1 DEF Divide
      <3>2. CASE qbit # 1
        <4>1. k - 1 \in 0 .. Bits - 1 /\ qbit = 2 * Pow2[k - 1] /\ Pow2[k - 1] \in Nat \ {0}
          BY <2>5, <3>2, Halves
        <4>2. qbit' = Pow2[k - 1]
          BY <1>4, <4>1 DEF Divide
        <4>3. den = 2 * (divisor * qbit') /\ divisor * qbit' \in Nat
          BY <1>0, <2>2, <4>1, <4>2, Products
        <4>4. den' = divisor * qbit'
          BY <1>4, <4>3 DEF Divide
        <4> QED
          BY <4>1, <4>2, <4>3, <4>4
      <3> QED
        BY <3>1, <3>2
    <2>7. UdivTypeOK'
      <3>1. den' \in Words /\ qbit' \in Words
        BY <1>0, <1>4 DEF Divide, UdivInv, UdivTypeOK, Words
      <3>2. num' \in Words
        BY <2>3, <1>0 DEF UdivInv, UdivTypeOK, Words
      <3> QED
        BY <1>4, <2>4, <3>1, <3>2 DEF Divide, UdivInv, UdivTypeOK
    <2>8. IF qbit' # 0 THEN num' < 2 * den' ELSE num' < divisor
      BY <2>3, <2>6
    <2> QED
      BY <1>4, <2>1, <2>4, <2>6, <2>7, <2>8 DEF Divide, UdivInv
  <1>5. CASE Return
    <2>1. value' \in Words
      BY <1>5 DEF Return, UdivInv, UdivTypeOK
    <2>2. UdivTypeOK'
      BY <1>5, <2>1 DEF Return, UdivInv, UdivTypeOK
    <2> QED
      BY <1>5, <2>2 DEF Return, UdivInv
  <1>6. CASE UNCHANGED udivVars
    BY <1>6 DEF udivVars, UdivInv, UdivTypeOK
  <1> QED
    BY <1>1, <1>2, <1>3, <1>4, <1>5, <1>6 DEF __udivmoddi4

\* The inductive invariant of the division.
THEOREM UdivInvHolds == UdivSpec => []UdivInv
  <1> QED
    BY UdivInvStarts, UdivInvStays, PTL DEF UdivSpec

\* __udivmoddi4 divides: for words of any number of bits, and any arguments
\* but a divisor of zero.
THEOREM DivisionExact == UdivSpec => []DivisionIsExact
  <1>1. UdivInv => DivisionIsExact
    BY DEF UdivInv, DivisionIsExact
  <1> QED
    BY <1>1, UdivInvHolds, PTL

----------------------------------------------------------------------------
(* Printing                                                                 *)

\* A sequence of whatever.
IsText(s) == Len(s) \in Nat /\ DOMAIN s = 1 .. Len(s) /\ s \in Seq(Range(s))

\* A buffer, and that its pointer is where its count is, as long as that is
\* within the bytes it may write.
IsBuffer(b) ==
    /\ b = [o |-> b.o, q |-> b.q, buf |-> [k \in 0 .. Room - 1 |-> b.buf[k]]]
    /\ b.o \in Nat /\ b.q \in Nat
InPlace(b, size) == b.o <= size => b.q = b.o

Flags == {"-", "+", "'", " ", "#", "0", "signed", "upper"}
Conversions == [flags : SUBSET Flags, rank : Int, width : Int, prec : Int]

\* What was written is the text, as far as it goes and the buffer has bytes.
TextSoFar ==
    \A k \in 0 .. Room - 1 :
        out.buf[k] = IF k < n /\ k < out.o THEN all.buf[k] ELSE Untouched

LastByte == IF out.o < n THEN out.o ELSE n - 1
Terminated ==
    \A k \in 0 .. Room - 1 :
        out.buf[k] = IF k < LastByte THEN all.buf[k] ELSE IF k = LastByte THEN NUL ELSE Untouched

VsnInv ==
    /\ n \in 0 .. Room - 1 /\ conv \in Conversions
    /\ IsBuffer(out) /\ IsBuffer(all) /\ all.o = out.o
    /\ ret = -1 => InPlace(out, n) /\ InPlace(all, Room) /\ TextSoFar
    /\ ret # -1 => ret = out.o /\ Terminated

\* The arguments have the types that the conversions say, without which the
\* behaviour is undefined in C.
ArgsAreTyped ==
    ret = -1 /\ p <= Len(format) =>
        /\ state \in {"width", "prec"} /\ Ch = "*" => Arg \in Int
        /\ state = "modifiers" /\ Ch \in DOMAIN BaseOf => Arg \in Int
        /\ state = "modifiers" /\ Ch = "s" => Arg = NULL \/ IsText(Arg)

\* The text without limit is within the bytes there are.
TextFits == all.o < Room

----------------------------------------------------------------------------
(* Texts                                                                    *)

LEMMA MaxOfTwo ==
    ASSUME NEW a \in Int, NEW b \in Int
    PROVE  /\ Max({a, b}) = (IF a >= b THEN a ELSE b)
           /\ Min({a, b}) = (IF a <= b THEN a ELSE b)
<1>1. Max({a, b}) = IF a >= b THEN a ELSE b
  <2>. DEFINE m == IF a >= b THEN a ELSE b
  <2>1. \A x \in {a, b} : (\A y \in {a, b} : x >= y) <=> x = m
    OBVIOUS
  <2> QED BY <2>1 DEF Max
<1>2. Min({a, b}) = IF a <= b THEN a ELSE b
  <2>. DEFINE m == IF a <= b THEN a ELSE b
  <2>1. \A x \in {a, b} : (\A y \in {a, b} : x =< y) <=> x = m
    OBVIOUS
  <2> QED BY <2>1 DEF Min
<1> QED BY <1>1, <1>2

LEMMA SequencesAreTexts ==
    ASSUME NEW A, NEW s \in Seq(A)
    PROVE  IsText(s)
<1>1. Len(s) \in Nat /\ DOMAIN s = 1 .. Len(s) /\ s = [k \in 1 .. Len(s) |-> s[k]]
  OBVIOUS
<1>2. s \in [1 .. Len(s) -> Range(s)]
  BY <1>1 DEF Range
<1>3. s \in Seq(Range(s))
  BY <1>1, <1>2
<1> QED BY <1>1, <1>3 DEF IsText

LEMMA Joined ==
    ASSUME NEW s, NEW t, IsText(s), IsText(t)
    PROVE  /\ IsText(s \o t) /\ Len(s \o t) = Len(s) + Len(t)
           /\ \A k \in 1 .. Len(s) + Len(t) :
                 (s \o t)[k] = IF k <= Len(s) THEN s[k] ELSE t[k - Len(s)]
<1>. DEFINE A == Range(s) \cup Range(t)
<1>1. s \in Seq(A) /\ t \in Seq(A)
  <2>1. Range(s) \subseteq A /\ Range(t) \subseteq A
    OBVIOUS
  <2>. HIDE DEF A
  <2>2. s \in Seq(Range(s)) /\ t \in Seq(Range(t))
    BY DEF IsText
  <2> QED BY <2>1, <2>2
<1>. HIDE DEF A
<1>2. s \o t \in Seq(A) /\ Len(s \o t) = Len(s) + Len(t)
  BY <1>1
<1>3. \A k \in 1 .. Len(s) + Len(t) :
          (s \o t)[k] = IF k <= Len(s) THEN s[k] ELSE t[k - Len(s)]
  BY <1>1
<1> QED BY <1>2, <1>3, SequencesAreTexts

LEMMA Padding ==
    ASSUME NEW c, NEW k \in Int
    PROVE  IsText(Times(c, k))
<1>1. Times(c, k) \in Seq({c})
  <2>1. CASE k >= 0
    BY <2>1 DEF Times
  <2>2. CASE k < 0
    <3>1. 1 .. k = {}
      BY <2>2
    <3>2. Times(c, k) = [i \in 1 .. 0 |-> c]
      BY <3>1 DEF Times
    <3> QED BY <3>2
  <2> QED BY <2>1, <2>2
<1> QED BY <1>1, SequencesAreTexts

LEMMA ShortTexts ==
    /\ IsText(<<>>)
    /\ \A a : IsText(<<a>>)
    /\ \A a, b : IsText(<<a, b>>)
<1>1. IsText(<<>>)
  <2>1. <<>> \in Seq({})
    OBVIOUS
  <2> QED BY <2>1, SequencesAreTexts
<1>2. ASSUME NEW a PROVE IsText(<<a>>)
  <2>1. <<a>> \in Seq({a})
    OBVIOUS
  <2> QED BY <2>1, SequencesAreTexts
<1>3. ASSUME NEW a, NEW b PROVE IsText(<<a, b>>)
  <2>1. <<a, b>> \in Seq({a, b})
    OBVIOUS
  <2> QED BY <2>1, SequencesAreTexts
<1> QED BY <1>1, <1>2, <1>3

----------------------------------------------------------------------------
(* Writing                                                                  *)

LEMMA LeftIs ==
    ASSUME NEW b, b.o \in Nat, NEW size \in Nat
    PROVE  Left(b, size) = (IF b.o < size THEN size - b.o ELSE 0) /\ Left(b, size) \in Nat
<1>1. size - b.o \in Int
  OBVIOUS
<1>2. Left(b, size) = IF size - b.o >= 0 THEN size - b.o ELSE 0
  BY <1>1, MaxOfTwo DEF Left
<1> QED BY <1>2

\* Writing behind what was written is writing both.
LEMMA Behind ==
    ASSUME NEW f, f = [k \in DOMAIN f |-> f[k]], DOMAIN f \subseteq Int,
           NEW i \in Nat, NEW q \in Nat, NEW limit \in Nat, NEW rest \in Int,
           NEW s, NEW t, IsText(s), IsText(t),
           Len(s) <= limit => q = i + Len(s) /\ rest = limit - Len(s),
           Len(s) > limit => rest <= 0
    PROVE  Put(Put(f, i, s, limit), q, t, rest) = Put(f, i, s \o t, limit)
<1>. DEFINE g == Put(f, i, s, limit)
<1>0. Len(s) \in Nat /\ Len(t) \in Nat
  BY DEF IsText
<1>1. DOMAIN g = DOMAIN f
  BY DEF Put
<1>2. /\ Len(s) \in Nat /\ Len(t) \in Nat /\ Len(s \o t) = Len(s) + Len(t)
      /\ \A k \in 1 .. Len(s) + Len(t) :
             (s \o t)[k] = IF k <= Len(s) THEN s[k] ELSE t[k - Len(s)]
  BY Joined DEF IsText
<1>3. ASSUME NEW k \in DOMAIN f
      PROVE  Put(g, q, t, rest)[k] = Put(f, i, s \o t, limit)[k]
  <2>1. g[k] = IF k \in i .. i + Len(s) - 1 /\ k - i < limit THEN s[k - i + 1] ELSE f[k]
    BY DEF Put
  <2>2. Put(g, q, t, rest)[k] =
            IF k \in q .. q + Len(t) - 1 /\ k - q < rest THEN t[k - q + 1] ELSE g[k]
    BY <1>1 DEF Put
  <2>3. Put(f, i, s \o t, limit)[k] =
            IF k \in i .. i + Len(s) + Len(t) - 1 /\ k - i < limit THEN (s \o t)[k - i + 1]
            ELSE f[k]
    <3>1. Put(f, i, s \o t, limit)[k] =
              IF k \in i .. i + Len(s \o t) - 1 /\ k - i < limit THEN (s \o t)[k - i + 1]
              ELSE f[k]
      BY DEF Put
    <3>2. i + Len(s \o t) - 1 = i + Len(s) + Len(t) - 1
      BY <1>2
    <3> QED BY <3>1, <3>2
  <2>. HIDE DEF g
  <2>4. k \in Int
    OBVIOUS
  <2>5. CASE Len(s) > limit
    <3>1. Put(g, q, t, rest)[k] = g[k]
      BY <2>2, <2>4, <2>5, <1>2
    <3>2. CASE k \in i .. i + Len(s) - 1 /\ k - i < limit
      <4>1. k - i + 1 \in 1 .. Len(s) + Len(t) /\ k - i + 1 <= Len(s)
        BY <1>2, <2>4, <3>2
      <4> QED BY <1>2, <2>1, <2>3, <3>1, <3>2, <4>1
    <3>3. CASE ~(k \in i .. i + Len(s) - 1 /\ k - i < limit)
      <4>1. ~(k \in i .. i + Len(s) + Len(t) - 1 /\ k - i < limit)
        BY <1>2, <2>4, <2>5, <3>3
      <4> QED BY <2>1, <2>3, <3>1, <3>3, <4>1
    <3> QED BY <3>2, <3>3
  <2>6. CASE Len(s) <= limit
    <3>1. q = i + Len(s) /\ rest = limit - Len(s)
      BY <2>6
    <3>2. CASE k \in i .. i + Len(s) - 1
      <4>1. k - i + 1 \in 1 .. Len(s) + Len(t) /\ k - i + 1 <= Len(s) /\ k < q /\ k - i < limit
        BY <1>2, <2>4, <2>6, <3>1, <3>2
      <4>2. g[k] = s[k - i + 1] /\ Put(g, q, t, rest)[k] = g[k]
        BY <2>1, <2>2, <3>2, <4>1
      <4>3. k \in i .. i + Len(s) + Len(t) - 1 /\ (s \o t)[k - i + 1] = s[k - i + 1]
        BY <1>2, <2>4, <3>2, <4>1
      <4> QED BY <2>3, <4>1, <4>2, <4>3
    <3>3. CASE k \in q .. q + Len(t) - 1
      <4>0. k >= i + Len(s) /\ k <= i + Len(s) + Len(t) - 1
        BY <1>0, <2>4, <3>1, <3>3
      <4>1. /\ k - i + 1 \in 1 .. Len(s) + Len(t) /\ ~(k - i + 1 <= Len(s))
            /\ (k - i + 1) - Len(s) = k - q + 1
            /\ k \in i .. i + Len(s) + Len(t) - 1 /\ k \notin i .. i + Len(s) - 1
        <5>1. (k - i + 1) - Len(s) = k - q + 1
          BY <1>0, <2>4, <3>1
        <5>2. k - i + 1 \in 1 .. Len(s) + Len(t)
          BY <1>0, <2>4, <4>0
        <5>3. ~(k - i + 1 <= Len(s))
          BY <1>0, <2>4, <4>0
        <5>4. k \in i .. i + Len(s) + Len(t) - 1 /\ k \notin i .. i + Len(s) - 1
          BY <1>0, <2>4, <4>0
        <5> QED BY <5>1, <5>2, <5>3, <5>4
      <4>3. k - q < rest <=> k - i < limit
        BY <1>0, <2>4, <3>1
      <4>2. (s \o t)[k - i + 1] = t[k - q + 1] /\ g[k] = f[k]
        BY <1>2, <2>1, <4>1
      <4> QED BY <2>2, <2>3, <3>3, <4>1, <4>2, <4>3
    <3>4. CASE k \notin i .. i + Len(s) - 1 /\ k \notin q .. q + Len(t) - 1
      <4>1. k \notin i .. i + Len(s) + Len(t) - 1
        BY <1>2, <2>4, <3>1, <3>4
      <4> QED BY <2>1, <2>2, <2>3, <3>4, <4>1
    <3> QED BY <3>2, <3>3, <3>4
  <2> QED BY <1>2, <2>5, <2>6
<1>4. /\ Put(g, q, t, rest) = [k \in DOMAIN f |-> Put(g, q, t, rest)[k]]
      /\ Put(f, i, s \o t, limit) = [k \in DOMAIN f |-> Put(f, i, s \o t, limit)[k]]
  BY <1>1 DEF Put
<1>. HIDE DEF g
<1>5. Put(g, q, t, rest) = Put(f, i, s \o t, limit)
  BY <1>3, <1>4
<1> QED BY <1>5 DEF g

\* What a buffer is once a text has been written.
Written(b, size, s, c) ==
    /\ IsBuffer(c) /\ InPlace(c, size)
    /\ c.o = b.o + Len(s)
    /\ c.buf = Put(b.buf, b.q, s, Left(b, size))

LEMMA EmitWrites ==
    ASSUME NEW b, NEW size \in Nat, IsBuffer(b), InPlace(b, size), NEW s, IsText(s)
    PROVE  Written(b, size, s, EMIT(b, size, s))
<1>. DEFINE c == EMIT(b, size, s)
<1>1. b.o \in Nat /\ b.q \in Nat /\ Len(s) \in Nat /\ DOMAIN b.buf = 0 .. Room - 1
  <2>1. b.buf = [k \in 0 .. Room - 1 |-> b.buf[k]]
    BY DEF IsBuffer
  <2> QED BY <2>1 DEF IsBuffer, IsText
<1>2. Left(b, size) = (IF b.o < size THEN size - b.o ELSE 0) /\ Left(b, size) \in Nat
  BY <1>1, LeftIs
<1>3. /\ c.o = b.o + Len(s)
      /\ c.q = b.q + IF Left(b, size) <= Len(s) THEN Left(b, size) ELSE Len(s)
      /\ c.buf = Put(b.buf, b.q, s, Left(b, size))
      /\ c = [o |-> c.o, q |-> c.q, buf |-> c.buf]
  <2>1. Left(b, size) \in Int /\ Len(s) \in Int
    BY <1>1, <1>2
  <2>2. Min({Left(b, size), Len(s)}) = IF Left(b, size) <= Len(s) THEN Left(b, size) ELSE Len(s)
    BY <2>1, MaxOfTwo
  <2> QED BY <2>2 DEF EMIT
<1>. HIDE DEF c
<1>4. c.o \in Nat /\ c.q \in Nat
  BY <1>1, <1>2, <1>3
<1>5. c.buf = [k \in 0 .. Room - 1 |-> c.buf[k]]
  BY <1>1, <1>3 DEF Put
<1>6. IsBuffer(c)
  BY <1>3, <1>4, <1>5 DEF IsBuffer
<1>7. InPlace(c, size)
  BY <1>1, <1>2, <1>3 DEF InPlace
<1> QED BY <1>3, <1>6, <1>7 DEF Written, c

\* A field is written as its parts one behind another are.
LEMMA FieldWrites ==
    ASSUME NEW b, NEW size \in Nat, IsBuffer(b), InPlace(b, size), NEW field,
           IsText(field.early), IsText(field.number), IsText(field.late)
    PROVE  Written(b, size, (field.early \o field.number) \o field.late, format_int(b, size, field))
<1>. DEFINE left == Left(b, size)
            first == EMIT([b EXCEPT !.o = 0], left, field.early)
            second == [o   |-> first.o + Len(field.number),
                       q   |-> first.q + Len(field.number),
                       buf |-> Put(first.buf, first.q, field.number, left - first.o)]
            third == EMIT(second, left, field.late)
            c == format_int(b, size, field)
            x == Len(field.early)
            y == Len(field.number)
            z == Len(field.late)
            both == field.early \o field.number
<1>1. Len(field.early) = x /\ Len(field.number) = y /\ Len(field.late) = z
  OBVIOUS
<1>2. b.o \in Nat /\ b.q \in Nat /\ x \in Nat /\ y \in Nat /\ z \in Nat
  BY DEF IsBuffer, IsText
<1>3. DOMAIN b.buf = 0 .. Room - 1 /\ b.buf = [k \in 0 .. Room - 1 |-> b.buf[k]]
  <2>1. b.buf = [k \in 0 .. Room - 1 |-> b.buf[k]]
    BY DEF IsBuffer
  <2> QED BY <2>1
<1>. HIDE DEF x, y, z
<1>4. left = (IF b.o < size THEN size - b.o ELSE 0) /\ left \in Nat
  BY <1>2, LeftIs
<1>5. c = [o |-> b.o + third.o, q |-> b.q + third.o, buf |-> third.buf]
  BY DEF format_int
<1>6. /\ first.o = x /\ first.q = b.q + IF left <= x THEN left ELSE x
      /\ first.buf = Put(b.buf, b.q, field.early, left)
  <2>. DEFINE b0 == [b EXCEPT !.o = 0]
  <2>1. b0.o = 0 /\ b0.q = b.q /\ b0.buf = b.buf
    BY DEF IsBuffer
  <2>. HIDE DEF b0, left
  <2>2. Left(b0, left) = left
    <3>1. b0.o \in Nat /\ left \in Nat
      BY <1>4, <2>1
    <3>2. Left(b0, left) = IF b0.o < left THEN left - b0.o ELSE 0
      BY <3>1, LeftIs
    <3> QED BY <1>4, <2>1, <3>2
  <2>3. left \in Int /\ x \in Int
    BY <1>2, <1>4
  <2>4. Min({left, x}) = IF left <= x THEN left ELSE x
    BY <2>3, MaxOfTwo
  <2>5. first = [o |-> 0 + x, q |-> b.q + Min({left, x}), buf |-> Put(b.buf, b.q, field.early, left)]
    BY <1>1, <2>1, <2>2 DEF EMIT, b0
  <2>. HIDE DEF first
  <2>6. first.o = 0 + x /\ first.q = b.q + Min({left, x}) /\ first.buf = Put(b.buf, b.q, field.early, left)
    BY <2>5
  <2> QED BY <1>2, <2>4, <2>6
<1>. HIDE DEF first, left
<1>7. second.o = x + y /\ second.q = first.q + y
  BY <1>1, <1>6
<1>8. second.buf = Put(b.buf, b.q, both, left)
  <2>1. second.buf = Put(Put(b.buf, b.q, field.early, left), first.q, field.number, left - x)
    BY <1>6
  <2>2. DOMAIN b.buf \subseteq Int /\ b.buf = [k \in DOMAIN b.buf |-> b.buf[k]]
    BY <1>3
  <2>3. b.q \in Nat /\ first.q \in Nat /\ left \in Nat /\ left - x \in Int
    BY <1>2, <1>4, <1>6
  <2>4. /\ Len(field.early) <= left => /\ first.q = b.q + Len(field.early)
                                     /\ left - x = left - Len(field.early)
        /\ Len(field.early) > left => left - x <= 0
    BY <1>1, <1>2, <1>4, <1>6
  <2>. HIDE DEF second
  <2> QED BY <2>1, <2>2, <2>3, <2>4, Behind
<1>9. IsText(both) /\ Len(both) = x + y
  BY <1>1, Joined
<1>. HIDE DEF second, both
<1>10. /\ third.o = x + y + z
      /\ third.buf = Put(second.buf, second.q, field.late, Left(second, left))
  BY <1>1, <1>7 DEF EMIT
<1>. HIDE DEF third
<1>11. third.buf = Put(b.buf, b.q, both \o field.late, left)
  <2>1. /\ Left(second, left) = (IF second.o < left THEN left - second.o ELSE 0)
        /\ Left(second, left) \in Nat
    <3>1. second.o \in Nat /\ left \in Nat
      BY <1>2, <1>4, <1>7
    <3> QED BY <3>1, LeftIs
  <2>2. /\ Len(both) <= left => /\ second.q = b.q + Len(both)
                                /\ Left(second, left) = left - Len(both)
        /\ Len(both) > left => Left(second, left) <= 0
        /\ second.q \in Nat
    <3>0. first.q = b.q + IF left <= x THEN left ELSE x
      BY <1>6
    <3>1. x + y <= left => second.q = b.q + (x + y)
      <4>. SUFFICES ASSUME x + y <= left PROVE second.q = b.q + (x + y)
        OBVIOUS
      <4>1. x <= left /\ (left <= x => left = x)
        BY <1>2, <1>4
      <4>2. first.q = b.q + x
        BY <3>0, <4>1
      <4> QED BY <1>2, <1>7, <4>2
    <3>2. second.q \in Nat
      BY <1>2, <1>4, <1>6, <1>7
    <3>3. /\ x + y <= left => Left(second, left) = left - (x + y)
          /\ x + y > left => Left(second, left) <= 0
      BY <1>2, <1>4, <1>7, <2>1
    <3> QED BY <1>9, <3>1, <3>2, <3>3
  <2>3. DOMAIN b.buf \subseteq Int /\ b.buf = [k \in DOMAIN b.buf |-> b.buf[k]]
    BY <1>3
  <2>4. b.q \in Nat /\ second.q \in Nat /\ left \in Nat /\ Left(second, left) \in Int
    BY <1>2, <1>4, <2>1, <2>2
  <2>5. Put(Put(b.buf, b.q, both, left), second.q, field.late, Left(second, left))
            = Put(b.buf, b.q, both \o field.late, left)
    BY <1>9, <2>2, <2>3, <2>4, Behind
  <2> QED BY <1>8, <1>10, <2>5
<1>12. Len(both \o field.late) = x + y + z
  <2>1. Len(both \o field.late) = Len(both) + Len(field.late)
    BY <1>9, Joined
  <2> QED BY <1>1, <1>9, <2>1
<1>. HIDE DEF c
<1>13. /\ c.o = b.o + Len(both \o field.late) /\ c.q = b.q + Len(both \o field.late)
       /\ c.buf = Put(b.buf, b.q, both \o field.late, left)
       /\ c = [o |-> c.o, q |-> c.q, buf |-> c.buf]
  BY <1>5, <1>10, <1>11, <1>12
<1>14. c.o = b.o + (x + y + z) /\ c.q = b.q + (x + y + z)
  BY <1>12, <1>13
<1>15. c.buf = [k \in 0 .. Room - 1 |-> c.buf[k]]
  BY <1>13, <1>3 DEF Put
<1>16. IsBuffer(c)
  <2>1. c.o \in Nat /\ c.q \in Nat
    BY <1>2, <1>14
  <2> QED BY <1>13, <1>15, <2>1 DEF IsBuffer
<1>17. InPlace(c, size)
  <2>1. x + y + z \in Nat
    BY <1>2
  <2>2. b.o <= size => b.q = b.o
    BY DEF InPlace
  <2>3. c.o <= size => c.q = c.o
    BY <1>2, <1>14, <2>1, <2>2
  <2> QED BY <2>3 DEF InPlace
<1> QED BY <1>13, <1>16, <1>17 DEF Written, c, both, left

\* What is written to both buffers keeps the text of one in the other.
LEMMA TextGoesOn ==
    ASSUME VsnInv, ret = -1, NEW s, IsText(s),
           Written(out, n, s, out'), Written(all, Room, s, all')
    PROVE  /\ IsBuffer(out') /\ IsBuffer(all') /\ all'.o = out'.o
           /\ InPlace(out', n) /\ InPlace(all', Room)
           /\ \A k \in 0 .. Room - 1 :
                  out'.buf[k] = IF k < n /\ k < out'.o THEN all'.buf[k] ELSE Untouched
<1>1. /\ out.o \in Nat /\ out.q \in Nat /\ all.o = out.o /\ all.q \in Nat /\ Len(s) \in Nat
      /\ DOMAIN out.buf = 0 .. Room - 1 /\ DOMAIN all.buf = 0 .. Room - 1
      /\ n \in Nat /\ Room \in Nat /\ n < Room
  <2>1. out.buf = [k \in 0 .. Room - 1 |-> out.buf[k]] /\ all.buf = [k \in 0 .. Room - 1 |-> all.buf[k]]
    BY DEF IsBuffer, VsnInv
  <2>2. Room \in Nat
    BY VsnprintfAssumption
  <2>3. n \in 0 .. Room - 1
    BY DEF VsnInv
  <2> QED BY <2>1, <2>2, <2>3 DEF IsBuffer, IsText, VsnInv
<1>2. /\ Left(out, n) = (IF out.o < n THEN n - out.o ELSE 0)
      /\ Left(all, Room) = (IF out.o < Room THEN Room - out.o ELSE 0)
  BY <1>1, LeftIs
<1>3. ASSUME NEW k \in 0 .. Room - 1
      PROVE  out'.buf[k] = IF k < n /\ k < out'.o THEN all'.buf[k] ELSE Untouched
  <2>1. out'.buf[k] = IF k \in out.q .. out.q + Len(s) - 1 /\ k - out.q < Left(out, n)
                      THEN s[k - out.q + 1] ELSE out.buf[k]
    BY <1>1 DEF Written, Put
  <2>2. all'.buf[k] = IF k \in all.q .. all.q + Len(s) - 1 /\ k - all.q < Left(all, Room)
                      THEN s[k - all.q + 1] ELSE all.buf[k]
    BY <1>1 DEF Written, Put
  <2>3. out.buf[k] = IF k < n /\ k < out.o THEN all.buf[k] ELSE Untouched
    BY DEF VsnInv, TextSoFar
  <2>4. k \in Int /\ k < Room /\ k >= 0 /\ out'.o = out.o + Len(s)
    BY <1>1 DEF Written
  <2>5. /\ out.o <= n => out.q = out.o
        /\ out.o <= Room => all.q = out.o
    BY <1>1 DEF VsnInv, InPlace
  <2>6. CASE out.o >= n
    <3>1. out'.buf[k] = out.buf[k]
      BY <1>1, <1>2, <2>1, <2>4, <2>6
    <3>2. CASE k < n
      <4>1. all'.buf[k] = all.buf[k]
        <5>1. CASE out.o <= Room
          BY <1>1, <2>2, <2>4, <2>5, <2>6, <3>2, <5>1
        <5>2. CASE out.o > Room
          BY <1>1, <1>2, <2>2, <2>4, <5>2
        <5> QED BY <1>1, <5>1, <5>2
      <4> QED BY <1>1, <2>3, <2>4, <2>6, <3>1, <3>2, <4>1
    <3>3. CASE ~(k < n)
      BY <2>3, <3>1, <3>3
    <3> QED BY <3>2, <3>3
  <2>7. CASE out.o < n
    <3>1. out.q = out.o /\ all.q = out.o /\ Left(out, n) = n - out.o /\ Left(all, Room) = Room - out.o
      BY <1>1, <1>2, <2>5, <2>7
    <3>2. CASE k < out.o
      BY <1>1, <2>1, <2>2, <2>3, <2>4, <2>7, <3>1, <3>2
    <3>3. CASE k >= out.o /\ k < n /\ k < out.o + Len(s)
      BY <1>1, <2>1, <2>2, <2>3, <2>4, <2>7, <3>1, <3>3
    <3>4. CASE k >= n \/ k >= out.o + Len(s)
      BY <1>1, <2>1, <2>3, <2>4, <2>7, <3>1, <3>4
    <3> QED BY <1>1, <2>4, <3>2, <3>3, <3>4
  <2> QED BY <1>1, <2>6, <2>7
<1> QED BY <1>1, <1>3 DEF Written

----------------------------------------------------------------------------
(* Integers                                                                 *)

LEMMA RaiseIs ==
    ASSUME NEW b \in Nat \ {0}
    PROVE  /\ Raise(b, 0) = 1
           /\ \A k \in Nat : Raise(b, k) \in Nat \ {0} /\ Raise(b, k + 1) = b * Raise(b, k)
<1>. DEFINE NextPower(f) == [i \in Nat |-> IF i = 0 THEN 1 ELSE b * f[i - 1]]
            power == CHOOSE f : f = NextPower(f)
<1>1. PICK f \in [Nat -> Nat \ {0}] : f[0] = 1 /\ \A k \in Nat : f[k + 1] = b * f[k]
  BY PowersAre
<1>2. f = NextPower(f)
  <2>1. ASSUME NEW i \in Nat PROVE f[i] = IF i = 0 THEN 1 ELSE b * f[i - 1]
    <3>1. CASE i = 0
      BY <1>1, <3>1
    <3>2. CASE i # 0
      <4>1. i - 1 \in Nat /\ (i - 1) + 1 = i
        BY <3>2
      <4>2. f[(i - 1) + 1] = b * f[i - 1]
        BY <1>1, <4>1
      <4> QED BY <3>2, <4>1, <4>2
    <3> QED BY <3>1, <3>2
  <2> QED BY <2>1
<1>3. power = NextPower(power)
  <2>. HIDE DEF NextPower
  <2> QED BY <1>2
<1>4. \A k \in Nat : Raise(b, k) = power[k]
  BY DEF Raise
<1>. HIDE DEF power
<1>5. power[0] = 1 /\ \A k \in Nat : power[k + 1] = b * power[k]
  <2>1. \A i \in Nat : power[i] = IF i = 0 THEN 1 ELSE b * power[i - 1]
    BY <1>3
  <2>2. power[0] = 1
    BY <2>1
  <2>3. ASSUME NEW k \in Nat PROVE power[k + 1] = b * power[k]
    <3>1. k + 1 \in Nat /\ k + 1 # 0 /\ (k + 1) - 1 = k
      OBVIOUS
    <3> QED BY <2>1, <3>1
  <2> QED BY <2>2, <2>3
<1>. DEFINE S == {k \in Nat : power[k] \in Nat \ {0}}
<1>6. Nat \subseteq S
  <2>1. 0 \in S
    BY <1>5
  <2>2. ASSUME NEW i \in Nat, i \in S PROVE i + 1 \in S
    <3>1. power[i] \in Nat \ {0} /\ power[i + 1] = b * power[i]
      BY <1>5, <2>2
    <3> QED BY <3>1
  <2>. HIDE DEF S
  <2> QED BY <2>1, <2>2, Induction
<1>7. \A k \in Nat : power[k] \in Nat \ {0}
  BY <1>6
<1> QED BY <1>4, <1>5, <1>7

LEMMA PowersGrow ==
    /\ \A b \in Nat \ {0}, k, j \in Nat : k <= j => Raise(b, k) <= Raise(b, j)
    /\ \A b \in Nat \ {0, 1}, k \in Nat : Raise(2, k) <= Raise(b, k)
<1>1. ASSUME NEW b \in Nat \ {0}, NEW k \in Nat, NEW j \in Nat, k <= j
      PROVE  Raise(b, k) <= Raise(b, j)
  <2>. DEFINE S == {d \in Nat : Raise(b, k) <= Raise(b, k + d)}
  <2>1. 0 \in S
    <3>1. Raise(b, k) \in Nat /\ k + 0 = k
      BY RaiseIs
    <3> QED BY <3>1
  <2>2. ASSUME NEW d \in Nat, d \in S PROVE d + 1 \in S
    <3>1. /\ k + d \in Nat /\ k + (d + 1) = (k + d) + 1
      OBVIOUS
    <3>2. /\ Raise(b, k + d) \in Nat \ {0} /\ Raise(b, (k + d) + 1) = b * Raise(b, k + d)
          /\ Raise(b, k) \in Nat
      BY <3>1, RaiseIs
    <3>3. \A x \in Nat : x <= b * x
      BY Products
    <3>4. Raise(b, k + d) <= Raise(b, k + (d + 1)) /\ Raise(b, k + (d + 1)) \in Nat
      BY <3>1, <3>2, <3>3
    <3> QED BY <2>2, <3>2, <3>4
  <2>. HIDE DEF S
  <2>3. Nat \subseteq S
    BY <2>1, <2>2, Induction
  <2>4. j - k \in S /\ k + (j - k) = j
    BY <1>1, <2>3
  <2> QED BY <2>4 DEF S
<1>2. ASSUME NEW b \in Nat \ {0, 1}, NEW j \in Nat
      PROVE  Raise(2, j) <= Raise(b, j)
  <2>. DEFINE S == {k \in Nat : Raise(2, k) <= Raise(b, k)}
  <2>0. 2 \in Nat \ {0} /\ b \in Nat \ {0}
    OBVIOUS
  <2>1. 0 \in S
    BY <2>0, RaiseIs
  <2>2. ASSUME NEW k \in Nat, k \in S PROVE k + 1 \in S
    <3>1. /\ Raise(2, k) \in Nat /\ Raise(2, k + 1) = 2 * Raise(2, k)
      BY <2>0, RaiseIs
    <3>2. /\ Raise(b, k) \in Nat /\ Raise(b, k + 1) = b * Raise(b, k)
      BY <2>0, RaiseIs
    <3>3. Raise(b, k + 1) = 2 * Raise(b, k) + (b - 2) * Raise(b, k) /\ (b - 2) * Raise(b, k) \in Nat
      BY <3>2
    <3> QED BY <2>2, <3>1, <3>2, <3>3
  <2>. HIDE DEF S
  <2>3. Nat \subseteq S
    BY <2>1, <2>2, Induction
  <2> QED BY <2>3 DEF S
<1> QED BY <1>1, <1>2

LEMMA RankIs ==
    ASSUME conv \in Conversions
    PROVE  /\ Rank \in Int /\ TypeBits[Rank] \in Nat \ {0}
           /\ TypeBits[Rank] <= TypeBits[rank_longlong] /\ TypeBits[rank_longlong] \in Nat \ {0}
<1>. USE DEF rank_char, rank_short, rank_int, rank_long, rank_longlong
<1>1. conv.rank \in Int
  BY DEF Conversions
<1>2. Rank \in {-2, -1, 0, 1, 2}
  <2>. DEFINE m == IF conv.rank >= -2 THEN conv.rank ELSE -2
  <2>1. Max({conv.rank, rank_char}) = m /\ m \in Int
    BY <1>1, MaxOfTwo
  <2>2. Rank = IF m <= 2 THEN m ELSE 2
    <3>. HIDE DEF m
    <3>1. 2 \in Int
      OBVIOUS
    <3> QED BY <2>1, <3>1, MaxOfTwo DEF Rank
  <2> QED BY <1>1, <2>2
<1>3. /\ TypeBits \in [-2 .. 2 -> Nat \ {0}]
      /\ \A r \in -2 .. 1 : TypeBits[r] <= TypeBits[r + 1]
  BY VsnprintfAssumption
<1>4. /\ TypeBits[-2] <= TypeBits[-1] /\ TypeBits[-1] <= TypeBits[0]
      /\ TypeBits[0] <= TypeBits[1] /\ TypeBits[1] <= TypeBits[2]
  <2>1. TypeBits[-2] <= TypeBits[-2 + 1] /\ TypeBits[-1] <= TypeBits[-1 + 1]
    BY <1>3
  <2>2. TypeBits[0] <= TypeBits[0 + 1] /\ TypeBits[1] <= TypeBits[1 + 1]
    BY <1>3
  <2>3. -2 + 1 = -1 /\ -1 + 1 = 0 /\ 0 + 1 = 1 /\ 1 + 1 = 2
    OBVIOUS
  <2> QED BY <2>1, <2>2, <2>3
<1>5. /\ TypeBits[-2] \in Nat \ {0} /\ TypeBits[-1] \in Nat \ {0} /\ TypeBits[0] \in Nat \ {0}
      /\ TypeBits[1] \in Nat \ {0} /\ TypeBits[2] \in Nat \ {0}
  BY <1>3
<1> QED BY <1>2, <1>4, <1>5

\* The absolute value of an integer is within the longest type.
LEMMA ValueFits ==
    ASSUME conv \in Conversions, Ch \in DOMAIN BaseOf, Arg \in Int
    PROVE  /\ Value \in Int
           /\ Value < 0 => "signed" \in Conversion.flags /\ -Value < Raise(2, TypeBits[rank_longlong])
           /\ Value < Raise(2, TypeBits[rank_longlong])
<1>. DEFINE limit == Raise(2, TypeBits[rank_longlong])
            bits == TypeBits[Rank]
<1>0. 2 \in Nat \ {0}
  OBVIOUS
<1>1. /\ bits \in Nat \ {0} /\ bits <= TypeBits[rank_longlong]
      /\ TypeBits[rank_longlong] \in Nat \ {0}
  BY RankIs
<1>. HIDE DEF bits
<1>2. /\ Pow(bits) \in Nat \ {0} /\ Pow(bits) <= limit /\ limit \in Nat
      /\ Pow(bits - 1) \in Nat \ {0} /\ Pow(bits) = 2 * Pow(bits - 1)
  <2>1. bits - 1 \in Nat /\ (bits - 1) + 1 = bits
    BY <1>1
  <2>2. Raise(2, bits - 1) \in Nat \ {0} /\ Raise(2, bits) = 2 * Raise(2, bits - 1)
    BY <1>0, <2>1, RaiseIs
  <2>3. Raise(2, bits) <= limit /\ limit \in Nat /\ Raise(2, bits) \in Nat \ {0}
    BY <1>0, <1>1, RaiseIs, PowersGrow
  <2> QED BY <2>2, <2>3 DEF Pow
<1>3. unsigned(Arg, Rank) \in 0 .. Pow(bits) - 1
  <2>1. unsigned(Arg, Rank) = Arg % Pow(bits)
    BY DEF unsigned, bits
  <2> QED BY <1>2, <2>1
<1>4. CASE Ch \in {"p", "P"}
  <2>1. Value = Arg % Pow(PointerBits)
    BY <1>4 DEF Value
  <2>2. PointerBits \in Nat /\ PointerBits <= TypeBits[rank_longlong]
    BY <1>1, VsnprintfAssumption
  <2>3. Raise(2, PointerBits) \in Nat \ {0} /\ Raise(2, PointerBits) <= limit
    BY <1>0, <1>1, <2>2, RaiseIs, PowersGrow
  <2>. HIDE DEF limit
  <2>4. Value \in 0 .. Raise(2, PointerBits) - 1
    BY <2>1, <2>3 DEF Pow
  <2>5. Value \in Int /\ ~(Value < 0) /\ Value < limit
    BY <1>2, <2>3, <2>4
  <2> QED BY <2>5 DEF limit
<1>5. CASE Ch \in {"d", "i"}
  <2>. DEFINE u == unsigned(Arg, Rank)
  <2>1. Value = IF u >= Pow(bits - 1) THEN u - Pow(bits) ELSE u
    <3>1. Value = signed(Arg, Rank)
      BY <1>5 DEF Value
    <3> QED BY <3>1 DEF signed, bits
  <2>2. "signed" \in Conversion.flags
    <3>1. Conversion.flags = conv.flags \cup (IF Ch \in {"d", "i"} THEN {"signed"} ELSE {})
                    \cup (IF Ch \in {"X", "P"} THEN {"upper"} ELSE {})
                    \cup (IF Ch \in {"p", "P"} THEN {"#"} ELSE {})
      BY DEF Conversion, Conversions
    <3> QED BY <1>5, <3>1
  <2>. HIDE DEF u, limit
  <2>3. u \in 0 .. Pow(bits) - 1
    BY <1>3 DEF u
  <2>4. Value \in Int /\ Value < limit /\ (Value < 0 => -Value < limit)
    BY <1>2, <2>1, <2>3
  <2> QED BY <2>2, <2>4 DEF limit
<1>6. CASE Ch \notin {"p", "P", "d", "i"}
  <2>1. Value = unsigned(Arg, Rank)
    BY <1>6 DEF Value
  <2>. HIDE DEF limit
  <2>2. Value \in Int /\ ~(Value < 0) /\ Value < limit
    BY <1>2, <1>3, <2>1
  <2> QED BY <2>2 DEF limit
<1> QED BY <1>4, <1>5, <1>6

LEMMA DigitsAre ==
    ASSUME NEW val \in Nat, val < Raise(2, TypeBits[rank_longlong]), NEW base \in {8, 10, 16}
    PROVE  ndigits(val, base) \in Nat /\ (val # 0 => ndigits(val, base) # 0)
<1>. DEFINE m == TypeBits[rank_longlong]
            S == {k \in 0 .. m : Raise(base, k) > val}
<1>1. m \in Nat
  BY VsnprintfAssumption DEF rank_char, rank_longlong
<1>2. base \in Nat \ {0, 1} /\ base \in Nat \ {0} /\ 2 \in Nat \ {0}
  OBVIOUS
<1>3. m \in S
  <2>1. Raise(2, m) <= Raise(base, m) /\ Raise(2, m) \in Nat /\ Raise(base, m) \in Nat
    BY <1>1, <1>2, PowersGrow, RaiseIs
  <2>. HIDE DEF m
  <2>2. val < Raise(2, m)
    BY DEF m
  <2> QED BY <1>1, <2>1, <2>2
<1>4. S \in SUBSET Nat /\ S # {}
  BY <1>1, <1>3
<1>. HIDE DEF S
<1>5. PICK x \in S : \A y \in S : x <= y
  BY <1>4, Least
<1>6. Min(S) \in S
  BY <1>5 DEF Min
<1>7. ndigits(val, base) = Min(S)
  BY DEF ndigits, S
<1>8. val # 0 => 0 \notin S
  BY <1>2, RaiseIs DEF S
<1> QED BY <1>4, <1>6, <1>7, <1>8

LEMMA FunctionsAreTexts ==
    ASSUME NEW m \in Int, NEW f, f = [k \in 1 .. m |-> f[k]]
    PROVE  IsText(f)
<1>1. CASE m >= 0
  <2>1. f \in [1 .. m -> Range(f)]
    BY DEF Range
  <2>2. f \in Seq(Range(f))
    BY <1>1, <2>1
  <2> QED BY <2>2, SequencesAreTexts
<1>2. CASE m < 0
  <2>1. 1 .. m = {} /\ 1 .. 0 = {}
    BY <1>2
  <2>2. f \in [1 .. 0 -> {}]
    BY <2>1
  <2>3. f \in Seq({})
    BY <2>2
  <2> QED BY <2>3, SequencesAreTexts
<1> QED BY <1>1, <1>2

\* What is printed of an integer is a text, whatever is in it.
LEMMA FieldIs ==
    ASSUME NEW val \in Int, NEW c \in Conversions, NEW base \in {8, 10, 16},
           val < 0 => "signed" \in c.flags /\ -val < Raise(2, TypeBits[rank_longlong]),
           val < Raise(2, TypeBits[rank_longlong])
    PROVE  /\ IsText(Field(val, c, base).early)
           /\ IsText(Field(val, c, base).number)
           /\ IsText(Field(val, c, base).late)
<1>. DEFINE Is(f)  == f \in c.flags
            minus  == Is("signed") /\ val < 0
            abs    == IF minus THEN -val ELSE val
            d      == ndigits(abs, base)
            prec   == IF Is("#") /\ base = 8 THEN Max({c.prec, d + 1}) ELSE c.prec
            digits == IF d < prec THEN prec ELSE IF abs = 0 THEN 1 ELSE d
            skip   == IF Is("'") THEN IF base = 16 THEN 4 ELSE 3 ELSE digits
            number == Number(abs, base, digits, skip, Is("upper"))
            sign   == IF minus THEN <<"-">> ELSE IF Is("+") THEN <<"+">>
                      ELSE IF Is(" ") THEN <<" ">> ELSE <<>>
            hex    == IF Is("#") /\ base = 16 THEN <<"0", IF Is("upper") THEN "X" ELSE "x">> ELSE <<>>
            fill   == c.width - Len(number) - Len(sign) - Len(hex)
            before == IF Is("-") \/ Is("0") THEN <<>> ELSE Times(" ", fill)
            zeroes == IF Is("0") /\ ~Is("-") THEN Times("0", fill) ELSE <<>>
            late   == IF Is("-") THEN Times(" ", fill) ELSE <<>>
<1>1. Field(val, c, base) = [early |-> before \o sign \o hex \o zeroes, number |-> number, late |-> late]
  BY DEF Field
<1>2. c.prec \in Int /\ c.width \in Int
  BY DEF Conversions
<1>3. abs \in Nat /\ abs < Raise(2, TypeBits[rank_longlong])
  OBVIOUS
<1>. HIDE DEF abs
<1>4. d \in Nat /\ (abs # 0 => d # 0)
  BY <1>3, DigitsAre
<1>. HIDE DEF d
<1>5. prec \in Int
  <2>1. d + 1 \in Int
    BY <1>4
  <2>2. Max({c.prec, d + 1}) \in Int
    BY <1>2, <2>1, MaxOfTwo
  <2> QED BY <1>2, <2>2
<1>. HIDE DEF prec
<1>6. digits \in Nat \ {0}
  BY <1>4, <1>5
<1>. HIDE DEF digits
<1>7. skip \in Nat \ {0}
  BY <1>6
<1>. HIDE DEF skip
<1>8. IsText(number)
  <2>. DEFINE length == digits + (digits - 1) \div skip
  <2>1. length \in Int
    BY <1>6, <1>7
  <2>2. number = [k \in 1 .. length |-> number[k]]
    BY DEF Number
  <2>. HIDE DEF length, number
  <2> QED BY <2>1, <2>2, FunctionsAreTexts
<1>. HIDE DEF number
<1>9. IsText(sign) /\ IsText(hex)
  BY ShortTexts
<1>. HIDE DEF sign, hex
<1>10. fill \in Int
  BY <1>2, <1>8, <1>9 DEF IsText
<1>. HIDE DEF fill
<1>11. IsText(before) /\ IsText(zeroes) /\ IsText(late)
  BY <1>10, Padding, ShortTexts
<1>. HIDE DEF before, zeroes, late
<1>12. IsText(before \o sign \o hex \o zeroes)
  BY <1>9, <1>11, Joined
<1> QED BY <1>1, <1>8, <1>11, <1>12

----------------------------------------------------------------------------
(* Steps of vsnprintf                                                       *)

\* What the step of a call keeps.
SameCall == n' = n /\ ret' = ret /\ conv' \in Conversions

LEMMA NothingWritten ==
    ASSUME VsnInv, SameCall, out' = out, all' = all
    PROVE  VsnInv'
  BY DEF VsnInv, SameCall, IsBuffer, InPlace, TextSoFar, Terminated, LastByte

LEMMA SomethingWritten ==
    ASSUME VsnInv, ret = -1, SameCall, NEW s, IsText(s),
           Written(out, n, s, out'), Written(all, Room, s, all')
    PROVE  VsnInv'
<1>1. /\ IsBuffer(out') /\ IsBuffer(all') /\ all'.o = out'.o
      /\ InPlace(out', n) /\ InPlace(all', Room)
      /\ \A k \in 0 .. Room - 1 :
             out'.buf[k] = IF k < n /\ k < out'.o THEN all'.buf[k] ELSE Untouched
  BY TextGoesOn
<1>2. TextSoFar'
  BY <1>1 DEF TextSoFar, SameCall
<1> QED BY <1>1, <1>2 DEF VsnInv, SameCall, IsBuffer, InPlace

LEMMA SomethingEmitted ==
    ASSUME VsnInv, ret = -1, SameCall, NEW s, IsText(s), Emits(s)
    PROVE  VsnInv'
<1>1. n \in Nat /\ Room \in Nat
  BY VsnprintfAssumption DEF VsnInv
<1>2. Written(out, n, s, EMIT(out, n, s)) /\ Written(all, Room, s, EMIT(all, Room, s))
  BY <1>1, EmitWrites DEF VsnInv
<1>3. Written(out, n, s, out') /\ Written(all, Room, s, all')
  BY <1>2 DEF Emits
<1> QED BY <1>3, SomethingWritten

LEMMA DecimalIs ==
    ASSUME NEW i \in DOMAIN Decimal
    PROVE  Decimal[i] \in 0 .. 9
<1>1. i \in {"0", "1", "2", "3", "4", "5", "6", "7", "8", "9"}
  BY DEF Decimal
<1>. DEFINE ten == <<"0", "1", "2", "3", "4", "5", "6", "7", "8", "9">>
            six == <<"a", "b", "c", "d", "e", "f">>
<1>2. IsText(ten) /\ IsText(six) /\ Len(ten) = 10 /\ Len(six) = 6
  <2>1. ten = [k \in 1 .. 10 |-> ten[k]] /\ six = [k \in 1 .. 6 |-> six[k]]
    OBVIOUS
  <2>2. Len(ten) = 10 /\ Len(six) = 6
    OBVIOUS
  <2>3. 10 \in Int /\ 6 \in Int
    OBVIOUS
  <2>. HIDE DEF ten, six
  <2>4. IsText(ten)
    BY <2>1, <2>3, FunctionsAreTexts
  <2>5. IsText(six)
    BY <2>1, <2>3, FunctionsAreTexts
  <2> QED BY <2>2, <2>4, <2>5
<1>3. DigitChars(FALSE) = ten \o six
  BY DEF DigitChars
<1>4. PICK k \in 0 .. 9 : ten[k + 1] = i
  <2>1. /\ ten[1] = "0" /\ ten[2] = "1" /\ ten[3] = "2" /\ ten[4] = "3" /\ ten[5] = "4"
        /\ ten[6] = "5" /\ ten[7] = "6" /\ ten[8] = "7" /\ ten[9] = "8" /\ ten[10] = "9"
    OBVIOUS
  <2>. HIDE DEF ten
  <2>2. /\ ten[0 + 1] = "0" /\ ten[1 + 1] = "1" /\ ten[2 + 1] = "2" /\ ten[3 + 1] = "3"
        /\ ten[4 + 1] = "4" /\ ten[5 + 1] = "5" /\ ten[6 + 1] = "6" /\ ten[7 + 1] = "7"
        /\ ten[8 + 1] = "8" /\ ten[9 + 1] = "9"
    BY <2>1
  <2>3. {0, 1, 2, 3, 4, 5, 6, 7, 8, 9} \subseteq 0 .. 9
    OBVIOUS
  <2>4. \E k \in {0, 1, 2, 3, 4, 5, 6, 7, 8, 9} : ten[k + 1] = i
    BY <1>1, <2>2
  <2> QED BY <2>3, <2>4
<1>. HIDE DEF ten, six
<1>5. DigitChars(FALSE)[k + 1] = i
  <2>1. k + 1 \in 1 .. Len(ten) + Len(six) /\ k + 1 <= Len(ten)
    BY <1>2
  <2>2. (ten \o six)[k + 1] = ten[k + 1]
    BY <1>2, <2>1, Joined
  <2> QED BY <1>3, <1>4, <2>2
<1>6. Decimal[i] = CHOOSE j \in 0 .. 9 : DigitChars(FALSE)[j + 1] = i
  BY <1>1 DEF Decimal
<1> QED BY <1>5, <1>6

LEMMA LiteralStep == ASSUME VsnInv, Literal PROVE VsnInv'
<1>1. SameCall /\ ret = -1
  BY DEF Literal, VsnInv, SameCall, In, call
<1>2. Emits(<<Ch>>)
  BY DEF Literal
<1> QED BY <1>1, <1>2, ShortTexts, SomethingEmitted

LEMMA PercentStep == ASSUME VsnInv, Percent PROVE VsnInv'
<1>1. Fresh \in Conversions
  BY DEF Fresh, Conversions, rank_int
<1>2. SameCall
  BY <1>1 DEF Percent, SameCall, call
<1> QED BY <1>2, NothingWritten DEF Percent

LEMMA FlagStep == ASSUME VsnInv, Flag PROVE VsnInv'
<1>1. conv' \in Conversions
  <2>1. CASE Ch \in {"-", "+", "'", " ", "#", "0"}
    <3>1. conv' = [conv EXCEPT !.flags = @ \cup {Ch}]
      BY <2>1 DEF Flag
    <3>2. conv.flags \cup {Ch} \in SUBSET Flags
      BY <2>1 DEF VsnInv, Conversions, Flags
    <3> QED BY <3>1, <3>2 DEF VsnInv, Conversions
  <2>2. CASE Ch \notin {"-", "+", "'", " ", "#", "0"}
    BY <2>2 DEF Flag, Again, VsnInv
  <2> QED BY <2>1, <2>2
<1>2. SameCall
  BY <1>1 DEF Flag, SameCall, call
<1> QED BY <1>2, NothingWritten DEF Flag

LEMMA WidthStep == ASSUME VsnInv, ArgsAreTyped, Width PROVE VsnInv'
<1>0. conv \in Conversions
  BY DEF VsnInv
<1>1. conv' \in Conversions
  <2>1. CASE Ch \in DOMAIN Decimal /\ conv' = [conv EXCEPT !.width = 10 * @ + Decimal[Ch]]
    <3>1. Decimal[Ch] \in Int
      BY <2>1, DecimalIs
    <3>2. conv.width \in Int
      BY <1>0 DEF Conversions
    <3>3. 10 * conv.width + Decimal[Ch] \in Int
      BY <3>1, <3>2
    <3> QED BY <1>0, <2>1, <3>3 DEF Conversions
  <2>2. CASE Ch = "*" /\ conv' = IF Arg < 0 THEN [conv EXCEPT !.width = -Arg, !.flags = @ \cup {"-"}]
                                 ELSE [conv EXCEPT !.width = Arg]
    <3>1. Arg \in Int
      BY <2>2 DEF Width, In, ArgsAreTyped
    <3>2. conv.flags \cup {"-"} \in SUBSET Flags
      BY <1>0 DEF Conversions, Flags
    <3>3. [conv EXCEPT !.width = -Arg, !.flags = @ \cup {"-"}] \in Conversions
      <4>1. -Arg \in Int
        BY <3>1
      <4> QED BY <1>0, <3>2, <4>1 DEF Conversions
    <3>4. [conv EXCEPT !.width = Arg] \in Conversions
      BY <1>0, <3>1 DEF Conversions
    <3> QED BY <2>2, <3>3, <3>4
  <2>3. CASE conv' = [conv EXCEPT !.prec = 0]
    BY <1>0, <2>3 DEF Conversions
  <2>4. CASE conv' = conv
    BY <1>0, <2>4
  <2> QED BY <2>1, <2>2, <2>3, <2>4 DEF Width, Again
<1>2. SameCall
  BY <1>1 DEF Width, SameCall, call
<1> QED BY <1>2, NothingWritten DEF Width

LEMMA PrecisionStep == ASSUME VsnInv, ArgsAreTyped, Precision PROVE VsnInv'
<1>0. conv \in Conversions
  BY DEF VsnInv
<1>1. conv' \in Conversions
  <2>1. CASE Ch \in DOMAIN Decimal /\ conv' = [conv EXCEPT !.prec = 10 * @ + Decimal[Ch]]
    <3>1. Decimal[Ch] \in Int
      BY <2>1, DecimalIs
    <3>2. conv.prec \in Int
      BY <1>0 DEF Conversions
    <3>3. 10 * conv.prec + Decimal[Ch] \in Int
      BY <3>1, <3>2
    <3> QED BY <1>0, <2>1, <3>3 DEF Conversions
  <2>2. CASE Ch = "*" /\ conv' = [conv EXCEPT !.prec = Max({Arg, -1})]
    <3>1. Arg \in Int
      BY <2>2 DEF Precision, In, ArgsAreTyped
    <3>2. -1 \in Int
      OBVIOUS
    <3>3. Max({Arg, -1}) \in Int
      BY <3>1, <3>2, MaxOfTwo
    <3> QED BY <1>0, <2>2, <3>3 DEF Conversions
  <2>3. CASE conv' = conv
    BY <1>0, <2>3
  <2> QED BY <2>1, <2>2, <2>3 DEF Precision, Again
<1>2. SameCall
  BY <1>1 DEF Precision, SameCall, call
<1> QED BY <1>2, NothingWritten DEF Precision

LEMMA ModifierStep == ASSUME VsnInv, Modifier PROVE VsnInv'
<1>0. conv \in Conversions /\ conv.rank \in Int
  BY DEF VsnInv, Conversions
<1>. DEFINE r == IF Ch \in DOMAIN RankBy THEN conv.rank + RankBy[Ch] ELSE RankOf[Ch]
<1>1. r \in Int
  <2>1. \A x \in DOMAIN RankBy : RankBy[x] \in Int
    BY DEF RankBy
  <2>2. \A x \in DOMAIN RankOf : RankOf[x] \in Int
    BY DEF RankOf, rank_long, rank_longlong
  <2>3. Ch \in DOMAIN RankBy \/ Ch \in DOMAIN RankOf
    BY DEF Modifier
  <2>. HIDE DEF RankBy, RankOf
  <2> QED BY <1>0, <2>1, <2>2, <2>3
<1>2. conv' = [conv EXCEPT !.rank = r]
  BY DEF Modifier
<1>. HIDE DEF r
<1>3. conv' \in Conversions
  BY <1>0, <1>1, <1>2 DEF Conversions
<1>4. SameCall
  BY <1>3 DEF Modifier, SameCall, call
<1> QED BY <1>4, NothingWritten DEF Modifier

LEMMA ConvertIntegerStep == ASSUME VsnInv, ArgsAreTyped, ConvertInteger PROVE VsnInv'
<1>0. conv \in Conversions /\ ret = -1 /\ n \in Nat /\ Room \in Nat
  BY VsnprintfAssumption DEF VsnInv, ConvertInteger, In
<1>1. Arg \in Int /\ Ch \in DOMAIN BaseOf
  BY DEF ConvertInteger, In, ArgsAreTyped
<1>2. Conversion \in Conversions
  <2>. DEFINE fl == conv.flags \cup (IF Ch \in {"d", "i"} THEN {"signed"} ELSE {})
                    \cup (IF Ch \in {"X", "P"} THEN {"upper"} ELSE {})
                    \cup (IF Ch \in {"p", "P"} THEN {"#"} ELSE {})
              pr == IF Ch \in {"p", "P"} THEN (PointerBits + 3) \div 4 ELSE conv.prec
  <2>1. fl \in SUBSET Flags
    BY <1>0 DEF Conversions, Flags
  <2>2. pr \in Int
    <3>1. PointerBits \in Int
      BY VsnprintfAssumption
    <3> QED BY <1>0, <3>1 DEF Conversions
  <2>3. Conversion = [conv EXCEPT !.flags = fl, !.prec = pr]
    BY DEF Conversion
  <2>. HIDE DEF fl, pr
  <2> QED BY <1>0, <2>1, <2>2, <2>3 DEF Conversions
<1>3. BaseOf[Ch] \in {8, 10, 16}
  BY <1>1 DEF BaseOf
<1>. DEFINE field == Field(Value, Conversion, BaseOf[Ch])
            s == (field.early \o field.number) \o field.late
<1>4. IsText(field.early) /\ IsText(field.number) /\ IsText(field.late)
  <2>1. /\ Value \in Int
        /\ Value < 0 => "signed" \in Conversion.flags /\ -Value < Raise(2, TypeBits[rank_longlong])
        /\ Value < Raise(2, TypeBits[rank_longlong])
    BY <1>0, <1>1, ValueFits
  <2> QED BY <1>2, <1>3, <2>1, FieldIs
<1>5. out' = format_int(out, n, field) /\ all' = format_int(all, Room, field)
  BY DEF ConvertInteger
<1>. HIDE DEF field
<1>6. IsText(s)
  BY <1>4, Joined
<1>7. Written(out, n, s, out')
  <2>1. IsBuffer(out) /\ InPlace(out, n)
    BY <1>0 DEF VsnInv
  <2> QED BY <1>0, <1>4, <1>5, <2>1, FieldWrites
<1>8. Written(all, Room, s, all')
  <2>1. IsBuffer(all) /\ InPlace(all, Room)
    BY <1>0 DEF VsnInv
  <2> QED BY <1>0, <1>4, <1>5, <2>1, FieldWrites
<1>9. SameCall
  BY <1>2 DEF ConvertInteger, SameCall, call
<1>. HIDE DEF s
<1> QED BY <1>0, <1>6, <1>7, <1>8, <1>9, SomethingWritten

LEMMA ConvertStringStep == ASSUME VsnInv, ArgsAreTyped, ConvertString PROVE VsnInv'
<1>0. conv \in Conversions /\ ret = -1 /\ conv.prec \in Int /\ conv.width \in Int
  BY DEF VsnInv, ConvertString, In, Conversions
<1>. DEFINE sarg == IF Ch = "c" THEN <<Arg>>
                    ELSE IF Arg = NULL THEN <<"(", "n", "u", "l", "l", ")">> ELSE Arg
            slen == IF conv.prec = -1 THEN Len(sarg) ELSE Min({Len(sarg), conv.prec})
            pad(c) == Times(c, conv.width - slen)
            s == IF "-" \in conv.flags THEN SubSeq(sarg, 1, slen) \o pad(" ")
                 ELSE pad(IF "0" \in conv.flags THEN "0" ELSE " ") \o SubSeq(sarg, 1, slen)
<1>1. Emits(s)
  BY DEF ConvertString
<1>2. IsText(sarg)
  <2>1. IsText(<<"(", "n", "u", "l", "l", ")">>)
    <3>. DEFINE t == <<"(", "n", "u", "l", "l", ")">>
    <3>1. t = [k \in 1 .. 6 |-> t[k]]
      OBVIOUS
    <3>. HIDE DEF t
    <3>2. 6 \in Int
      OBVIOUS
    <3>3. IsText(t)
      BY <3>1, <3>2, FunctionsAreTexts
    <3> QED BY <3>3 DEF t
  <2>2. Ch = "s" => Arg = NULL \/ IsText(Arg)
    BY DEF ConvertString, In, ArgsAreTyped
  <2>3. Ch \in {"c", "s"}
    BY DEF ConvertString
  <2> QED BY <2>1, <2>2, <2>3, ShortTexts
<1>. HIDE DEF sarg
<1>3. slen \in Int /\ slen <= Len(sarg)
  <2>1. Len(sarg) \in Int
    BY <1>2 DEF IsText
  <2>2. Min({Len(sarg), conv.prec}) = IF Len(sarg) <= conv.prec THEN Len(sarg) ELSE conv.prec
    BY <1>0, <2>1, MaxOfTwo
  <2> QED BY <1>0, <2>1, <2>2
<1>. HIDE DEF slen
<1>4. IsText(SubSeq(sarg, 1, slen))
  <2>1. SubSeq(sarg, 1, slen) = [k \in 1 .. slen |-> SubSeq(sarg, 1, slen)[k]]
    BY <1>2, <1>3 DEF IsText
  <2> QED BY <1>3, <2>1, FunctionsAreTexts
<1>5. \A c : IsText(pad(c))
  <2>1. conv.width - slen \in Int
    BY <1>0, <1>3
  <2> QED BY <2>1, Padding
<1>. HIDE DEF pad
<1>6. IsText(s)
  BY <1>4, <1>5, Joined
<1>7. SameCall
  BY <1>0 DEF ConvertString, SameCall, call
<1>. HIDE DEF s
<1> QED BY <1>0, <1>1, <1>6, <1>7, SomethingEmitted

LEMMA StoreCountStep == ASSUME VsnInv, StoreCount PROVE VsnInv'
<1>1. SameCall
  BY DEF StoreCount, SameCall, call, VsnInv
<1> QED BY <1>1, NothingWritten DEF StoreCount

LEMMA ConvertOtherStep == ASSUME VsnInv, ConvertOther PROVE VsnInv'
<1>1. SameCall /\ ret = -1
  BY DEF ConvertOther, VsnInv, SameCall, In, call
<1>2. Emits(<<Ch>>)
  BY DEF ConvertOther
<1> QED BY <1>1, <1>2, ShortTexts, SomethingEmitted

LEMMA FinishStep == ASSUME VsnInv, Finish PROVE VsnInv'
<1>1. /\ ret = -1 /\ ret' = out.o /\ n' = n /\ conv' = conv
      /\ out' = Terminate(out, n) /\ all' = Terminate(all, Room)
  BY DEF Finish, call
<1>2. /\ out.o \in Nat /\ out.q \in Nat /\ all.o = out.o /\ all.q \in Nat
      /\ n \in Nat /\ Room \in Nat /\ n < Room
  BY VsnprintfAssumption DEF VsnInv, IsBuffer
<1>3. out.buf = [k \in 0 .. Room - 1 |-> out.buf[k]] /\ all.buf = [k \in 0 .. Room - 1 |-> all.buf[k]]
  BY DEF VsnInv, IsBuffer
<1>4. ASSUME NEW b, IsBuffer(b), NEW size \in Nat, InPlace(b, size)
      PROVE  LET c == Terminate(b, size)
             IN  /\ IsBuffer(c) /\ c.o = b.o
                 /\ \A k \in 0 .. Room - 1 :
                        c.buf[k] = IF k = (IF b.o < size THEN b.o ELSE size - 1) THEN NUL ELSE b.buf[k]
  <2>. DEFINE c == Terminate(b, size)
              last == IF b.o < size THEN b.o ELSE size - 1
              new == [k \in 0 .. Room - 1 |-> IF k = last THEN NUL ELSE b.buf[k]]
  <2>1. b.o \in Nat /\ b.q \in Nat /\ b.buf = [k \in 0 .. Room - 1 |-> b.buf[k]]
        /\ b = [o |-> b.o, q |-> b.q, buf |-> b.buf]
    BY <1>4 DEF IsBuffer
  <2>2. b.o <= size => b.q = b.o
    BY <1>4 DEF InPlace
  <2>3. c.buf = new
    <3>1. CASE b.o < size
      <4>1. b.q = b.o
        BY <2>1, <2>2, <3>1
      <4>2. c.buf = [b.buf EXCEPT ![b.o] = NUL]
        BY <2>1, <3>1, <4>1 DEF Terminate
      <4> QED BY <2>1, <3>1, <4>2
    <3>2. CASE ~(b.o < size) /\ size > 0
      <4>1. c.buf = [b.buf EXCEPT ![size - 1] = NUL]
        BY <2>1, <3>2 DEF Terminate
      <4> QED BY <2>1, <3>2, <4>1
    <3>3. CASE ~(b.o < size) /\ ~(size > 0)
      <4>1. c.buf = b.buf /\ last = -1
        BY <2>1, <3>3 DEF Terminate
      <4> QED BY <2>1, <3>3, <4>1
    <3> QED BY <3>1, <3>2, <3>3
  <2>4. c.o = b.o /\ c.q = b.q /\ c = [o |-> c.o, q |-> c.q, buf |-> c.buf]
    <3>1. PICK x : c = [b EXCEPT !.buf = x]
      BY DEF Terminate
    <3>. HIDE DEF c
    <3>2. c = [o |-> b.o, q |-> b.q, buf |-> x]
      BY <2>1, <3>1
    <3> QED BY <3>2
  <2>. HIDE DEF c
  <2>5. IsBuffer(c)
    BY <2>1, <2>3, <2>4 DEF IsBuffer
  <2>6. c.o = b.o /\ \A k \in 0 .. Room - 1 : c.buf[k] = IF k = last THEN NUL ELSE b.buf[k]
    BY <2>3, <2>4
  <2> QED BY <2>5, <2>6 DEF c
<1>5. /\ IsBuffer(out') /\ out'.o = out.o
      /\ \A k \in 0 .. Room - 1 : out'.buf[k] = IF k = LastByte THEN NUL ELSE out.buf[k]
  BY <1>1, <1>2, <1>4 DEF VsnInv, LastByte
<1>6. /\ IsBuffer(all') /\ all'.o = out.o
      /\ \A k \in 0 .. Room - 1 :
             all'.buf[k] = IF k = (IF out.o < Room THEN out.o ELSE Room - 1) THEN NUL ELSE all.buf[k]
  BY <1>1, <1>2, <1>4 DEF VsnInv
<1>7. LastByte' = LastByte
  BY <1>1, <1>5 DEF LastByte
<1>8. Terminated'
  <2>. SUFFICES ASSUME NEW k \in 0 .. Room - 1
                PROVE  out'.buf[k] = IF k < LastByte THEN all'.buf[k]
                                     ELSE IF k = LastByte THEN NUL ELSE Untouched
    BY <1>7 DEF Terminated
  <2>1. out.buf[k] = IF k < n /\ k < out.o THEN all.buf[k] ELSE Untouched
    BY <1>1 DEF VsnInv, TextSoFar
  <2>2. k < LastByte => k < n /\ k < out.o /\ all'.buf[k] = all.buf[k] /\ k # LastByte
    <3>. SUFFICES ASSUME k < LastByte
                  PROVE  k < n /\ k < out.o /\ all'.buf[k] = all.buf[k] /\ k # LastByte
      OBVIOUS
    <3>1. k < n /\ k < out.o /\ k # LastByte /\ k < Room - 1
      BY <1>2 DEF LastByte
    <3>2. k # IF out.o < Room THEN out.o ELSE Room - 1
      BY <1>2, <3>1
    <3> QED BY <1>6, <3>1, <3>2
  <2>3. k > LastByte => ~(k < n /\ k < out.o)
    BY <1>2 DEF LastByte
  <2>4. LastByte \in Int
    BY <1>2 DEF LastByte
  <2> QED BY <1>5, <2>1, <2>2, <2>3, <2>4
<1>9. ret' = out'.o /\ ret' # -1
  BY <1>1, <1>2, <1>5
<1>10. IsBuffer(out)' /\ IsBuffer(all)' /\ all'.o = out'.o
  BY <1>5, <1>6 DEF IsBuffer
<1> QED BY <1>1, <1>8, <1>9, <1>10 DEF VsnInv

LEMMA VsnInvStarts == VsnInit => VsnInv
<1>. SUFFICES ASSUME VsnInit PROVE VsnInv
  OBVIOUS
<1>1. n \in 0 .. Room - 1 /\ Room \in Nat
  BY VsnprintfAssumption DEF VsnInit
<1>2. conv \in Conversions
  BY DEF VsnInit, Fresh, Conversions, rank_int
<1>3. out = Buffer /\ all = Buffer /\ ret = -1
  BY DEF VsnInit
<1>4. IsBuffer(out) /\ IsBuffer(all) /\ all.o = out.o /\ InPlace(out, n) /\ InPlace(all, Room)
  BY <1>3 DEF Buffer, IsBuffer, InPlace
<1>5. TextSoFar
  BY <1>1, <1>3 DEF TextSoFar, Buffer
<1> QED BY <1>1, <1>2, <1>3, <1>4, <1>5 DEF VsnInv

LEMMA VsnInvStays == VsnInv /\ ArgsAreTyped /\ [vsnprintf]_vsnVars => VsnInv'
<1>. SUFFICES ASSUME VsnInv, ArgsAreTyped, [vsnprintf]_vsnVars PROVE VsnInv'
  OBVIOUS
<1>1. CASE UNCHANGED vsnVars
  <2>1. SameCall
    BY <1>1 DEF vsnVars, SameCall, VsnInv
  <2> QED BY <1>1, <2>1, NothingWritten DEF vsnVars
<1>2. CASE vsnprintf
  BY <1>2, LiteralStep, PercentStep, FlagStep, WidthStep, PrecisionStep, ModifierStep,
     ConvertIntegerStep, ConvertStringStep, StoreCountStep, ConvertOtherStep, FinishStep
     DEF vsnprintf
<1> QED BY <1>1, <1>2

\* The inductive invariant, for buffers of any size and any formats.
THEOREM VsnInvHolds == VsnSpec /\ []ArgsAreTyped => []VsnInv
<1> QED BY VsnInvStarts, VsnInvStays, PTL DEF VsnSpec

\* No byte past the buffer is written, the text is cut where it ends, and the
\* result is the length of the whole text (vsnprintf.c).
THEOREM TextIsCut == VsnSpec /\ []ArgsAreTyped /\ []TextFits => []BufferIsPrefix
<1>1. VsnInv /\ TextFits => BufferIsPrefix
  <2>. SUFFICES ASSUME VsnInv, TextFits, ret # -1 PROVE BufferIsPrefix
    BY DEF BufferIsPrefix
  <2>1. all.o \in Nat /\ all.o = out.o /\ n \in Int /\ ret = all.o /\ all.o < Room /\ Terminated
    BY DEF VsnInv, IsBuffer, TextFits
  <2>2. Min({all.o, n - 1}) = LastByte
    <3>1. all.o \in Int /\ n - 1 \in Int
      BY <2>1
    <3>2. Min({all.o, n - 1}) = IF all.o <= n - 1 THEN all.o ELSE n - 1
      BY <3>1, MaxOfTwo
    <3> QED BY <2>1, <3>2 DEF LastByte
  <2> QED BY <2>1, <2>2 DEF BufferIsPrefix, Terminated
<1> QED BY <1>1, VsnInvHolds, PTL
=============================================================================
