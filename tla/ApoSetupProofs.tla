---------------------------- MODULE ApoSetupProofs ----------------------------
(***************************************************************************)
(* Proofs about ApoSetup, for any products, services, helpers and faults.  *)
(***************************************************************************)
EXTENDS ApoSetup, SequenceTheorems, FiniteSetTheorems, WellFoundedInduction, TLAPS

-----------------------------------------------------------------------------
(* One endpoint.                                                           *)

SlotTypes ==
  [composite : BOOLEAN, sysFxOff : BOOLEAN, ours : BOOLEAN, clsid : Slots]

EndpointType ==
  /\ slot \in Slots /\ composite \in BOOLEAN /\ efx \in Seq(Slots) /\ sysFxOff \in BOOLEAN
  /\ backup \in Others \cup {Free, Absent}
  /\ pc \in {"idle", "enable", "join", "backup", "slot", "leave", "restore", "forget"}
  /\ current \in SlotTypes
  /\ theirs \in Others \cup {Free} /\ excused \in BOOLEAN /\ writes \in Nat

\* What apoSlotOf returned is still true of whose the slot is: nobody else
\* writes our CLSID.
CurrentInv ==
  /\ current.clsid = Ours => current.ours
  /\ pc = "enable" /\ AfterSysFx(current) = "backup" => slot # Ours
  /\ pc = "backup" => slot # Ours /\ ~current.ours
  /\ pc = "forget" => slot # Ours
  /\ pc = "restore" /\ ~excused => slot \in {Ours, Free}

\* The backup names what the others had, or nothing; and it names it from before
\* the slot is taken.
BackupInv ==
  /\ ~excused => backup \in {Absent, theirs}
  /\ ~excused /\ pc = "slot" => backup = theirs
  /\ NothingIsLost

EndpointInv == EndpointType /\ CurrentInv /\ BackupInv

-----------------------------------------------------------------------------
(* The helpers and the services.                                           *)

Steps == [do : {"open", "stop", "await"}, name : Services]
HelperTypes ==
  [pc : {"none", "stopping", "working", "starting", "done"}, job : Jobs,
   walk : Seq(Steps) \cup Seq(Services), stopped : Seq(Services), ok : BOOLEAN]

Builds == {"absent", "old", "new"}

ServiceType ==
  /\ svc \in [Services -> {"running", "stopping", "stopped"}]
  /\ engine \in Builds \cup {"none", "down"} /\ staged \in Builds /\ registered \in BOOLEAN
  /\ helper \in [Helpers -> HelperTypes]
  /\ \A h \in Helpers :
       /\ helper[h].pc = "stopping" => helper[h].walk \in Seq(Steps)
       /\ helper[h].pc = "starting" => helper[h].walk \in Seq(Services)
       /\ ~(helper[h].pc \in {"stopping", "starting"}) => helper[h].walk = <<>>
  /\ ranBefore \subseteq Services /\ timeouts \in Nat

\* The window's part.
GuiType ==
  /\ gui \in {"idle", "leaving", "waiting"}
  /\ gui = "waiting" => waitsFor \in Helpers /\ helper[waitsFor].pc # "none" /\ pc = "idle"
  /\ says \in {"nothing", "cancelled", "failed", "installed", "stale", "uninstalled", "restarted"}
  /\ says # "nothing" => gui = "idle" /\ pc = "idle"
  /\ gaveUp \in BOOLEAN /\ faults \in Nat

\* As long as every helper was waited for there is one at most.
AloneInv == ~gaveUp => \A h \in Helpers : Busy(h) => gui = "waiting" /\ waitsFor = h

\* The services a helper has still to wait for, and those it has to start again.
Awaited(w) == {s \in Services : \E i \in 1..Len(w) : w[i] = [do |-> "await", name |-> s]}
Listed(l) == {s \in Services : \E i \in 1..Len(l) : l[i] = s}

\* Every service that does not run is on the way back, at one of these places.
OnTheWay(h) ==
  LET p == helper[h].pc
  IN \A s \in Services :
       /\ svc[s] = "stopping" => p = "stopping" /\ s \in Awaited(helper[h].walk)
       /\ svc[s] = "stopped" =>
            \/ p = "stopping" /\ s \in Awaited(helper[h].walk) \cup Listed(helper[h].stopped)
            \/ p = "working" /\ s \in Listed(helper[h].stopped)
            \/ p = "starting" /\ s \in Listed(helper[h].walk)

BackInv ==
  timeouts = 0 /\ ~gaveUp =>
    /\ \A h \in Helpers : Busy(h) => OnTheWay(h)
    /\ (\A h \in Helpers : ~Busy(h)) => \A s \in Services : svc[s] = "running"

\* What a helper that succeeded has done, until its answer is read.
DoneInv ==
  /\ Mapped => engine = staged
  /\ ~gaveUp /\ gui = "waiting" /\ helper[waitsFor].pc \in {"starting", "done"} /\ helper[waitsFor].ok =>
       /\ helper[waitsFor].job = "install" => staged = "new" /\ registered
       /\ helper[waitsFor].job = "uninstall" => ~registered

\* The endpoint without our entry.
Clear == slot # Ours /\ (composite => ~Contains(efx, Ours))

\* On the way out the entry goes first, write by write.
LeavingInv ==
  faults = 0 =>
    /\ gui = "leaving" =>
         \/ pc = "leave"
         \/ pc = "restore" /\ (composite => ~Contains(efx, Ours))
         \/ pc \in {"idle", "forget"} /\ Clear
    /\ gui = "waiting" /\ helper[waitsFor].job = "uninstall" => Clear

\* What was said stays true until the user does something.
SaidInv ==
  ~gaveUp =>
    /\ says = "installed" => staged = "new" /\ registered
    /\ says = "uninstalled" => ~registered /\ (faults = 0 => Clear)

SetupInv ==
  /\ EndpointInv /\ ServiceType /\ GuiType /\ AloneInv /\ BackInv /\ DoneInv /\ LeavingInv
  /\ SaidInv

-----------------------------------------------------------------------------
(* Lists.  What a recursive function is has to be shown by induction, and   *)
(* the induction is over a set of natural numbers.                         *)

\* Every set of natural numbers has a least element.
LEMMA Least ==
  ASSUME NEW T \in SUBSET Nat, T # {}
  PROVE  \E m \in T : \A k \in T : m <= k
<1>1. PICK R : R = OpToRel(<, Nat)
  OBVIOUS
<1>2. IsWellFoundedOn(R, Nat)
  BY <1>1, NatLessThanWellFounded
<1>3. R = {ss \in Nat \X Nat : ss[1] < ss[2]}
  BY <1>1 DEF OpToRel
<1>4. T \subseteq Nat
  OBVIOUS
<1>5. \E x \in T : \A y \in T : ~ (<<y, x>> \in R)
  BY <1>2, <1>4, WFMin
<1>6. PICK m \in T : \A k \in T : ~(<<k, m>> \in R)
  BY <1>5
<1>7. \A k \in T : <<k, m>> \in Nat \X Nat /\ <<k, m>>[1] = k /\ <<k, m>>[2] = m
  OBVIOUS
<1>8. \A k \in T : ~(k < m)
  BY <1>3, <1>6, <1>7
<1> QED BY <1>8

\* A set that has 0, and the successor of whatever it has up to n, has 0 to n.
LEMMA Induction ==
  ASSUME NEW n \in Nat, NEW T, 0 \in T, \A i \in 0..(n - 1) : i \in T => i + 1 \in T
  PROVE  0..n \subseteq T
<1> DEFINE U == {i \in 0..n : i \notin T}
<1>1. SUFFICES ASSUME U # {} PROVE FALSE
  OBVIOUS
<1>8. U \in SUBSET Nat
  OBVIOUS
<1>9. \E m \in U : \A k \in U : m <= k
  <2> HIDE DEF U
  <2> QED BY <1>1, <1>8, Least
<1>2. PICK m \in U : \A k \in U : m <= k
  BY <1>9
<1>3. m \in 0..n /\ m # 0 /\ m \notin T
  BY <1>2
<1>4. m - 1 \in 0..n /\ m - 1 \in 0..(n - 1) /\ m - 1 + 1 = m /\ ~(m <= m - 1)
  BY <1>3
<1>5. m - 1 \in T
  BY <1>2, <1>4
<1> QED BY <1>3, <1>4, <1>5

\* What Kept does to its function, one entry after the other.
LEMMA KeptDefined ==
  ASSUME NEW S, NEW s \in Seq(S), NEW out
  PROVE  Kept(s, out) = [i \in 0..Len(s) |->
                         IF i = 0 THEN <<>>
                         ELSE IF s[i] \in out THEN Kept(s, out)[i - 1]
                              ELSE Append(Kept(s, out)[i - 1], s[i])]
<1> DEFINE Is(f, n) ==
             f = [i \in 0..n |->
                    IF i = 0 THEN <<>>
                    ELSE IF s[i] \in out THEN f[i - 1] ELSE Append(f[i - 1], s[i])]
           T == {n \in Nat : \E f : Is(f, n)}
<1>1. 0 \in T
  <2>1. Is([i \in 0..0 |-> <<>>], 0)
    OBVIOUS
  <2> QED BY <2>1
<1>2. ASSUME NEW n \in 0..(Len(s) - 1), n \in T
      PROVE  n + 1 \in T
  <2>1. PICK f : Is(f, n)
    BY <1>2
  <2> DEFINE last == IF s[n + 1] \in out THEN f[n] ELSE Append(f[n], s[n + 1])
             g == [i \in 0..(n + 1) |-> IF i = n + 1 THEN last ELSE f[i]]
  <2>2. n \in Nat
    OBVIOUS
  <2> HIDE DEF last
  <2>3. \A i \in 0..n : g[i] = f[i]
    BY <2>2
  <2>4. \A i \in 0..n : f[i] = IF i = 0 THEN <<>>
                               ELSE IF s[i] \in out THEN f[i - 1] ELSE Append(f[i - 1], s[i])
    BY <2>1
  <2>5. \A i \in 0..(n + 1) :
          g[i] = IF i = 0 THEN <<>>
                 ELSE IF s[i] \in out THEN g[i - 1] ELSE Append(g[i - 1], s[i])
    <3> TAKE i \in 0..(n + 1)
    <3>1. CASE i = n + 1
      <4>1. g[i] = last /\ i # 0 /\ g[i - 1] = f[n]
        BY <2>2, <2>3, <3>1
      <4> HIDE DEF g
      <4> QED BY <3>1, <4>1 DEF last
    <3>2. CASE i \in 0..n
      <4>1. g[i] = f[i] /\ (i # 0 => g[i - 1] = f[i - 1])
        BY <2>2, <2>3, <3>2
      <4> HIDE DEF g
      <4> QED BY <2>4, <3>2, <4>1
    <3> QED BY <2>2, <3>1, <3>2
  <2>6. DOMAIN g = 0..(n + 1) /\ g = [i \in 0..(n + 1) |-> g[i]]
    OBVIOUS
  <2> HIDE DEF g
  <2>7. Is(g, n + 1)
    BY <2>5, <2>6
  <2> QED BY <2>2, <2>7
<1>3. Len(s) \in Nat
  BY LenProperties
<1>4. Len(s) \in T
  <2> HIDE DEF T
  <2>1. 0..Len(s) \subseteq T
    BY <1>1, <1>2, <1>3, Induction
  <2> QED BY <1>3, <2>1
<1>5. PICK f : Is(f, Len(s))
  BY <1>4
<1>6. Kept(s, out) = CHOOSE g : g = [i \in 0..Len(s) |->
                       IF i = 0 THEN <<>>
                       ELSE IF s[i] \in out THEN g[i - 1] ELSE Append(g[i - 1], s[i])]
  BY Zenon DEF Kept
<1>7. f = [i \in 0..Len(s) |->
             IF i = 0 THEN <<>>
             ELSE IF s[i] \in out THEN f[i - 1] ELSE Append(f[i - 1], s[i])]
  BY <1>5
<1> HIDE DEF T
<1> QED BY <1>6, <1>7, Zenon

\* ... at the first entry, and at the next one.
LEMMA KeptStep ==
  ASSUME NEW S, NEW s \in Seq(S), NEW a
  PROVE  /\ Len(s) \in Nat
         /\ Kept(s, {a})[0] = <<>>
         /\ \A i \in 0..(Len(s) - 1) :
              Kept(s, {a})[i + 1] = IF s[i + 1] = a THEN Kept(s, {a})[i]
                                  ELSE Append(Kept(s, {a})[i], s[i + 1])
<1> DEFINE f == Kept(s, {a})
<1>1. f = [i \in 0..Len(s) |->
             IF i = 0 THEN <<>> ELSE IF s[i] \in {a} THEN f[i - 1] ELSE Append(f[i - 1], s[i])]
  BY KeptDefined, Zenon
<1>2. Len(s) \in Nat
  BY LenProperties
<1> HIDE DEF f
<1>3. f[0] = <<>>
  BY <1>1, <1>2
<1>4. ASSUME NEW i \in 0..(Len(s) - 1)
      PROVE  f[i + 1] = IF s[i + 1] = a THEN f[i] ELSE Append(f[i], s[i + 1])
  <2> DEFINE k == i + 1
  <2>1. k \in 0..Len(s) /\ k # 0 /\ k - 1 = i
    BY <1>2
  <2> HIDE DEF k
  <2>2. f[k] = IF s[k] \in {a} THEN f[k - 1] ELSE Append(f[k - 1], s[k])
    BY <1>1, <2>1
  <2>3. f[k] = IF s[k] \in {a} THEN f[i] ELSE Append(f[i], s[k])
    BY <2>1, <2>2
  <2> QED BY <2>3 DEF k
<1> QED BY <1>2, <1>3, <1>4 DEF f

\* What is kept is of the list and is not a.
LEMMA KeptType ==
  ASSUME NEW S, NEW s \in Seq(S), NEW a
  PROVE  \A i \in 0..Len(s) : Kept(s, {a})[i] \in Seq(S \ {a})
<1> DEFINE f == Kept(s, {a})
           T == {i \in 0..Len(s) : f[i] \in Seq(S \ {a})}
<1>1. /\ Len(s) \in Nat /\ f[0] = <<>>
      /\ \A i \in 0..(Len(s) - 1) :
           f[i + 1] = IF s[i + 1] = a THEN f[i] ELSE Append(f[i], s[i + 1])
  BY KeptStep, ZenonT(40)
<1> HIDE DEF f
<1>2. 0 \in T
  <2>1. f[0] \in Seq(S \ {a}) /\ 0 \in 0..Len(s)
    BY <1>1, EmptySeq
  <2> QED BY <2>1
<1>3. ASSUME NEW i \in 0..(Len(s) - 1), i \in T PROVE i + 1 \in T
  <2>1. s[i + 1] \in S /\ i + 1 \in 0..Len(s)
    BY <1>1, ElementOfSeq
  <2>2. CASE s[i + 1] = a
    BY <1>1, <1>3, <2>1, <2>2
  <2>3. CASE s[i + 1] # a
    <3>1. f[i + 1] = Append(f[i], s[i + 1]) /\ s[i + 1] \in S \ {a}
      BY <1>1, <2>1, <2>3
    <3>2. f[i + 1] \in Seq(S \ {a})
      BY <1>3, <3>1, AppendProperties
    <3> QED BY <2>1, <3>2
  <2> QED BY <2>2, <2>3
<1>4. 0..Len(s) \subseteq T
  <2> HIDE DEF T
  <2> QED BY <1>1, <1>2, <1>3, Induction
<1> QED BY <1>4 DEF f

LEMMA WithoutType ==
  ASSUME NEW S, NEW s \in Seq(S), NEW a
  PROVE  /\ Without(s, a) \in Seq(S \ {a}) /\ Without(s, a) \in Seq(S)
         /\ \A i \in 1..Len(Without(s, a)) : Without(s, a)[i] # a
<1>1. Len(s) \in 0..Len(s)
  BY LenProperties
<1>2. Without(s, a) \in Seq(S \ {a})
  BY <1>1, KeptType DEF Without, LeavingOut
<1> DEFINE w == Without(s, a)
<1>3. w \in Seq(S \ {a})
  BY <1>2
<1> HIDE DEF w
<1>4. \A i \in 1..Len(w) : w[i] \in S \ {a}
  BY <1>3, ElementOfSeq
<1>5. w \in Seq(S)
  BY <1>3
<1> QED BY <1>3, <1>4, <1>5 DEF w

\* Every other entry is kept.
LEMMA WithoutKeeps ==
  ASSUME NEW S, NEW s \in Seq(S), NEW a, NEW j \in 1..Len(s), s[j] # a
  PROVE  \E k \in 1..Len(Without(s, a)) : Without(s, a)[k] = s[j]
<1> DEFINE f == Kept(s, {a})
           b == s[j]
           T == {i \in 0..Len(s) : j <= i => \E k \in 1..Len(f[i]) : f[i][k] = b}
<1>1. /\ Len(s) \in Nat /\ f[0] = <<>>
      /\ \A i \in 0..(Len(s) - 1) :
           f[i + 1] = IF s[i + 1] = a THEN f[i] ELSE Append(f[i], s[i + 1])
  BY KeptStep, ZenonT(40)
<1>2. \A i \in 0..Len(s) : f[i] \in Seq(S)
  <2>1. \A i \in 0..Len(s) : f[i] \in Seq(S \ {a})
    BY KeptType, Zenon
  <2> HIDE DEF f
  <2> QED BY <2>1
<1> HIDE DEF f
<1>3. 0 \in T
  BY <1>1
<1>4. ASSUME NEW i \in 0..(Len(s) - 1), i \in T PROVE i + 1 \in T
  <2>1. i \in 0..Len(s) /\ i + 1 \in 0..Len(s) /\ f[i] \in Seq(S) /\ s[i + 1] \in S /\ i \in Nat
    BY <1>1, <1>2, ElementOfSeq
  <2>2. CASE j = i + 1
    <3>1. f[i + 1] = Append(f[i], b)
      BY <1>1, <2>2
    <3>2. Len(f[i + 1]) = Len(f[i]) + 1 /\ f[i + 1][Len(f[i]) + 1] = b /\ Len(f[i]) \in Nat
      BY <2>1, <2>2, <3>1, AppendProperties, LenProperties
    <3>3. \E k \in 1..Len(f[i + 1]) : f[i + 1][k] = b
      BY <3>2
    <3> QED BY <2>1, <3>3
  <2>3. CASE j <= i
    <3>1. PICK k \in 1..Len(f[i]) : f[i][k] = b
      BY <1>4, <2>3
    <3>2. CASE s[i + 1] = a
      BY <1>1, <2>1, <3>1, <3>2
    <3>3. CASE s[i + 1] # a
      <4>1. f[i + 1] = Append(f[i], s[i + 1])
        BY <1>1, <3>3
      <4>2. Len(f[i + 1]) = Len(f[i]) + 1 /\ f[i + 1][k] = b /\ Len(f[i]) \in Nat
        BY <2>1, <3>1, <4>1, AppendProperties, LenProperties
      <4>3. k \in 1..Len(f[i + 1])
        BY <3>1, <4>2
      <4>4. \E l \in 1..Len(f[i + 1]) : f[i + 1][l] = b
        BY <4>2, <4>3
      <4> QED BY <2>1, <4>4
    <3> QED BY <3>2, <3>3
  <2> QED BY <2>1, <2>2, <2>3
<1>5. 0..Len(s) \subseteq T
  <2> HIDE DEF T
  <2> QED BY <1>1, <1>3, <1>4, Induction
<1>6. Len(s) \in T /\ j <= Len(s)
  BY <1>1, <1>5
<1> QED BY <1>6 DEF f, Without, LeavingOut

\* An a at the end makes no difference.
LEMMA WithoutAppend ==
  ASSUME NEW S, NEW s \in Seq(S), NEW a \in S
  PROVE  Without(Append(s, a), a) = Without(s, a)
<1> DEFINE r == Append(s, a)
           f == Kept(s, {a})
           g == Kept(r, {a})
           T == {i \in 0..Len(s) : g[i] = f[i]}
<1>1. /\ Len(s) \in Nat /\ f[0] = <<>>
      /\ \A i \in 0..(Len(s) - 1) :
           f[i + 1] = IF s[i + 1] = a THEN f[i] ELSE Append(f[i], s[i + 1])
  BY KeptStep, ZenonT(40)
<1>2. r \in Seq(S) /\ Len(r) = Len(s) + 1 /\ r[Len(s) + 1] = a /\ \A i \in 1..Len(s) : r[i] = s[i]
  BY AppendProperties
<1> HIDE DEF r
<1>3. /\ Len(r) \in Nat /\ g[0] = <<>>
      /\ \A i \in 0..(Len(r) - 1) :
           g[i + 1] = IF r[i + 1] = a THEN g[i] ELSE Append(g[i], r[i + 1])
  BY <1>2, KeptStep, Zenon
<1> HIDE DEF f, g
<1>4. 0 \in T
  BY <1>1, <1>3
<1>5. ASSUME NEW i \in 0..(Len(s) - 1), i \in T PROVE i + 1 \in T
  <2>1. i \in 0..(Len(r) - 1) /\ r[i + 1] = s[i + 1] /\ i + 1 \in 0..Len(s)
    BY <1>1, <1>2
  <2> QED BY <1>1, <1>3, <1>5, <2>1
<1>6. 0..Len(s) \subseteq T
  <2> HIDE DEF T
  <2> QED BY <1>1, <1>4, <1>5, Induction
<1>7. g[Len(s)] = f[Len(s)]
  BY <1>1, <1>6
<1>8. g[Len(r)] = g[Len(s)]
  BY <1>1, <1>2, <1>3
<1> QED BY <1>7, <1>8 DEF f, g, r, Without, LeavingOut

\* ... and without one the list is as it was.
LEMMA WithoutNone ==
  ASSUME NEW S, NEW s \in Seq(S), NEW a, \A i \in 1..Len(s) : s[i] # a
  PROVE  Without(s, a) = s
<1> DEFINE f == Kept(s, {a})
           T == {i \in 0..Len(s) : Len(f[i]) = i /\ \A j \in 1..i : f[i][j] = s[j]}
<1>1. /\ Len(s) \in Nat /\ f[0] = <<>>
      /\ \A i \in 0..(Len(s) - 1) :
           f[i + 1] = IF s[i + 1] = a THEN f[i] ELSE Append(f[i], s[i + 1])
  BY KeptStep, ZenonT(40)
<1>2. \A i \in 0..Len(s) : f[i] \in Seq(S)
  <2>1. \A i \in 0..Len(s) : f[i] \in Seq(S \ {a})
    BY KeptType, Zenon
  <2> HIDE DEF f
  <2> QED BY <2>1
<1> HIDE DEF f
<1>3. 0 \in T
  BY <1>1
<1>4. ASSUME NEW i \in 0..(Len(s) - 1), i \in T PROVE i + 1 \in T
  <2>1. i \in 0..Len(s) /\ i + 1 \in 0..Len(s) /\ f[i] \in Seq(S) /\ s[i + 1] \in S /\ i \in Nat
    BY <1>1, <1>2, ElementOfSeq
  <2>8. i + 1 \in 1..Len(s)
    BY <2>1
  <2>9. s[i + 1] # a
    BY <2>8
  <2>2. f[i + 1] = Append(f[i], s[i + 1])
    BY <1>1, <2>1, <2>9
  <2>3. /\ Len(f[i + 1]) = i + 1 /\ f[i + 1][i + 1] = s[i + 1]
        /\ \A j \in 1..i : f[i + 1][j] = s[j]
    BY <1>4, <2>1, <2>2, AppendProperties
  <2>4. \A j \in 1..(i + 1) : f[i + 1][j] = s[j]
    BY <2>1, <2>3
  <2> QED BY <2>1, <2>3, <2>4
<1>5. 0..Len(s) \subseteq T
  <2> HIDE DEF T
  <2> QED BY <1>1, <1>3, <1>4, Induction
<1>6. f[Len(s)] \in Seq(S) /\ Len(f[Len(s)]) = Len(s) /\ \A j \in 1..Len(s) : f[Len(s)][j] = s[j]
  BY <1>1, <1>2, <1>5
<1>7. f[Len(s)] = s
  BY <1>6, SeqEqual
<1> QED BY <1>7 DEF f, Without, LeavingOut

\* Leaving a out twice is leaving it out once.
LEMMA WithoutTwice ==
  ASSUME NEW S, NEW s \in Seq(S), NEW a
  PROVE  Without(Without(s, a), a) = Without(s, a)
<1>1. Without(s, a) \in Seq(S) /\ \A i \in 1..Len(Without(s, a)) : Without(s, a)[i] # a
  BY WithoutType, Zenon
<1> QED BY <1>1, WithoutNone, Zenon

-----------------------------------------------------------------------------
(* One endpoint, handler step by handler step.                             *)

LEMMA SlotsAre ==
  /\ Others \subseteq Slots /\ Ours \in Slots /\ Free \in Slots
  /\ Others \cup {Free} \subseteq Slots /\ Ours \notin Others \cup {Free, Absent}
  /\ Free # Absent /\ Free # Ours /\ Absent \notin Others
BY SlotAssumption DEF Slots

LEMMA SlotOfType ==
  ASSUME EndpointType
  PROVE  /\ SlotOf \in SlotTypes /\ NoSlot \in SlotTypes
         /\ SlotOf.clsid = Ours => SlotOf.ours
         /\ ~SlotOf.composite => SlotOf.ours = (slot = Ours)
         /\ SlotOf.composite = composite /\ ~NoSlot.ours /\ NoSlot.clsid # Ours
         /\ ~composite => SlotOf.clsid = slot
<1>1. Contains(efx, Ours) \in BOOLEAN
  BY DEF Contains
<1> QED BY <1>1, SlotsAre DEF EndpointType, SlotOf, SlotTypes, NoSlot

\* The other products' and our own part of the backup's story.
LEMMA NothingIsLostIs ==
  NothingIsLost <=> (~excused => /\ slot \in {Ours, theirs}
                                 /\ slot = Ours => backup = theirs)
BY DEF NothingIsLost, DisplacedIsKept, RoundTrip

LEMMA AttachKeeps ==
  ASSUME EndpointInv, Attach
  PROVE  EndpointInv'
<1>1. EndpointType'
  BY SlotOfType DEF EndpointInv, EndpointType, Attach, endpoint, ghosts, AfterSysFx
<1>2. CurrentInv'
  BY SlotOfType, SlotsAre
     DEF EndpointInv, EndpointType, CurrentInv, Attach, endpoint, ghosts, AfterSysFx
<1>3. BackupInv'
  BY DEF EndpointInv, BackupInv, Attach, endpoint, ghosts, AfterSysFx,
         NothingIsLost, DisplacedIsKept, RoundTrip
<1> QED BY <1>1, <1>2, <1>3 DEF EndpointInv

LEMMA EnableKeeps ==
  ASSUME EndpointInv, NEW ok \in BOOLEAN, AttachEnable(ok)
  PROVE  EndpointInv'
<1>1. EndpointType'
  BY SlotOfType DEF EndpointInv, EndpointType, AttachEnable, Step, endpoint, ghosts, AfterSysFx
<1>2. CurrentInv'
  BY SlotOfType, SlotsAre
     DEF EndpointInv, EndpointType, CurrentInv, AttachEnable, Step, ghosts, AfterSysFx
<1>3. BackupInv'
  BY DEF EndpointInv, BackupInv, AttachEnable, Step, ghosts, AfterSysFx,
         NothingIsLost, DisplacedIsKept, RoundTrip
<1> QED BY <1>1, <1>2, <1>3 DEF EndpointInv

LEMMA JoinKeeps ==
  ASSUME EndpointInv, NEW ok \in BOOLEAN, AttachJoin(ok)
  PROVE  EndpointInv'
<1>1. Append(efx, Ours) \in Seq(Slots)
  BY AppendProperties, SlotsAre DEF EndpointInv, EndpointType
<1>2. EndpointType'
  BY <1>1, SlotOfType DEF EndpointInv, EndpointType, AttachJoin, Step, ghosts
<1>3. CurrentInv'
  BY SlotOfType, SlotsAre DEF EndpointInv, EndpointType, CurrentInv, AttachJoin, Step, ghosts
<1>4. BackupInv'
  BY DEF EndpointInv, BackupInv, AttachJoin, Step, ghosts,
         NothingIsLost, DisplacedIsKept, RoundTrip
<1> QED BY <1>2, <1>3, <1>4 DEF EndpointInv

\* The note is taken of what was read: if that is not what is there any more
\* somebody wrote in between.
LEMMA BackupKeeps ==
  ASSUME EndpointInv, AttachBackup
  PROVE  EndpointInv'
<1>1. slot \in Others \cup {Free} /\ current.clsid \in Others \cup {Free}
  BY DEF EndpointInv, EndpointType, CurrentInv, SlotTypes, AttachBackup, Step, Slots
<1>2. EndpointType'
  BY <1>1 DEF EndpointInv, EndpointType, AttachBackup, Step, endpoint
<1>3. CurrentInv'
  BY <1>1, SlotsAre DEF EndpointInv, EndpointType, CurrentInv, AttachBackup, Step, endpoint, AfterSysFx
<1>4. BackupInv'
  BY <1>1 DEF EndpointInv, BackupInv, AttachBackup, Step, endpoint,
         NothingIsLost, DisplacedIsKept, RoundTrip
<1> QED BY <1>2, <1>3, <1>4 DEF EndpointInv

LEMMA SlotKeeps ==
  ASSUME EndpointInv, NEW ok \in BOOLEAN, AttachSlot(ok)
  PROVE  EndpointInv'
<1>1. EndpointType'
  BY SlotOfType, SlotsAre DEF EndpointInv, EndpointType, AttachSlot, Step, ghosts
<1>2. CurrentInv'
  BY SlotOfType, SlotsAre DEF EndpointInv, EndpointType, CurrentInv, AttachSlot, Step, ghosts
<1>3. BackupInv'
  BY DEF EndpointInv, BackupInv, AttachSlot, Step, ghosts,
         NothingIsLost, DisplacedIsKept, RoundTrip
<1> QED BY <1>1, <1>2, <1>3 DEF EndpointInv

LEMMA DetachKeeps ==
  ASSUME EndpointInv, Detach
  PROVE  EndpointInv'
<1>1. EndpointType'
  BY SlotOfType DEF EndpointInv, EndpointType, Detach, endpoint, ghosts
<1>2. CurrentInv'
  BY SlotOfType, SlotsAre DEF EndpointInv, EndpointType, CurrentInv, Detach, endpoint, ghosts, Slots
<1>3. BackupInv'
  BY DEF EndpointInv, BackupInv, Detach, endpoint, ghosts,
         NothingIsLost, DisplacedIsKept, RoundTrip
<1> QED BY <1>1, <1>2, <1>3 DEF EndpointInv

LEMMA LeaveKeeps ==
  ASSUME EndpointInv, NEW ok \in BOOLEAN, DetachLeave(ok)
  PROVE  EndpointInv'
<1>1. Without(efx, Ours) \in Seq(Slots)
  BY WithoutType DEF EndpointInv, EndpointType
<1>2. EndpointType'
  BY <1>1, SlotOfType DEF EndpointInv, EndpointType, DetachLeave, ghosts
<1>3. CurrentInv'
  BY SlotOfType, SlotsAre DEF EndpointInv, EndpointType, CurrentInv, DetachLeave, ghosts
<1>4. BackupInv'
  BY DEF EndpointInv, BackupInv, DetachLeave, ghosts,
         NothingIsLost, DisplacedIsKept, RoundTrip
<1> QED BY <1>2, <1>3, <1>4 DEF EndpointInv

\* What the backup names is what the others had, and if it names nothing there
\* was nothing of ours in the slot either.
LEMMA RestoreKeeps ==
  ASSUME EndpointInv, NEW ok \in BOOLEAN, DetachRestore(ok)
  PROVE  EndpointInv'
<1>1. EndpointType'
  BY SlotOfType, SlotsAre DEF EndpointInv, EndpointType, DetachRestore, Step, ghosts
<1>2. CurrentInv'
  BY SlotOfType, SlotsAre DEF EndpointInv, EndpointType, CurrentInv, DetachRestore, Step, ghosts
<1>3. BackupInv'
  BY SlotsAre DEF EndpointInv, EndpointType, CurrentInv, BackupInv, DetachRestore, Step, ghosts,
         NothingIsLost, DisplacedIsKept, RoundTrip
<1> QED BY <1>1, <1>2, <1>3 DEF EndpointInv

LEMMA ForgetKeeps ==
  ASSUME EndpointInv, DetachForget
  PROVE  EndpointInv'
<1>1. EndpointType'
  BY SlotOfType, SlotsAre DEF EndpointInv, EndpointType, DetachForget, Step, endpoint, ghosts
<1>2. CurrentInv'
  BY SlotOfType, SlotsAre DEF EndpointInv, EndpointType, CurrentInv, DetachForget, Step, endpoint, ghosts
<1>3. BackupInv'
  BY DEF EndpointInv, CurrentInv, BackupInv, DetachForget, Step, endpoint, ghosts,
         NothingIsLost, DisplacedIsKept, RoundTrip
<1> QED BY <1>1, <1>2, <1>3 DEF EndpointInv

LEMMA OthersKeep ==
  ASSUME EndpointInv,
         (\E v \in Others \cup {Free} : OtherWrites(v)) \/ DriverWrites \/ DisableSysFx
  PROVE  EndpointInv'
<1>1. CASE \E v \in Others \cup {Free} : OtherWrites(v)
  <2>1. PICK v \in Others \cup {Free} : OtherWrites(v)
    BY <1>1
  <2>2. EndpointType'
    BY <2>1, SlotsAre DEF EndpointInv, EndpointType, OtherWrites
  <2>3. CurrentInv'
    BY <2>1, SlotsAre DEF EndpointInv, EndpointType, CurrentInv, OtherWrites, AfterSysFx
  <2>4. BackupInv'
    BY <2>1, SlotsAre DEF EndpointInv, EndpointType, BackupInv, OtherWrites,
           NothingIsLost, DisplacedIsKept, RoundTrip
  <2> QED BY <2>2, <2>3, <2>4 DEF EndpointInv
<1>2. CASE DriverWrites
  <2>1. efx' \in Seq(Slots)
    <3>1. \A o \in Others : <<o>> \in Seq(Slots)
      BY SlotsAre
    <3> QED BY <1>2, <3>1, EmptySeq DEF DriverWrites
  <2>2. EndpointType'
    BY <1>2, <2>1 DEF EndpointInv, EndpointType, DriverWrites, ghosts
  <2> QED BY <1>2, <2>2 DEF EndpointInv, EndpointType, CurrentInv, BackupInv, DriverWrites, ghosts,
         AfterSysFx, NothingIsLost, DisplacedIsKept, RoundTrip
<1>3. CASE DisableSysFx
  BY <1>3 DEF EndpointInv, EndpointType, CurrentInv, BackupInv, DisableSysFx, ghosts,
         AfterSysFx, NothingIsLost, DisplacedIsKept, RoundTrip
<1> QED BY <1>1, <1>2, <1>3

\* A handler cut short.
LEMMA CrashKeeps ==
  ASSUME EndpointInv, Crash
  PROVE  EndpointInv'
<1>1. EndpointType'
  BY SlotOfType DEF EndpointInv, EndpointType, Crash, endpoint, ghosts
<1>2. CurrentInv'
  BY SlotOfType DEF EndpointInv, EndpointType, CurrentInv, Crash, endpoint, ghosts
<1>3. BackupInv'
  BY DEF EndpointInv, BackupInv, Crash, endpoint, ghosts,
         NothingIsLost, DisplacedIsKept, RoundTrip
<1> QED BY <1>1, <1>2, <1>3 DEF EndpointInv

LEMMA EndpointStuttersKeep ==
  ASSUME EndpointInv, UNCHANGED endpointVars
  PROVE  EndpointInv'
BY DEF EndpointInv, EndpointType, CurrentInv, BackupInv, endpointVars, endpoint, ghosts,
       AfterSysFx, NothingIsLost, DisplacedIsKept, RoundTrip

\* A finite set as a list: what SetToSeq returns is one.
LEMMA SetToSeqType ==
  ASSUME NEW S, IsFiniteSet(S)
  PROVE  Cardinality(S) \in Nat /\ SetToSeq(S) \in [1..Cardinality(S) -> S]
<1>1. PICK n \in Nat : n = Cardinality(S) /\ ExistsBijection(1..n, S)
  BY FS_CardinalityType, FS_NatBijection, FS_CountingElements
<1>2. PICK f : f \in Bijection(1..n, S)
  BY <1>1 DEF ExistsBijection
<1>3. f \in [1..Cardinality(S) -> S] /\ IsInjective(f)
  BY <1>1, <1>2 DEF Bijection, Injection, IsInjective
<1>4. \E g \in [1..Cardinality(S) -> S] : IsInjective(g)
  BY <1>3
<1> QED BY <1>1, <1>4 DEF SetToSeq

-----------------------------------------------------------------------------
(* What each step of a helper does to it; the other helpers are as they     *)
(* were.                                                                   *)

Only(h) == \A g \in Helpers : g # h => helper'[g] = helper[g]
SameJob(h) == helper'[h].job = helper[h].job
SameStopped(h) == helper'[h].stopped = helper[h].stopped

LEMMA HelperIs ==
  ASSUME ServiceType, NEW h \in Helpers
  PROVE  /\ helper[h] \in HelperTypes
         /\ helper[h].pc = "stopping" => helper[h].walk \in Seq(Steps)
         /\ helper[h].pc = "starting" => helper[h].walk \in Seq(Services)
         /\ helper[h].stopped \in Seq(Services) /\ helper[h].ok \in BOOLEAN
         /\ helper[h].job \in Jobs
BY DEF ServiceType, HelperTypes

\* A helper that is replaced by one of the right shape leaves the types alone.
LEMMA HelperTypeKept ==
  ASSUME ServiceType, NEW h \in Helpers, NEW r \in HelperTypes,
         helper' = [helper EXCEPT ![h] = r],
         r.pc = "stopping" => r.walk \in Seq(Steps),
         r.pc = "starting" => r.walk \in Seq(Services),
         ~(r.pc \in {"stopping", "starting"}) => r.walk = <<>>,
         svc' \in [Services -> {"running", "stopping", "stopped"}],
         engine' \in Builds \cup {"none", "down"}, staged' \in Builds, registered' \in BOOLEAN,
         ranBefore' \subseteq Services, timeouts' \in Nat
  PROVE  ServiceType' /\ helper'[h] = r /\ Only(h)
<1>1. helper' \in [Helpers -> HelperTypes] /\ helper'[h] = r /\ Only(h)
  BY DEF ServiceType, Only
<1>2. ASSUME NEW g \in Helpers
      PROVE  /\ helper'[g].pc = "stopping" => helper'[g].walk \in Seq(Steps)
             /\ helper'[g].pc = "starting" => helper'[g].walk \in Seq(Services)
             /\ ~(helper'[g].pc \in {"stopping", "starting"}) => helper'[g].walk = <<>>
  BY <1>1 DEF ServiceType, Only
<1> QED BY <1>1, <1>2 DEF ServiceType

LEMMA LaunchIs ==
  ASSUME ServiceType, NEW h \in Helpers, NEW job \in Jobs, Launch(h, job)
  PROVE  /\ ServiceType' /\ Only(h) /\ ~Busy(h)
         /\ helper'[h].pc = "stopping" /\ helper'[h].job = job
<1> DEFINE r == [NoHelper EXCEPT !.pc = "stopping", !.job = job, !.walk = <<Visit(Audiosrv)>>]
<1>1. <<Visit(Audiosrv)>> \in Seq(Steps)
  BY DEF Visit, Steps, Services
<1>2. r \in HelperTypes /\ r.pc = "stopping" /\ r.job = job /\ r.walk = <<Visit(Audiosrv)>>
  BY <1>1, EmptySeq DEF NoHelper, HelperTypes
<1>3. helper' = [helper EXCEPT ![h] = r]
  BY DEF Launch
<1>4. UNCHANGED <<svc, engine, staged, registered, timeouts>> /\ ranBefore' \subseteq Services
  BY DEF Launch, ServiceType
<1> HIDE DEF r
<1>5. ServiceType' /\ helper'[h] = r /\ Only(h)
  BY <1>1, <1>2, <1>3, <1>4, HelperTypeKept DEF ServiceType
<1> QED BY <1>2, <1>5 DEF Launch, Busy

LEMMA WalkOf ==
  ASSUME ServiceType, NEW h \in Helpers, NEW do, At(h, do)
  PROVE  /\ helper[h].walk \in Seq(Steps) /\ helper[h].walk # <<>>
         /\ Rest(h) \in Seq(Steps) /\ Name(h) \in Services
         /\ Head(helper[h].walk) = [do |-> do, name |-> Name(h)]
         /\ do \in {"open", "stop", "await"}
<1>1. helper[h].walk \in Seq(Steps) /\ helper[h].walk # <<>>
  BY HelperIs DEF At
<1>2. Head(helper[h].walk) \in Steps /\ Tail(helper[h].walk) \in Seq(Steps)
  BY <1>1, HeadTailProperties
<1> QED BY <1>1, <1>2 DEF At, Rest, Name, Steps

LEMMA OpenIs ==
  ASSUME ServiceType, NEW h \in Helpers, OpenService(h)
  PROVE  /\ ServiceType' /\ Only(h) /\ SameJob(h) /\ SameStopped(h)
         /\ helper'[h].pc = "stopping"
         /\ \E p \in Seq(Steps) : helper'[h].walk = p \o Rest(h)
<1> DEFINE s == Name(h)
           a == ActiveDependents(s)
           p == [i \in 1..Cardinality(a) |-> Visit(SetToSeq(a)[i])]
           q == p \o <<[do |-> "stop", name |-> s]>>
           w == q \o Rest(h)
           r == [helper[h] EXCEPT !.walk = w]
<1>1. At(h, "open") /\ Rest(h) \in Seq(Steps) /\ s \in Services
  BY WalkOf DEF OpenService
<1>2. a \subseteq Services /\ IsFiniteSet(a)
  <2>1. a \subseteq Dependents /\ IsFiniteSet(Dependents)
    BY ServiceAssumption DEF ActiveDependents
  <2> QED BY <2>1, FS_Subset DEF Services
<1>3. Cardinality(a) \in Nat /\ SetToSeq(a) \in [1..Cardinality(a) -> a]
  BY <1>2, SetToSeqType
<1>4. p \in [1..Cardinality(a) -> Steps]
  <2> HIDE DEF a
  <2> QED BY <1>2, <1>3 DEF Visit, Steps
<1>5. p \in Seq(Steps)
  <2> HIDE DEF a, p
  <2> QED BY <1>3, <1>4, SeqDef
<1>6. q \in Seq(Steps)
  <2> HIDE DEF p
  <2>1. <<[do |-> "stop", name |-> s]>> \in Seq(Steps)
    BY <1>1 DEF Steps
  <2> QED BY <1>5, <2>1, ConcatProperties
<1> HIDE DEF p
<1>7. w \in Seq(Steps)
  <2> HIDE DEF q
  <2> QED BY <1>1, <1>6, ConcatProperties
<1>8. helper' = [helper EXCEPT ![h] = r]
  BY DEF OpenService, p
<1> HIDE DEF w
<1>9. /\ r \in HelperTypes /\ r.pc = "stopping" /\ r.walk = w
      /\ r.job = helper[h].job /\ r.stopped = helper[h].stopped
  <2>1. helper[h] \in HelperTypes /\ helper[h].pc = "stopping"
    BY <1>1, HelperIs DEF At
  <2> QED BY <1>7, <2>1 DEF HelperTypes
<1>10. UNCHANGED <<svc, engine, staged, registered, ranBefore, timeouts>>
  BY DEF OpenService
<1> HIDE DEF r
<1>11. ServiceType' /\ helper'[h] = r /\ Only(h)
  BY <1>7, <1>8, <1>9, <1>10, HelperTypeKept DEF ServiceType
<1>12. \E x \in Seq(Steps) : w = x \o Rest(h)
  <2> HIDE DEF q
  <2> QED BY <1>6 DEF w
<1> QED BY <1>9, <1>11, <1>12 DEF SameJob, SameStopped

LEMMA ControlIs ==
  ASSUME ServiceType, NEW h \in Helpers, ControlStop(h)
  PROVE  /\ ServiceType' /\ Only(h) /\ SameJob(h) /\ SameStopped(h)
         /\ helper'[h].pc = "stopping"
         /\ helper'[h].walk = IF svc[Name(h)] = "stopped" THEN Rest(h)
                              ELSE <<[do |-> "await", name |-> Name(h)]>> \o Rest(h)
<1> DEFINE w == IF svc[Name(h)] = "stopped" THEN Rest(h)
                ELSE <<[do |-> "await", name |-> Name(h)]>> \o Rest(h)
           r == [helper[h] EXCEPT !.walk = w]
<1>1. At(h, "stop") /\ Rest(h) \in Seq(Steps) /\ Name(h) \in Services
  BY WalkOf DEF ControlStop
<1>2. w \in Seq(Steps)
  <2>1. <<[do |-> "await", name |-> Name(h)]>> \in Seq(Steps)
    BY <1>1 DEF Steps
  <2> QED BY <1>1, <2>1, ConcatProperties
<1>3. helper' = [helper EXCEPT ![h] = r]
  BY DEF ControlStop
<1> HIDE DEF w
<1>4. /\ r \in HelperTypes /\ r.pc = "stopping" /\ r.walk = w
      /\ r.job = helper[h].job /\ r.stopped = helper[h].stopped
  <2>1. helper[h] \in HelperTypes /\ helper[h].pc = "stopping"
    BY <1>1, HelperIs DEF At
  <2> QED BY <1>2, <2>1 DEF HelperTypes
<1>5. svc' \in [Services -> {"running", "stopping", "stopped"}]
  BY DEF ControlStop, ServiceType
<1>6. UNCHANGED <<engine, staged, registered, ranBefore, timeouts>>
  BY DEF ControlStop
<1> HIDE DEF r
<1>7. ServiceType' /\ helper'[h] = r /\ Only(h)
  BY <1>2, <1>3, <1>4, <1>5, <1>6, HelperTypeKept DEF ServiceType
<1> QED BY <1>4, <1>7 DEF SameJob, SameStopped, w

LEMMA AwaitedIs ==
  ASSUME ServiceType, NEW h \in Helpers, AwaitStopped(h)
  PROVE  /\ ServiceType' /\ Only(h) /\ SameJob(h)
         /\ helper'[h].pc = "stopping" /\ helper'[h].walk = Rest(h)
         /\ helper'[h].stopped = <<Name(h)>> \o helper[h].stopped
<1> DEFINE l == <<Name(h)>> \o helper[h].stopped
           q == [helper[h] EXCEPT !.walk = Rest(h)]
           r == [q EXCEPT !.stopped = l]
<1>1. At(h, "await") /\ Rest(h) \in Seq(Steps) /\ Name(h) \in Services
  BY WalkOf DEF AwaitStopped
<1>2. l \in Seq(Services)
  <2>1. <<Name(h)>> \in Seq(Services) /\ helper[h].stopped \in Seq(Services)
    BY <1>1, HelperIs
  <2> QED BY <2>1, ConcatProperties
<1>3. helper' = [helper EXCEPT ![h] = r]
  BY HelperIs DEF AwaitStopped, HelperTypes, ServiceType
<1> HIDE DEF l
<1>4. q \in HelperTypes /\ q.pc = "stopping" /\ q.walk = Rest(h) /\ q.job = helper[h].job
  <2>1. helper[h] \in HelperTypes /\ helper[h].pc = "stopping"
    BY <1>1, HelperIs DEF At
  <2> QED BY <1>1, <2>1 DEF HelperTypes
<1> HIDE DEF q
<1>5. /\ r \in HelperTypes /\ r.pc = "stopping" /\ r.walk = Rest(h) /\ r.job = helper[h].job
      /\ r.stopped = l
  BY <1>2, <1>4 DEF HelperTypes
<1>6. UNCHANGED <<svc, engine, staged, registered, ranBefore, timeouts>>
  BY DEF AwaitStopped
<1> HIDE DEF r
<1>7. ServiceType' /\ helper'[h] = r /\ Only(h)
  BY <1>1, <1>3, <1>5, <1>6, HelperTypeKept DEF ServiceType
<1> QED BY <1>5, <1>7 DEF SameJob, l

LEMMA FailsIs ==
  ASSUME ServiceType, NEW h \in Helpers, AwaitFails(h)
  PROVE  /\ ServiceType' /\ Only(h) /\ SameJob(h) /\ timeouts' # 0
         /\ helper'[h].pc = "stopping" /\ helper'[h].ok = FALSE
<1> DEFINE q == [helper[h] EXCEPT !.walk = <<>>]
           r == [q EXCEPT !.ok = FALSE]
<1>1. helper[h] \in HelperTypes /\ helper[h].pc = "stopping"
  BY HelperIs DEF AwaitFails, At
<1>2. helper' = [helper EXCEPT ![h] = r]
  BY HelperIs DEF AwaitFails, HelperTypes, ServiceType
<1>3. <<>> \in Seq(Steps)
  OBVIOUS
<1>4. q \in HelperTypes /\ q.pc = "stopping" /\ q.walk = <<>> /\ q.job = helper[h].job
  BY <1>1, <1>3 DEF HelperTypes
<1> HIDE DEF q
<1>5. /\ r \in HelperTypes /\ r.pc = "stopping" /\ r.walk = <<>> /\ r.job = helper[h].job
      /\ r.ok = FALSE
  BY <1>4 DEF HelperTypes
<1>6. UNCHANGED <<svc, engine, staged, registered, ranBefore>> /\ timeouts' = timeouts + 1
  BY DEF AwaitFails
<1> HIDE DEF r
<1>7. ServiceType' /\ helper'[h] = r /\ Only(h)
  <2>1. /\ svc' \in [Services -> {"running", "stopping", "stopped"}]
        /\ engine' \in Builds \cup {"none", "down"} /\ staged' \in Builds
        /\ registered' \in BOOLEAN /\ ranBefore' \subseteq Services /\ timeouts' \in Nat
    BY <1>6 DEF ServiceType
  <2> QED BY <1>2, <1>3, <1>5, <2>1, HelperTypeKept
<1> QED BY <1>5, <1>6, <1>7 DEF SameJob, ServiceType

\* What is to be started again: Audiosrv, and all that was stopped.
LEMMA StartListIs ==
  ASSUME NEW l \in Seq(Services)
  PROVE  LET w == <<Audiosrv>> \o Without(l, Audiosrv) IN
         w \in Seq(Services) /\ Listed(l) \subseteq Listed(w)
<1> DEFINE k == Without(l, Audiosrv)
           w == <<Audiosrv>> \o k
<1>1. k \in Seq(Services)
  BY WithoutType
<1>2. \A i \in 1..Len(l) : l[i] # Audiosrv => \E j \in 1..Len(k) : k[j] = l[i]
  BY WithoutKeeps
<1> HIDE DEF k
<1>3. /\ w \in Seq(Services) /\ Len(w) = Len(k) + 1 /\ w[1] = Audiosrv
      /\ \A j \in 1..Len(k) : w[j + 1] = k[j]
      /\ Len(k) \in Nat
  <2>1. Audiosrv \in Services
    BY DEF Services
  <2>2. <<Audiosrv>> \in Seq(Services) /\ Len(<<Audiosrv>>) = 1 /\ <<Audiosrv>>[1] = Audiosrv
    BY <2>1
  <2> QED BY <1>1, <2>2, ConcatProperties, LenProperties
<1> HIDE DEF w
<1>4. ASSUME NEW i \in 1..Len(l) PROVE \E j \in 1..Len(w) : w[j] = l[i]
  <2>1. CASE l[i] = Audiosrv
    BY <1>3, <2>1
  <2>2. CASE l[i] # Audiosrv
    <3>1. PICK j \in 1..Len(k) : k[j] = l[i]
      BY <1>2, <2>2
    <3>2. j + 1 \in 1..Len(w) /\ w[j + 1] = l[i]
      BY <1>3, <3>1
    <3> QED BY <3>2
  <2> QED BY <2>1, <2>2
<1>5. Listed(l) \subseteq Listed(w)
  BY <1>4 DEF Listed
<1> QED BY <1>3, <1>5 DEF w, k

LEMMA StartingIs ==
  ASSUME ServiceType, NEW h \in Helpers, NEW ok \in BOOLEAN, Starting(h, ok),
         svc' \in [Services -> {"running", "stopping", "stopped"}],
         engine' \in Builds \cup {"none", "down"}, staged' \in Builds, registered' \in BOOLEAN,
         ranBefore' \subseteq Services, timeouts' \in Nat
  PROVE  /\ ServiceType' /\ Only(h) /\ SameJob(h)
         /\ helper'[h].pc = "starting" /\ helper'[h].ok = ok
         /\ Listed(helper[h].stopped) \subseteq Listed(helper'[h].walk)
<1> DEFINE w == StartList(h)
           q == [helper[h] EXCEPT !.pc = "starting"]
           p == [q EXCEPT !.ok = ok]
           o == [p EXCEPT !.walk = w]
           r == [o EXCEPT !.stopped = <<>>]
<1>1. w \in Seq(Services) /\ Listed(helper[h].stopped) \subseteq Listed(w)
  BY HelperIs, StartListIs DEF StartList
<1>2. helper[h] \in HelperTypes /\ <<>> \in Seq(Services)
  BY HelperIs
<1> HIDE DEF w
<1>3. helper' = [helper EXCEPT ![h] = r]
  BY <1>1, <1>2 DEF Starting, HelperTypes, ServiceType, w
<1>4. q \in HelperTypes /\ q.pc = "starting" /\ q.job = helper[h].job
  BY <1>2 DEF HelperTypes
<1> HIDE DEF q
<1>5. p \in HelperTypes /\ p.pc = "starting" /\ p.job = helper[h].job /\ p.ok = ok
  BY <1>4 DEF HelperTypes
<1> HIDE DEF p
<1>6. /\ o \in HelperTypes /\ o.pc = "starting" /\ o.job = helper[h].job /\ o.ok = ok
      /\ o.walk = w
  BY <1>1, <1>5 DEF HelperTypes
<1> HIDE DEF o
<1>7. /\ r \in HelperTypes /\ r.pc = "starting" /\ r.job = helper[h].job /\ r.ok = ok
      /\ r.walk = w
  BY <1>2, <1>6 DEF HelperTypes
<1> HIDE DEF r
<1>8. ServiceType' /\ helper'[h] = r /\ Only(h)
  BY <1>1, <1>3, <1>7, HelperTypeKept
<1> QED BY <1>1, <1>7, <1>8 DEF SameJob

LEMMA AfterStopIs ==
  ASSUME ServiceType, NEW h \in Helpers, AfterStop(h)
  PROVE  /\ ServiceType' /\ Only(h) /\ SameJob(h)
         /\ \/ helper'[h].pc = "working" /\ SameStopped(h)
            \/ /\ helper'[h].pc = "starting"
               /\ helper'[h].ok => helper'[h].job = "restart"
               /\ Listed(helper[h].stopped) \subseteq Listed(helper'[h].walk)
<1>1. UNCHANGED <<svc, engine, staged, registered, ranBefore, timeouts>>
  BY DEF AfterStop
<1>2. helper[h].pc = "stopping" /\ helper[h].walk = <<>> /\ helper[h] \in HelperTypes
  BY HelperIs DEF AfterStop, Stopped
<1>3. CASE helper' = [helper EXCEPT ![h].pc = "working"]
  <2> DEFINE r == [helper[h] EXCEPT !.pc = "working"]
  <2>1. helper' = [helper EXCEPT ![h] = r]
    BY <1>3
  <2>2. /\ r \in HelperTypes /\ r.pc = "working" /\ r.job = helper[h].job /\ r.walk = <<>>
        /\ r.stopped = helper[h].stopped
    BY <1>2 DEF HelperTypes
  <2> HIDE DEF r
  <2>3. ServiceType' /\ helper'[h] = r /\ Only(h)
    BY <1>1, <2>1, <2>2, HelperTypeKept DEF ServiceType
  <2> QED BY <2>2, <2>3 DEF SameJob, SameStopped
<1>4. CASE ~HasWork(h) /\ Starting(h, helper[h].ok)
  <2>1. /\ ServiceType' /\ Only(h) /\ SameJob(h)
        /\ helper'[h].pc = "starting" /\ helper'[h].ok = helper[h].ok
        /\ Listed(helper[h].stopped) \subseteq Listed(helper'[h].walk)
    BY <1>1, <1>4, HelperIs, StartingIs DEF ServiceType
  <2> QED BY <1>4, <2>1 DEF HasWork, SameJob
<1> QED BY <1>3, <1>4 DEF AfterStop

LEMMA InstallIs ==
  ASSUME ServiceType, NEW h \in Helpers, Install(h)
  PROVE  /\ ServiceType' /\ Only(h) /\ SameJob(h)
         /\ helper'[h].pc = "starting"
         /\ Listed(helper[h].stopped) \subseteq Listed(helper'[h].walk)
<1>1. /\ svc' \in [Services -> {"running", "stopping", "stopped"}]
      /\ engine' \in Builds \cup {"none", "down"} /\ staged' \in Builds /\ registered' \in BOOLEAN
      /\ ranBefore' \subseteq Services /\ timeouts' \in Nat
  BY DEF ServiceType, Install, Builds
<1> QED BY <1>1, StartingIs DEF Install

LEMMA InstallFailsIs ==
  ASSUME ServiceType, NEW h \in Helpers, InstallFails(h)
  PROVE  /\ ServiceType' /\ Only(h) /\ SameJob(h)
         /\ helper'[h].pc = "starting" /\ helper'[h].ok = FALSE
         /\ Listed(helper[h].stopped) \subseteq Listed(helper'[h].walk)
<1>1. /\ svc' \in [Services -> {"running", "stopping", "stopped"}]
      /\ engine' \in Builds \cup {"none", "down"} /\ staged' \in Builds /\ registered' \in BOOLEAN
      /\ ranBefore' \subseteq Services /\ timeouts' \in Nat
  BY DEF ServiceType, InstallFails, Builds
<1> QED BY <1>1, StartingIs DEF InstallFails

LEMMA UninstallIs ==
  ASSUME ServiceType, NEW h \in Helpers, Uninstall(h)
  PROVE  /\ ServiceType' /\ Only(h) /\ SameJob(h)
         /\ helper'[h].pc = "starting"
         /\ Listed(helper[h].stopped) \subseteq Listed(helper'[h].walk)
<1>1. /\ svc' \in [Services -> {"running", "stopping", "stopped"}]
      /\ engine' \in Builds \cup {"none", "down"} /\ staged' \in Builds /\ registered' \in BOOLEAN
      /\ ranBefore' \subseteq Services /\ timeouts' \in Nat
  BY DEF ServiceType, Uninstall, Builds
<1> QED BY <1>1, StartingIs DEF Uninstall

\* Started or refused; refused only while something is still stopping.
LEMMA StartUpIs ==
  ASSUME ServiceType, NEW s \in Services, StartUp(s)
  PROVE  /\ svc' \in [Services -> {"running", "stopping", "stopped"}]
         /\ engine' \in {engine, staged, "none"}
         /\ \A t \in Services : svc[t] = "running" => svc'[t] = "running"
         /\ (\A t \in Services : svc[t] # "stopping") =>
              /\ svc'[s] = "running"
              /\ \A t \in Services : svc'[t] \in {svc[t], "running"}
<1>1. s \in Chain(s) /\ Chain(s) \subseteq Services
  BY DEF Chain
<1> QED BY <1>1 DEF StartUp, ServiceType, Maps

LEMMA StartNextIs ==
  ASSUME ServiceType, NEW h \in Helpers, StartNext(h)
  PROVE  /\ ServiceType' /\ Only(h) /\ SameJob(h)
         /\ helper[h].pc = "starting" /\ helper'[h].pc = "starting"
         /\ helper'[h].ok = helper[h].ok
         /\ helper[h].walk \in Seq(Services) /\ helper[h].walk # <<>>
         /\ Head(helper[h].walk) \in Services /\ StartUp(Head(helper[h].walk))
         /\ helper'[h].walk = Tail(helper[h].walk)
<1> DEFINE r == [helper[h] EXCEPT !.walk = Rest(h)]
           s == Head(helper[h].walk)
<1>1. /\ helper[h] \in HelperTypes /\ helper[h].pc = "starting"
      /\ helper[h].walk \in Seq(Services) /\ helper[h].walk # <<>>
  BY HelperIs DEF StartNext
<1>2. s \in Services /\ Rest(h) \in Seq(Services) /\ Rest(h) = Tail(helper[h].walk)
  BY <1>1, HeadTailProperties DEF Rest
<1>3. helper' = [helper EXCEPT ![h] = r] /\ StartUp(s)
  BY DEF StartNext
<1>4. /\ r \in HelperTypes /\ r.pc = "starting" /\ r.job = helper[h].job /\ r.walk = Rest(h)
      /\ r.ok = helper[h].ok
  BY <1>1, <1>2 DEF HelperTypes
<1> HIDE DEF r, s
<1>5. svc' \in [Services -> {"running", "stopping", "stopped"}] /\ engine' \in {engine, staged, "none"}
  BY <1>2, <1>3, StartUpIs
<1>6. ServiceType' /\ helper'[h] = r /\ Only(h)
  <2>1. UNCHANGED <<staged, registered, ranBefore, timeouts>>
    BY DEF StartNext
  <2>2. engine' \in Builds \cup {"none", "down"}
    BY <1>5 DEF ServiceType
  <2> QED BY <1>2, <1>3, <1>4, <1>5, <2>1, <2>2, HelperTypeKept DEF ServiceType
<1> QED BY <1>1, <1>2, <1>3, <1>4, <1>6 DEF SameJob, s

LEMMA ExitsIs ==
  ASSUME ServiceType, NEW h \in Helpers, HelperExits(h)
  PROVE  /\ ServiceType' /\ Only(h) /\ SameJob(h)
         /\ helper[h].pc = "starting" /\ helper'[h].pc = "done"
         /\ helper'[h].ok = helper[h].ok
<1> DEFINE r == [helper[h] EXCEPT !.pc = "done"]
<1>1. helper[h] \in HelperTypes /\ helper[h].pc = "starting" /\ helper[h].walk = <<>>
  BY HelperIs DEF HelperExits
<1>2. helper' = [helper EXCEPT ![h] = r]
  BY DEF HelperExits
<1>3. /\ r \in HelperTypes /\ r.pc = "done" /\ r.job = helper[h].job /\ r.walk = <<>>
      /\ r.ok = helper[h].ok
  BY <1>1 DEF HelperTypes
<1>4. UNCHANGED <<svc, engine, staged, registered, ranBefore, timeouts>>
  BY DEF HelperExits
<1> HIDE DEF r
<1>5. ServiceType' /\ helper'[h] = r /\ Only(h)
  BY <1>2, <1>3, <1>4, HelperTypeKept DEF ServiceType
<1> QED BY <1>1, <1>3, <1>5 DEF SameJob

-----------------------------------------------------------------------------
(* The service's part of a step.                                           *)

ServiceStep ==
  \/ \E h \in Helpers : HelperStep(h) \/ HelperFault(h)
  \/ \E s \in Services : ServiceStops(s)
  \/ EngineExits

\* What every step of the service keeps.
LEMMA ServiceTypeKept ==
  ASSUME ServiceType, ServiceStep
  PROVE  /\ ServiceType' /\ (timeouts' = 0 => timeouts = 0)
         /\ \A h \in Helpers : helper'[h].job = helper[h].job
         /\ \A h \in Helpers : helper[h].pc # "none" => helper'[h].pc # "none"
         /\ \A h \in Helpers : Busy(h)' => Busy(h)
<1>1. ASSUME NEW h \in Helpers, HelperStep(h) \/ HelperFault(h)
      PROVE  ServiceType' /\ Only(h) /\ SameJob(h) /\ helper'[h].pc # "none" /\ Busy(h)
  <2>1. CASE OpenService(h)
    BY <2>1, OpenIs DEF OpenService, At, Busy
  <2>2. CASE ControlStop(h)
    BY <2>2, ControlIs DEF ControlStop, At, Busy
  <2>3. CASE AwaitStopped(h)
    BY <2>3, AwaitedIs DEF AwaitStopped, At, Busy
  <2>4. CASE AfterStop(h)
    BY <2>4, AfterStopIs DEF AfterStop, Stopped, Busy
  <2>5. CASE Install(h)
    BY <2>5, InstallIs DEF Install, Working, Busy
  <2>6. CASE Uninstall(h)
    BY <2>6, UninstallIs DEF Uninstall, Working, Busy
  <2>7. CASE StartNext(h)
    BY <2>7, StartNextIs DEF StartNext, Busy
  <2>8. CASE HelperExits(h)
    BY <2>8, ExitsIs DEF HelperExits, Busy
  <2>9. CASE AwaitFails(h)
    BY <2>9, FailsIs DEF AwaitFails, At, Busy
  <2>10. CASE InstallFails(h)
    BY <2>10, InstallFailsIs DEF InstallFails, Working, Busy
  <2> QED BY <1>1, <2>1, <2>2, <2>3, <2>4, <2>5, <2>6, <2>7, <2>8, <2>9, <2>10
          DEF HelperStep, HelperFault
<1>2. ASSUME NEW h \in Helpers, HelperStep(h) \/ HelperFault(h)
      PROVE  timeouts' \in {timeouts, timeouts + 1}
  BY <1>2 DEF HelperStep, HelperFault, OpenService, ControlStop, AwaitStopped, AfterStop, Install,
     Uninstall, StartNext, HelperExits, AwaitFails, InstallFails
<1>3. CASE \E h \in Helpers : HelperStep(h) \/ HelperFault(h)
  <2>1. PICK h \in Helpers : HelperStep(h) \/ HelperFault(h)
    BY <1>3
  <2>2. ServiceType' /\ Only(h) /\ SameJob(h) /\ helper'[h].pc # "none" /\ Busy(h)
    BY <1>1, <2>1
  <2>3. timeouts' = 0 => timeouts = 0
    BY <1>2, <2>1 DEF ServiceType
  <2>4. \A g \in Helpers : /\ helper'[g].job = helper[g].job
                           /\ helper[g].pc # "none" => helper'[g].pc # "none"
                           /\ Busy(g)' => Busy(g)
    BY <2>2 DEF Only, SameJob, Busy
  <2> QED BY <2>2, <2>3, <2>4
<1>4. CASE (\E s \in Services : ServiceStops(s)) \/ EngineExits
  <2>1. UNCHANGED <<staged, registered, helper, ranBefore, timeouts>>
    BY <1>4 DEF ServiceStops, EngineExits
  <2>2. svc' \in [Services -> {"running", "stopping", "stopped"}] /\ engine' \in Builds \cup {"none", "down"}
    BY <1>4 DEF ServiceStops, EngineExits, ServiceType
  <2> QED BY <2>1, <2>2 DEF ServiceType, Busy
<1> QED BY <1>3, <1>4 DEF ServiceStep

-----------------------------------------------------------------------------
(* Every service that was stopped is on the way back.                      *)

LEMMA AwaitedOfTail ==
  ASSUME NEW w \in Seq(Steps), w # <<>>, NEW s \in Awaited(w),
         Head(w) # [do |-> "await", name |-> s]
  PROVE  s \in Awaited(Tail(w))
<1> DEFINE e == [do |-> "await", name |-> s]
<1>1. PICK i \in 1..Len(w) : w[i] = e
  BY DEF Awaited
<1>2. /\ Head(w) = w[1] /\ Len(w) \in Nat /\ Len(Tail(w)) = Len(w) - 1
      /\ \A j \in 1..Len(Tail(w)) : Tail(w)[j] = w[j + 1]
  BY HeadTailProperties, LenProperties
<1>3. i # 1 /\ i - 1 \in 1..Len(Tail(w)) /\ i - 1 + 1 = i
  BY <1>1, <1>2
<1>4. Tail(w)[i - 1] = e
  BY <1>1, <1>2, <1>3
<1>5. s \in Services
  BY DEF Awaited
<1> HIDE DEF e
<1>6. \E j \in 1..Len(Tail(w)) : Tail(w)[j] = e
  BY <1>3, <1>4
<1> QED BY <1>5, <1>6 DEF Awaited, e

LEMMA AwaitedOfConcat ==
  ASSUME NEW p \in Seq(Steps), NEW w \in Seq(Steps)
  PROVE  Awaited(p) \subseteq Awaited(p \o w) /\ Awaited(w) \subseteq Awaited(p \o w)
<1>1. /\ Len(p \o w) = Len(p) + Len(w) /\ Len(p) \in Nat /\ Len(w) \in Nat
      /\ \A i \in 1..Len(p) : (p \o w)[i] = p[i]
      /\ \A i \in 1..Len(w) : (p \o w)[i + Len(p)] = w[i]
  BY ConcatProperties, LenProperties
<1> DEFINE q == p \o w
<1> HIDE DEF q
<1>2. ASSUME NEW s \in Awaited(p) PROVE s \in Awaited(q)
  <2>1. PICK i \in 1..Len(p) : p[i] = [do |-> "await", name |-> s]
    BY DEF Awaited
  <2>2. i \in 1..Len(q) /\ q[i] = p[i]
    BY <1>1 DEF q
  <2> QED BY <2>1, <2>2 DEF Awaited
<1>3. ASSUME NEW s \in Awaited(w) PROVE s \in Awaited(q)
  <2>1. PICK i \in 1..Len(w) : w[i] = [do |-> "await", name |-> s]
    BY DEF Awaited
  <2>2. i + Len(p) \in 1..Len(q) /\ q[i + Len(p)] = w[i]
    BY <1>1 DEF q
  <2> QED BY <2>1, <2>2 DEF Awaited
<1> QED BY <1>2, <1>3 DEF q

LEMMA ListedOfTail ==
  ASSUME NEW w \in Seq(Services), w # <<>>, NEW s \in Listed(w), Head(w) # s
  PROVE  s \in Listed(Tail(w))
<1>1. PICK i \in 1..Len(w) : w[i] = s
  BY DEF Listed
<1>2. /\ Head(w) = w[1] /\ Len(w) \in Nat /\ Len(Tail(w)) = Len(w) - 1
      /\ \A j \in 1..Len(Tail(w)) : Tail(w)[j] = w[j + 1]
  BY HeadTailProperties, LenProperties
<1>3. i # 1 /\ i - 1 \in 1..Len(Tail(w)) /\ i - 1 + 1 = i
  BY <1>1, <1>2
<1>4. Tail(w)[i - 1] = s
  BY <1>1, <1>2, <1>3
<1> QED BY <1>3, <1>4 DEF Listed

LEMMA ListedOfFirst ==
  ASSUME NEW s \in Services, NEW l \in Seq(Services)
  PROVE  s \in Listed(<<s>> \o l) /\ Listed(l) \subseteq Listed(<<s>> \o l)
<1> DEFINE q == <<s>> \o l
<1>1. <<s>> \in Seq(Services) /\ Len(<<s>>) = 1 /\ <<s>>[1] = s
  OBVIOUS
<1>2. Len(q) = 1 + Len(l) /\ Len(l) \in Nat /\ q[1] = s /\ \A i \in 1..Len(l) : q[i + 1] = l[i]
  BY <1>1, ConcatProperties, LenProperties
<1> HIDE DEF q
<1>3. \A i \in 1..Len(l) : i + 1 \in 1..Len(q)
  BY <1>2
<1>4. 1 \in 1..Len(q)
  BY <1>2
<1> QED BY <1>2, <1>3, <1>4 DEF Listed, q

LEMMA NoneAwaited ==
  Awaited(<<>>) = {} /\ Listed(<<>>) = {}
BY DEF Awaited, Listed

\* One step of the helper that is at work.
LEMMA OnTheWayKept ==
  ASSUME ServiceType, NEW h \in Helpers, HelperStep(h) \/ HelperFault(h), timeouts' = 0,
         OnTheWay(h)
  PROVE  IF helper'[h].pc = "done" THEN \A s \in Services : svc'[s] = "running"
         ELSE OnTheWay(h)'
<1> DEFINE Goal == IF helper'[h].pc = "done" THEN \A s \in Services : svc'[s] = "running"
                   ELSE OnTheWay(h)'
<1>0. \A s \in Services : svc[s] \in {"running", "stopping", "stopped"}
  BY DEF ServiceType
<1>1. CASE OpenService(h)
  <2>1. /\ helper'[h].pc = "stopping" /\ SameStopped(h)
        /\ \E p \in Seq(Steps) : helper'[h].walk = p \o Rest(h)
    BY <1>1, OpenIs
  <2>2. PICK p \in Seq(Steps) : helper'[h].walk = p \o Rest(h)
    BY <2>1
  <2>3. /\ helper[h].walk \in Seq(Steps) /\ helper[h].walk # <<>> /\ Rest(h) \in Seq(Steps)
        /\ Head(helper[h].walk) = [do |-> "open", name |-> Name(h)]
        /\ helper[h].pc = "stopping"
    BY <1>1, WalkOf DEF OpenService, At
  <2>4. \A s : Head(helper[h].walk) # [do |-> "await", name |-> s]
    BY <2>3
  <2>5. Awaited(helper[h].walk) \subseteq Awaited(Rest(h))
    BY <2>3, <2>4, AwaitedOfTail DEF Rest
  <2>6. Awaited(helper[h].walk) \subseteq Awaited(helper'[h].walk)
    BY <2>2, <2>3, <2>5, AwaitedOfConcat
  <2>7. svc' = svc
    BY <1>1 DEF OpenService
  <2> QED BY <2>1, <2>3, <2>6, <2>7 DEF OnTheWay, SameStopped
<1>2. CASE ControlStop(h)
  <2> DEFINE s == Name(h)
  <2>1. /\ helper'[h].pc = "stopping" /\ SameStopped(h)
        /\ helper'[h].walk = IF svc[s] = "stopped" THEN Rest(h)
                             ELSE <<[do |-> "await", name |-> s]>> \o Rest(h)
    BY <1>2, ControlIs
  <2>2. /\ helper[h].walk \in Seq(Steps) /\ helper[h].walk # <<>> /\ Rest(h) \in Seq(Steps)
        /\ Head(helper[h].walk) = [do |-> "stop", name |-> s] /\ s \in Services
        /\ helper[h].pc = "stopping"
    BY <1>2, WalkOf DEF ControlStop, At
  <2>3. \A t : Head(helper[h].walk) # [do |-> "await", name |-> t]
    BY <2>2
  <2>4. Awaited(helper[h].walk) \subseteq Awaited(Rest(h))
    BY <2>2, <2>3, AwaitedOfTail DEF Rest
  <2>5. /\ svc[s] = "stopped" => svc' = svc
        /\ \A t \in Services : t # s => svc'[t] = svc[t]
    BY <1>2 DEF ControlStop, ServiceType, HelperTypes
  <2>6. CASE svc[s] = "stopped"
    <3>1. svc' = svc /\ helper'[h].walk = Rest(h)
      BY <2>1, <2>5, <2>6
    <3> QED BY <2>1, <2>2, <2>4, <3>1 DEF OnTheWay, SameStopped
  <2>7. CASE svc[s] # "stopped"
    <3> DEFINE first == <<[do |-> "await", name |-> s]>>
    <3>1. first \in Seq(Steps) /\ s \in Awaited(first)
      <4>1. [do |-> "await", name |-> s] \in Steps
        BY <2>2 DEF Steps
      <4> QED BY <2>2, <4>1 DEF Awaited
    <3>2. helper'[h].walk = first \o Rest(h)
      BY <2>1, <2>7
    <3> HIDE DEF first
    <3>3. s \in Awaited(helper'[h].walk) /\ Awaited(helper[h].walk) \subseteq Awaited(helper'[h].walk)
      BY <2>2, <2>4, <3>1, <3>2, AwaitedOfConcat
    <3>4. svc'[s] # "stopped"
      BY <1>2, <2>2, <2>7 DEF ControlStop, ServiceType, HelperTypes
    <3> HIDE DEF s
    <3> QED BY <2>1, <2>2, <2>5, <3>3, <3>4 DEF OnTheWay, SameStopped
  <2> QED BY <2>6, <2>7
<1>3. CASE AwaitStopped(h)
  <2> DEFINE s == Name(h)
  <2>1. /\ helper'[h].pc = "stopping" /\ helper'[h].walk = Rest(h)
        /\ helper'[h].stopped = <<s>> \o helper[h].stopped
    BY <1>3, AwaitedIs
  <2>2. /\ helper[h].walk \in Seq(Steps) /\ helper[h].walk # <<>> /\ Rest(h) \in Seq(Steps)
        /\ Head(helper[h].walk) = [do |-> "await", name |-> s] /\ s \in Services
        /\ helper[h].pc = "stopping" /\ svc[s] = "stopped" /\ svc' = svc
    BY <1>3, WalkOf DEF AwaitStopped, At
  <2>3. helper[h].stopped \in Seq(Services)
    BY HelperIs
  <2>4. s \in Listed(helper'[h].stopped) /\ Listed(helper[h].stopped) \subseteq Listed(helper'[h].stopped)
    BY <2>1, <2>2, <2>3, ListedOfFirst
  <2> HIDE DEF s
  <2>5. \A t \in Awaited(helper[h].walk) : t = s \/ t \in Awaited(helper'[h].walk)
    <3> TAKE t \in Awaited(helper[h].walk)
    <3>1. t # s => Head(helper[h].walk) # [do |-> "await", name |-> t]
      BY <2>2
    <3> QED BY <2>1, <2>2, <3>1, AwaitedOfTail DEF Rest
  <2> QED BY <2>1, <2>2, <2>4, <2>5 DEF OnTheWay
<1>4. CASE AfterStop(h)
  <2>1. \/ helper'[h].pc = "working" /\ SameStopped(h)
        \/ helper'[h].pc = "starting" /\ Listed(helper[h].stopped) \subseteq Listed(helper'[h].walk)
    BY <1>4, AfterStopIs
  <2>2. helper[h].pc = "stopping" /\ Awaited(helper[h].walk) = {} /\ svc' = svc
    BY <1>4, NoneAwaited DEF AfterStop, Stopped
  <2> QED BY <2>1, <2>2 DEF OnTheWay, SameStopped
<1>5. CASE Install(h) \/ InstallFails(h) \/ Uninstall(h)
  <2>1. helper'[h].pc = "starting" /\ Listed(helper[h].stopped) \subseteq Listed(helper'[h].walk)
    BY <1>5, InstallIs, InstallFailsIs, UninstallIs
  <2>2. helper[h].pc = "working" /\ svc' = svc
    BY <1>5 DEF Install, InstallFails, Uninstall, Working
  <2> QED BY <2>1, <2>2 DEF OnTheWay
<1>6. CASE StartNext(h)
  <2> DEFINE s == Head(helper[h].walk)
  <2>1. /\ helper[h].pc = "starting" /\ helper'[h].pc = "starting"
        /\ helper[h].walk \in Seq(Services) /\ helper[h].walk # <<>>
        /\ s \in Services /\ StartUp(s) /\ helper'[h].walk = Tail(helper[h].walk)
    BY <1>6, StartNextIs
  <2>2. \A t \in Services : svc[t] # "stopping"
    BY <2>1 DEF OnTheWay
  <2>3. svc'[s] = "running" /\ \A t \in Services : svc'[t] \in {svc[t], "running"}
    BY <2>1, <2>2, StartUpIs
  <2>4. \A t \in Listed(helper[h].walk) : t = s \/ t \in Listed(helper'[h].walk)
    BY <2>1, ListedOfTail
  <2> HIDE DEF s
  <2>5. ASSUME NEW t \in Services
        PROVE  svc'[t] # "stopping" /\ (svc'[t] = "stopped" => t \in Listed(helper'[h].walk))
    <3>1. svc'[t] = "stopped" => t # s /\ svc[t] = "stopped"
      BY <2>3
    <3>2. svc[t] = "stopped" => t \in Listed(helper[h].walk)
      BY <2>1 DEF OnTheWay
    <3> QED BY <2>2, <2>3, <2>4, <3>1, <3>2
  <2> QED BY <2>1, <2>5 DEF OnTheWay
<1>7. CASE HelperExits(h)
  <2>1. helper'[h].pc = "done" /\ helper[h].pc = "starting"
    BY <1>7, ExitsIs
  <2>2. Listed(helper[h].walk) = {} /\ svc' = svc
    BY <1>7, NoneAwaited DEF HelperExits
  <2>3. \A s \in Services : svc[s] # "stopping" /\ svc[s] # "stopped"
    BY <2>1, <2>2 DEF OnTheWay
  <2> QED BY <1>0, <2>1, <2>2, <2>3
<1>8. ~AwaitFails(h)
  BY FailsIs
<1> QED BY <1>1, <1>2, <1>3, <1>4, <1>5, <1>6, <1>7, <1>8 DEF HelperStep, HelperFault

-----------------------------------------------------------------------------
(* What the helpers have done.                                             *)

\* What a successful helper leaves.
DoneOf(h) ==
  helper[h].pc \in {"starting", "done"} /\ helper[h].ok =>
    /\ helper[h].job = "install" => staged = "new" /\ registered
    /\ helper[h].job = "uninstall" => ~registered

LEMMA DoneKept ==
  ASSUME ServiceType, NEW h \in Helpers, HelperStep(h) \/ HelperFault(h), DoneOf(h)
  PROVE  DoneOf(h)'
<1>1. CASE OpenService(h) \/ ControlStop(h) \/ AwaitStopped(h) \/ AwaitFails(h)
  <2>1. helper'[h].pc = "stopping"
    BY <1>1, OpenIs, ControlIs, AwaitedIs, FailsIs
  <2> QED BY <2>1 DEF DoneOf
<1>2. CASE AfterStop(h)
  <2>1. \/ helper'[h].pc = "working"
        \/ helper'[h].ok => helper'[h].job = "restart"
    BY <1>2, AfterStopIs
  <2> QED BY <2>1 DEF DoneOf
<1>3. CASE Install(h)
  <2>1. helper'[h].job = "install" /\ staged' = "new" /\ registered' = TRUE
    BY <1>3, InstallIs DEF SameJob, Install, Working
  <2> QED BY <2>1 DEF DoneOf
<1>4. CASE Uninstall(h)
  <2>1. helper'[h].job = "uninstall" /\ registered' = FALSE
    BY <1>4, UninstallIs DEF SameJob, Uninstall, Working
  <2> QED BY <2>1 DEF DoneOf
<1>5. CASE InstallFails(h)
  BY <1>5, InstallFailsIs DEF DoneOf
<1>6. CASE StartNext(h)
  <2>1. helper[h].pc = "starting" /\ helper'[h].ok = helper[h].ok /\ helper'[h].job = helper[h].job
    BY <1>6, StartNextIs DEF SameJob
  <2>2. UNCHANGED <<staged, registered>>
    BY <1>6 DEF StartNext
  <2> QED BY <2>1, <2>2 DEF DoneOf
<1>7. CASE HelperExits(h)
  <2>1. helper[h].pc = "starting" /\ helper'[h].ok = helper[h].ok /\ helper'[h].job = helper[h].job
    BY <1>7, ExitsIs DEF SameJob
  <2>2. UNCHANGED <<staged, registered>>
    BY <1>7 DEF HelperExits
  <2> QED BY <2>1, <2>2 DEF DoneOf
<1> QED BY <1>1, <1>2, <1>3, <1>4, <1>5, <1>6, <1>7 DEF HelperStep, HelperFault

\* What is staged and registered changes under a helper's hands only.
LEMMA StagedChanges ==
  ASSUME ServiceStep, \A h \in Helpers : ~Busy(h)
  PROVE  UNCHANGED <<staged, registered>>
BY DEF ServiceStep, HelperStep, HelperFault, OpenService, ControlStop, AwaitStopped, AfterStop,
       Install, Uninstall, StartNext, HelperExits, AwaitFails, InstallFails, ServiceStops,
       EngineExits, Busy, Working

\* The engine maps what is staged, or nothing: while it maps the DLL nobody can
\* replace it.
LEMMA MappedKept ==
  ASSUME ServiceType, ServiceStep, Mapped => engine = staged
  PROVE  (Mapped => engine = staged)'
<1>1. ASSUME NEW h \in Helpers, HelperStep(h) \/ HelperFault(h)
      PROVE  (Mapped => engine = staged)'
  <2>1. CASE UNCHANGED <<engine, staged>>
    BY <2>1 DEF Mapped
  <2>2. CASE Install(h)
    BY <2>2 DEF Install, Mapped
  <2>3. CASE InstallFails(h)
    BY <2>3 DEF InstallFails, Mapped
  <2>4. CASE StartNext(h)
    <3>1. engine' \in {engine, staged, "none"}
      BY <2>4, StartNextIs, StartUpIs
    <3>2. staged' = staged
      BY <2>4 DEF StartNext
    <3> QED BY <3>1, <3>2 DEF Mapped
  <2> QED BY <1>1, <2>1, <2>2, <2>3, <2>4 DEF HelperStep, HelperFault, OpenService, ControlStop,
          AwaitStopped, AfterStop, Uninstall, HelperExits, AwaitFails
<1>2. CASE \E s \in Services : ServiceStops(s)
  BY <1>2 DEF ServiceStops, Mapped
<1>3. CASE EngineExits
  BY <1>3 DEF EngineExits, Mapped
<1> QED BY <1>1, <1>2, <1>3 DEF ServiceStep

\* The steps that are none of the service's.
LEMMA ServiceSame ==
  ASSUME UNCHANGED serviceVars
  PROVE  /\ ServiceType => ServiceType'
         /\ \A h \in Helpers : Busy(h)' = Busy(h)
         /\ \A h \in Helpers : OnTheWay(h)' = OnTheWay(h)
         /\ UNCHANGED <<svc, engine, staged, registered, helper, ranBefore, timeouts>>
         /\ (Mapped => engine = staged) => (Mapped => engine = staged)'
BY DEF serviceVars, ServiceType, Busy, OnTheWay, Mapped

-----------------------------------------------------------------------------
(* The inductive invariant.                                                *)

LEMMA ServiceKeeps ==
  ASSUME SetupInv, Service
  PROVE  SetupInv'
<1>0. ServiceStep /\ UNCHANGED endpointVars /\ UNCHANGED guiVars /\ faults' = faults
  BY DEF Service, ServiceStep
<1>1. EndpointInv'
  BY <1>0, EndpointStuttersKeep DEF SetupInv
<1>2. UNCHANGED <<gui, waitsFor, says, gaveUp, pc>> /\ Clear' = Clear
  BY <1>0 DEF guiVars, endpointVars, endpoint, Clear, Contains
<1>3. /\ ServiceType' /\ (timeouts' = 0 => timeouts = 0)
      /\ \A h \in Helpers : helper'[h].job = helper[h].job
      /\ \A h \in Helpers : helper[h].pc # "none" => helper'[h].pc # "none"
      /\ \A h \in Helpers : Busy(h)' => Busy(h)
  BY <1>0, ServiceTypeKept DEF SetupInv
<1>4. GuiType'
  BY <1>0, <1>2, <1>3 DEF SetupInv, GuiType
<1>5. AloneInv'
  BY <1>2, <1>3 DEF SetupInv, AloneInv
<1>6. BackInv'
  <2> SUFFICES ASSUME timeouts' = 0, ~gaveUp'
               PROVE  /\ \A h \in Helpers : Busy(h)' => OnTheWay(h)'
                      /\ (\A h \in Helpers : ~Busy(h)') => \A s \in Services : svc'[s] = "running"
    BY DEF BackInv
  <2>1. /\ \A h \in Helpers : Busy(h) => OnTheWay(h)
        /\ (\A h \in Helpers : ~Busy(h)) => \A s \in Services : svc[s] = "running"
        /\ \A h \in Helpers : Busy(h) => waitsFor = h
    BY <1>2, <1>3 DEF SetupInv, BackInv, AloneInv
  <2>2. CASE \E h \in Helpers : HelperStep(h) \/ HelperFault(h)
    <3>1. PICK h \in Helpers : HelperStep(h) \/ HelperFault(h)
      BY <2>2
    <3>2. Busy(h) /\ helper'[h].pc # "none"
      <4>1. Busy(h)
        BY <3>1 DEF HelperStep, HelperFault, OpenService, ControlStop, AwaitStopped, AfterStop,
           Install, Uninstall, StartNext, HelperExits, AwaitFails, InstallFails, At, Stopped,
           Working, Busy
      <4> QED BY <1>3, <4>1 DEF Busy
    <3>3. IF helper'[h].pc = "done" THEN \A s \in Services : svc'[s] = "running"
          ELSE OnTheWay(h)'
      BY <2>1, <3>1, <3>2, OnTheWayKept DEF SetupInv
    <3>4. \A g \in Helpers : Busy(g)' => g = h
      BY <1>3, <2>1, <3>2
    <3>5. Busy(h)' <=> helper'[h].pc # "done"
      BY <3>2 DEF Busy
    <3> QED BY <3>3, <3>4, <3>5
  <2>3. CASE \E s \in Services : ServiceStops(s)
    <3>1. PICK s \in Services : ServiceStops(s)
      BY <2>3
    <3>2. /\ svc[s] = "stopping" /\ svc' = [svc EXCEPT ![s] = "stopped"] /\ helper' = helper
      BY <3>1 DEF ServiceStops
    <3>3. svc'[s] = "stopped" /\ \A t \in Services : t # s => svc'[t] = svc[t]
      BY <3>2 DEF SetupInv, ServiceType
    <3>4. ASSUME NEW h \in Helpers, Busy(h)' PROVE OnTheWay(h)'
      <4>1. OnTheWay(h)
        BY <1>3, <2>1, <3>4
      <4>2. helper[h].pc = "stopping" /\ s \in Awaited(helper[h].walk)
        BY <3>2, <4>1 DEF OnTheWay
      <4> QED BY <3>2, <3>3, <4>1, <4>2 DEF OnTheWay
    <3>5. (\A h \in Helpers : ~Busy(h)') => \A t \in Services : svc'[t] = "running"
      BY <2>1, <3>2 DEF Busy
    <3> QED BY <3>4, <3>5
  <2>4. CASE EngineExits
    <3>1. UNCHANGED <<svc, helper>>
      BY <2>4 DEF EngineExits
    <3> QED BY <2>1, <3>1 DEF Busy, OnTheWay
  <2> QED BY <1>0, <2>2, <2>3, <2>4 DEF ServiceStep
<1>7. DoneInv'
  <2>1. (Mapped => engine = staged)'
    BY <1>0, MappedKept DEF SetupInv, DoneInv
  <2>2. ASSUME ~gaveUp, gui = "waiting" PROVE DoneOf(waitsFor)'
    <3>1. waitsFor \in Helpers /\ DoneOf(waitsFor)
      BY <2>2 DEF SetupInv, GuiType, DoneInv, DoneOf
    <3>2. CASE \E h \in Helpers : HelperStep(h) \/ HelperFault(h)
      <4>1. PICK h \in Helpers : HelperStep(h) \/ HelperFault(h)
        BY <3>2
      <4>2. Busy(h)
        BY <4>1 DEF HelperStep, HelperFault, OpenService, ControlStop, AwaitStopped, AfterStop,
           Install, Uninstall, StartNext, HelperExits, AwaitFails, InstallFails, At, Stopped,
           Working, Busy
      <4>3. h = waitsFor
        BY <2>2, <4>2 DEF SetupInv, AloneInv
      <4>4. DoneOf(h)'
        BY <3>1, <4>1, <4>3, DoneKept DEF SetupInv
      <4> QED BY <1>2, <4>3, <4>4 DEF DoneOf
    <3>3. CASE (\E s \in Services : ServiceStops(s)) \/ EngineExits
      <4>1. UNCHANGED <<helper, staged, registered>>
        BY <3>3 DEF ServiceStops, EngineExits
      <4> QED BY <1>2, <3>1, <4>1 DEF DoneOf
    <3> QED BY <1>0, <3>2, <3>3 DEF ServiceStep
  <2> QED BY <1>2, <2>1, <2>2 DEF DoneInv, DoneOf
<1>8. LeavingInv'
  <2>1. efx' = efx /\ composite' = composite
    BY <1>0 DEF endpointVars, endpoint
  <2> QED BY <1>0, <1>2, <1>3, <2>1 DEF SetupInv, LeavingInv, GuiType, Contains
<1>9. SaidInv'
  <2>1. ~gaveUp /\ says # "nothing" => UNCHANGED <<staged, registered>>
    BY <1>0, StagedChanges DEF SetupInv, AloneInv, GuiType
  <2> QED BY <1>0, <1>2, <2>1 DEF SetupInv, SaidInv
<1> QED BY <1>1, <1>3, <1>4, <1>5, <1>6, <1>7, <1>8, <1>9 DEF SetupInv

\* A step that is none of the service's and leaves the helper's window alone, or
\* closes it.
LEMMA BackSame ==
  ASSUME BackInv, AloneInv, UNCHANGED serviceVars, gaveUp' = gaveUp,
         gui = "waiting" => gui' = "waiting" /\ waitsFor' = waitsFor
  PROVE  BackInv' /\ AloneInv'
BY ServiceSame DEF BackInv, AloneInv

LEMMA AttachedKeeps ==
  ASSUME SetupInv, NEW on \in BOOLEAN, SetApoAttached(on)
  PROVE  SetupInv'
<1>1. /\ gui = "idle" /\ pc = "idle" /\ gui' = "idle" /\ says' = "nothing"
      /\ UNCHANGED <<serviceVars, waitsFor, gaveUp, faults>> /\ (Attach \/ Detach)
  BY DEF SetApoAttached, Idle
<1>2. EndpointInv'
  BY <1>1, AttachKeeps, DetachKeeps DEF SetupInv
<1>3. ServiceType' /\ UNCHANGED <<svc, engine, staged, registered, helper, timeouts>>
  BY <1>1, ServiceSame DEF SetupInv
<1>4. GuiType'
  BY <1>1, <1>3 DEF SetupInv, GuiType
<1>5. BackInv' /\ AloneInv'
  BY <1>1, BackSame DEF SetupInv
<1>6. DoneInv' /\ LeavingInv' /\ SaidInv'
  BY <1>1, <1>3, ServiceSame DEF SetupInv, DoneInv, LeavingInv, SaidInv
<1> QED BY <1>2, <1>3, <1>4, <1>5, <1>6 DEF SetupInv

\* Writing one value, or failing to.
LEMMA EndpointStepKeeps ==
  ASSUME SetupInv, NEW ok \in BOOLEAN, EndpointStep(ok)
  PROVE  SetupInv'
<1>1. /\ UNCHANGED <<serviceVars, gui, waitsFor, says, gaveUp>>
      /\ faults' = IF ok THEN faults ELSE faults + 1
      /\ Writing(ok) \/ (ok /\ (AttachBackup \/ DetachForget))
  BY DEF EndpointStep, guiVars, Fault
<1>2. EndpointInv'
  <2>1. CASE Writing(ok)
    BY <2>1, EnableKeeps, JoinKeeps, SlotKeeps, LeaveKeeps, RestoreKeeps DEF SetupInv, Writing
  <2>2. CASE AttachBackup
    BY <2>2, BackupKeeps DEF SetupInv
  <2>3. CASE DetachForget
    BY <2>3, ForgetKeeps DEF SetupInv
  <2> QED BY <1>1, <2>1, <2>2, <2>3
<1>3. pc # "idle"
  BY <1>1 DEF Writing, AttachEnable, AttachJoin, AttachSlot, DetachLeave, DetachRestore,
     AttachBackup, DetachForget, Step
<1>4. ServiceType' /\ UNCHANGED <<svc, engine, staged, registered, helper, timeouts>>
  BY <1>1, ServiceSame DEF SetupInv
<1>5. says = "nothing" /\ gui # "waiting"
  BY <1>3 DEF SetupInv, GuiType
<1>6. GuiType'
  BY <1>1, <1>4, <1>5 DEF SetupInv, GuiType
<1>7. BackInv' /\ AloneInv'
  BY <1>1, BackSame DEF SetupInv
<1>8. DoneInv' /\ SaidInv'
  BY <1>1, <1>4, <1>5, ServiceSame DEF SetupInv, DoneInv, SaidInv
<1>9. LeavingInv'
  <2> SUFFICES ASSUME faults' = 0, gui = "leaving"
               PROVE  \/ pc' = "leave"
                      \/ pc' = "restore" /\ (composite' => ~Contains(efx', Ours))
                      \/ pc' \in {"idle", "forget"} /\ Clear'
    BY <1>1, <1>5 DEF LeavingInv
  <2>1. ok /\ faults = 0
    BY <1>1 DEF SetupInv, GuiType
  <2>2. \/ pc = "leave"
        \/ pc = "restore" /\ (composite => ~Contains(efx, Ours))
        \/ pc = "forget" /\ Clear
    BY <1>3, <2>1 DEF SetupInv, LeavingInv
  <2>3. CASE pc = "leave"
    <3>1. DetachLeave(ok)
      BY <1>1, <2>3 DEF Writing, AttachEnable, AttachJoin, AttachSlot, DetachRestore,
         AttachBackup, DetachForget, Step
    <3>2. ~Contains(Without(efx, Ours), Ours)
      <4>1. \A i \in 1..Len(Without(efx, Ours)) : Without(efx, Ours)[i] # Ours
        BY WithoutType DEF SetupInv, EndpointInv, EndpointType
      <4> QED BY <4>1 DEF Contains
    <3> QED BY <2>1, <3>1, <3>2 DEF DetachLeave, Clear
  <2>4. CASE pc = "restore" /\ (composite => ~Contains(efx, Ours))
    <3>1. DetachRestore(ok)
      BY <1>1, <2>4 DEF Writing, AttachEnable, AttachJoin, AttachSlot, DetachLeave,
         AttachBackup, DetachForget, Step
    <3>2. slot' # Ours
      BY <2>1, <3>1, SlotsAre DEF DetachRestore, SetupInv, EndpointInv, EndpointType
    <3> QED BY <2>1, <2>4, <3>1, <3>2 DEF DetachRestore, Step, Clear
  <2>5. CASE pc = "forget" /\ Clear
    <3>1. DetachForget
      BY <1>1, <2>5 DEF Writing, AttachEnable, AttachJoin, AttachSlot, DetachLeave, DetachRestore,
         AttachBackup, Step
    <3> QED BY <2>5, <3>1 DEF DetachForget, Step, endpoint, Clear
  <2> QED BY <2>2, <2>3, <2>4, <2>5
<1> QED BY <1>2, <1>4, <1>6, <1>7, <1>8, <1>9 DEF SetupInv

\* uninstallApo begins by leaving the endpoint: there is nothing of ours in it, or
\* it is about to be taken out.
LEMMA UninstallKeeps ==
  ASSUME SetupInv, UninstallApo
  PROVE  SetupInv'
<1>1. /\ gui = "idle" /\ pc = "idle" /\ gui' = "leaving" /\ says' = "nothing" /\ Detach
      /\ UNCHANGED <<serviceVars, waitsFor, gaveUp, faults>>
  BY DEF UninstallApo, Idle
<1>2. EndpointInv'
  BY <1>1, DetachKeeps DEF SetupInv
<1>3. ServiceType' /\ UNCHANGED <<svc, engine, staged, registered, helper, timeouts>>
  BY <1>1, ServiceSame DEF SetupInv
<1>4. GuiType'
  BY <1>1, <1>3 DEF SetupInv, GuiType
<1>5. BackInv' /\ AloneInv'
  BY <1>1, BackSame DEF SetupInv
<1>6. DoneInv' /\ SaidInv'
  BY <1>1, <1>3, ServiceSame DEF SetupInv, DoneInv, SaidInv
<1>7. LeavingInv'
  <2>1. \/ pc' = "leave"
        \/ pc' = "restore" /\ ~composite'
        \/ pc' = "idle" /\ ~composite' /\ slot' # Ours
    BY <1>1, SlotsAre DEF Detach, endpoint
  <2> QED BY <1>1, <2>1 DEF LeavingInv, Clear
<1> QED BY <1>2, <1>3, <1>4, <1>5, <1>6, <1>7 DEF SetupInv

\* The others never write our CLSID.
LEMMA ElsewhereKeeps ==
  ASSUME SetupInv, Elsewhere
  PROVE  SetupInv'
<1>1. /\ UNCHANGED <<serviceVars, gui, waitsFor, says, gaveUp, faults>> /\ pc' = pc
      /\ (\E v \in Others \cup {Free} : OtherWrites(v)) \/ DriverWrites \/ DisableSysFx
  BY DEF Elsewhere, guiVars, OtherWrites, DriverWrites, DisableSysFx
<1>2. EndpointInv'
  BY <1>1, OthersKeep DEF SetupInv
<1>3. ServiceType' /\ UNCHANGED <<svc, engine, staged, registered, helper, timeouts>>
  BY <1>1, ServiceSame DEF SetupInv
<1>4. GuiType'
  BY <1>1, <1>3 DEF SetupInv, GuiType
<1>5. BackInv' /\ AloneInv'
  BY <1>1, BackSame DEF SetupInv
<1>6. DoneInv'
  BY <1>1, <1>3, ServiceSame DEF SetupInv, DoneInv
<1>7. /\ (composite => ~Contains(efx, Ours)) => (composite' => ~Contains(efx', Ours))
      /\ Clear => Clear'
  <2>1. CASE \E v \in Others \cup {Free} : OtherWrites(v)
    BY <2>1, SlotsAre DEF OtherWrites, Clear, Contains
  <2>2. CASE DriverWrites
    <3>1. slot' = slot /\ (efx' = <<>> \/ \E o \in Others : efx' = <<o>>)
      BY <2>2 DEF DriverWrites
    <3>2. \A o \in Others : ~Contains(<<o>>, Ours)
      BY SlotsAre DEF Contains
    <3>3. ~Contains(<<>>, Ours)
      BY DEF Contains
    <3> QED BY <3>1, <3>2, <3>3 DEF Clear
  <2>3. CASE DisableSysFx
    BY <2>3 DEF DisableSysFx, Clear, Contains
  <2> QED BY <1>1, <2>1, <2>2, <2>3
<1>8. LeavingInv'
  BY <1>1, <1>3, <1>7 DEF SetupInv, LeavingInv
<1>9. SaidInv'
  BY <1>1, <1>3, <1>7 DEF SetupInv, SaidInv
<1> QED BY <1>2, <1>3, <1>4, <1>5, <1>6, <1>8, <1>9 DEF SetupInv

\* The helper is started, unless the consent is refused: from a window that waits
\* for none.
LEMMA ElevatedKeeps ==
  ASSUME SetupInv, NEW job \in Jobs, RunElevated(job), UNCHANGED endpointVars, faults' = faults,
         gui \in {"idle", "leaving"}, pc = "idle",
         job = "uninstall" => (faults = 0 => Clear)
  PROVE  SetupInv'
<1>1. EndpointInv' /\ pc' = "idle" /\ Clear' = Clear
  BY EndpointStuttersKeep DEF SetupInv, endpointVars, endpoint, Clear, Contains
<1>2. CASE /\ gui' = "idle" /\ says' = "cancelled"
           /\ UNCHANGED <<serviceVars, waitsFor, gaveUp>>
  <2>1. ServiceType' /\ UNCHANGED <<svc, engine, staged, registered, helper, timeouts>>
    BY <1>2, ServiceSame DEF SetupInv
  <2>2. GuiType'
    BY <1>1, <1>2, <2>1 DEF SetupInv, GuiType
  <2>3. BackInv' /\ AloneInv'
    BY <1>2, BackSame DEF SetupInv
  <2>4. DoneInv' /\ LeavingInv' /\ SaidInv'
    BY <1>2, <2>1, ServiceSame DEF SetupInv, DoneInv, LeavingInv, SaidInv
  <2> QED BY <1>1, <2>1, <2>2, <2>3, <2>4 DEF SetupInv
<1>3. ASSUME NEW h \in Helpers, Launch(h, job), gui' = "waiting", waitsFor' = h,
             says' = "nothing", gaveUp' = gaveUp
      PROVE  SetupInv'
  <2>1. /\ ServiceType' /\ Only(h) /\ ~Busy(h)
        /\ helper'[h].pc = "stopping" /\ helper'[h].job = job
    BY <1>3, LaunchIs DEF SetupInv
  <2>2. UNCHANGED <<svc, engine, staged, registered, timeouts>>
    BY <1>3 DEF Launch
  <2>3. GuiType'
    BY <1>1, <1>3, <2>1 DEF SetupInv, GuiType
  <2>4. ~gaveUp => \A g \in Helpers : ~Busy(g)
    BY DEF SetupInv, AloneInv
  <2>5. AloneInv'
    BY <1>3, <2>1, <2>4 DEF AloneInv, Only, Busy
  <2>6. BackInv'
    <3>1. timeouts = 0 /\ ~gaveUp => \A s \in Services : svc[s] = "running"
      BY <2>4 DEF SetupInv, BackInv
    <3>2. timeouts = 0 /\ ~gaveUp => \A g \in Helpers : OnTheWay(g)'
      BY <2>2, <3>1 DEF OnTheWay
    <3>3. timeouts = 0 /\ ~gaveUp => \A s \in Services : svc'[s] = "running"
      BY <2>2, <3>1
    <3> QED BY <1>3, <2>2, <3>2, <3>3 DEF BackInv
  <2>7. DoneInv'
    BY <1>3, <2>1, <2>2 DEF SetupInv, DoneInv, Mapped
  <2>8. LeavingInv' /\ SaidInv'
    BY <1>1, <1>3, <2>1 DEF LeavingInv, SaidInv
  <2> QED BY <1>1, <2>1, <2>3, <2>5, <2>6, <2>7, <2>8 DEF SetupInv
<1> QED BY <1>2, <1>3 DEF RunElevated

\* The helper's answer is read.
LEMMA ReturnKeeps ==
  ASSUME SetupInv, HelperReturns
  PROVE  SetupInv'
<1>1. /\ gui = "waiting" /\ helper[waitsFor].pc = "done" /\ gui' = "idle"
      /\ says' = Verdict(waitsFor)
      /\ UNCHANGED endpointVars /\ UNCHANGED <<serviceVars, waitsFor, gaveUp, faults>>
  BY DEF HelperReturns
<1>2. EndpointInv' /\ pc' = pc /\ Clear' = Clear
  BY <1>1, EndpointStuttersKeep DEF SetupInv, endpointVars, endpoint, Clear, Contains
<1>3. ServiceType' /\ UNCHANGED <<svc, engine, staged, registered, helper, timeouts>>
  BY <1>1, ServiceSame DEF SetupInv
<1>4. waitsFor \in Helpers /\ pc = "idle" /\ helper[waitsFor].job \in Jobs
      /\ helper[waitsFor].ok \in BOOLEAN
  BY <1>1, HelperIs DEF SetupInv, GuiType
<1>5. /\ says' \in {"failed", "installed", "stale", "uninstalled", "restarted"}
      /\ says' = "installed" => /\ helper[waitsFor].ok /\ helper[waitsFor].job = "install"
      /\ says' = "uninstalled" => /\ helper[waitsFor].ok /\ helper[waitsFor].job = "uninstall"
  BY <1>1, <1>4 DEF Verdict, Jobs
<1>6. GuiType'
  BY <1>1, <1>2, <1>3, <1>4, <1>5 DEF SetupInv, GuiType
<1>7. ~gaveUp => \A h \in Helpers : ~Busy(h)
  BY <1>1 DEF SetupInv, AloneInv, Busy
<1>8. AloneInv' /\ BackInv'
  BY <1>1, <1>3, <1>7, ServiceSame DEF SetupInv, AloneInv, BackInv
<1>9. DoneInv' /\ LeavingInv'
  BY <1>1, <1>2, <1>3, ServiceSame DEF SetupInv, DoneInv, LeavingInv
<1>10. SaidInv'
  BY <1>1, <1>2, <1>3, <1>5 DEF SetupInv, DoneInv, LeavingInv, SaidInv
<1> QED BY <1>2, <1>3, <1>6, <1>8, <1>9, <1>10 DEF SetupInv

\* The helper is not waited for to the end.
LEMMA GivenUpKeeps ==
  ASSUME SetupInv, GiveUp
  PROVE  SetupInv'
<1>1. /\ gui = "waiting" /\ gui' = "idle" /\ says' = "failed" /\ gaveUp' = TRUE
      /\ UNCHANGED endpointVars /\ UNCHANGED <<serviceVars, waitsFor>> /\ faults' = faults + 1
  BY DEF GiveUp, Fault
<1>2. EndpointInv' /\ pc' = pc
  BY <1>1, EndpointStuttersKeep DEF SetupInv, endpointVars
<1>3. ServiceType' /\ UNCHANGED <<svc, engine, staged, registered, helper, timeouts>>
  BY <1>1, ServiceSame DEF SetupInv
<1>4. GuiType'
  BY <1>1, <1>2, <1>3 DEF SetupInv, GuiType
<1>5. AloneInv' /\ BackInv' /\ SaidInv' /\ DoneInv' /\ LeavingInv'
  BY <1>1, <1>3, ServiceSame DEF SetupInv, AloneInv, BackInv, SaidInv, DoneInv, LeavingInv, GuiType
<1> QED BY <1>2, <1>3, <1>4, <1>5 DEF SetupInv

LEMMA CrashedKeeps ==
  ASSUME SetupInv, Crash
  PROVE  SetupInv'
<1>1. /\ pc' = "idle" /\ gui' = "idle" /\ says' = "nothing" /\ faults' = faults + 1
      /\ gaveUp' = (gaveUp \/ gui = "waiting") /\ UNCHANGED <<serviceVars, waitsFor>>
  BY DEF Crash, Fault
<1>2. EndpointInv'
  BY CrashKeeps DEF SetupInv
<1>3. ServiceType' /\ UNCHANGED <<svc, engine, staged, registered, helper, timeouts>>
  BY <1>1, ServiceSame DEF SetupInv
<1>4. GuiType'
  BY <1>1, <1>3 DEF SetupInv, GuiType
<1>5. AloneInv' /\ BackInv'
  BY <1>1, <1>3, ServiceSame DEF SetupInv, AloneInv, BackInv, GuiType
<1>6. SaidInv' /\ DoneInv' /\ LeavingInv'
  BY <1>1, <1>3, ServiceSame DEF SetupInv, SaidInv, DoneInv, LeavingInv, GuiType
<1> QED BY <1>2, <1>3, <1>4, <1>5, <1>6 DEF SetupInv

LEMMA InitIsInv ==
  ASSUME Init
  PROVE  SetupInv
<1> USE DEF Init
<1>1. EndpointInv
  BY SlotsAre, EmptySeq
     DEF InitEndpoint, EndpointInv, EndpointType, CurrentInv, BackupInv, NoSlot, SlotTypes,
         AfterSysFx, NothingIsLost, DisplacedIsKept, RoundTrip
<1>2. NoHelper \in HelperTypes /\ NoHelper.pc = "none" /\ NoHelper.walk = <<>>
  BY EmptySeq DEF NoHelper, HelperTypes, Jobs
<1>3. ServiceType /\ \A h \in Helpers : helper[h].pc = "none"
  BY <1>2 DEF InitService, ServiceType, Builds
<1>4. GuiType
  BY <1>3 DEF InitEndpoint, GuiType
<1>5. AloneInv /\ BackInv
  BY <1>3 DEF InitService, AloneInv, BackInv, Busy
<1>6. DoneInv /\ LeavingInv /\ SaidInv
  BY <1>3 DEF InitService, DoneInv, LeavingInv, SaidInv, Mapped
<1> QED BY <1>1, <1>3, <1>4, <1>5, <1>6 DEF SetupInv

LEMMA NextKeeps ==
  ASSUME SetupInv, [Next]_vars
  PROVE  SetupInv'
<1>1. CASE \E on \in BOOLEAN : SetApoAttached(on)
  BY <1>1, AttachedKeeps
<1>2. CASE \E ok \in BOOLEAN : EndpointStep(ok)
  BY <1>2, EndpointStepKeeps
<1>3. CASE \E job \in Jobs : Install_Restart(job)
  <2>1. PICK job \in {"install", "restart"} : Install_Restart(job)
    BY <1>3 DEF Install_Restart
  <2>2. /\ RunElevated(job) /\ UNCHANGED endpointVars /\ faults' = faults
        /\ gui = "idle" /\ pc = "idle"
    BY <2>1 DEF Install_Restart, Idle
  <2> QED BY <2>2, ElevatedKeeps DEF Jobs
<1>4. CASE UninstallApo
  BY <1>4, UninstallKeeps
<1>5. CASE UninstallElevated
  <2>1. /\ RunElevated("uninstall") /\ UNCHANGED endpointVars /\ faults' = faults
        /\ gui = "leaving" /\ pc = "idle"
    BY <1>5 DEF UninstallElevated
  <2>2. faults = 0 => Clear
    BY <2>1 DEF SetupInv, LeavingInv
  <2> QED BY <2>1, <2>2, ElevatedKeeps DEF Jobs
<1>6. CASE HelperReturns
  BY <1>6, ReturnKeeps
<1>7. CASE GiveUp
  BY <1>7, GivenUpKeeps
<1>8. CASE Crash
  BY <1>8, CrashedKeeps
<1>9. CASE Elsewhere
  BY <1>9, ElsewhereKeeps
<1>10. CASE Service
  BY <1>10, ServiceKeeps
<1>11. CASE UNCHANGED vars
  <2>1. UNCHANGED endpointVars /\ UNCHANGED serviceVars /\ UNCHANGED <<gui, waitsFor, says, gaveUp, faults>>
    BY <1>11 DEF vars, guiVars
  <2>2. EndpointInv' /\ pc' = pc /\ Clear' = Clear /\ composite' = composite /\ efx' = efx
    BY <2>1, EndpointStuttersKeep DEF SetupInv, endpointVars, endpoint, Clear, Contains
  <2>3. ServiceType' /\ UNCHANGED <<svc, engine, staged, registered, helper, timeouts>>
    BY <2>1, ServiceSame DEF SetupInv
  <2>4. GuiType'
    BY <2>1, <2>2, <2>3 DEF SetupInv, GuiType
  <2>5. BackInv' /\ AloneInv'
    BY <2>1, BackSame DEF SetupInv
  <2>6. DoneInv' /\ SaidInv'
    BY <2>1, <2>2, <2>3, ServiceSame DEF SetupInv, DoneInv, SaidInv
  <2>7. LeavingInv'
    BY <2>1, <2>2, <2>3 DEF SetupInv, LeavingInv, Contains
  <2> QED BY <2>2, <2>3, <2>4, <2>5, <2>6, <2>7 DEF SetupInv
<1> QED BY <1>1, <1>2, <1>3, <1>4, <1>5, <1>6, <1>7, <1>8, <1>9, <1>10, <1>11 DEF Next

-----------------------------------------------------------------------------

\* AppController.cpp and ApoInstaller.cpp together: what the endpoint, the
\* services, the helpers and the window are is always as SetupInv says.
THEOREM SetupInvariant == Spec => []SetupInv
BY InitIsInv, NextKeeps, PTL DEF Spec

\* ApoInstaller.h:67: what a product had in the slot before us is there or in
\* the backup, wherever attaching and detaching are cut short.
THEOREM NothingIsEverLost == Spec => []NothingIsLost
<1>1. SetupInv => NothingIsLost
  BY DEF SetupInv, EndpointInv, BackupInv
<1> QED BY <1>1, SetupInvariant, PTL

\* AppController.cpp:803, 825 and ApoInstaller.cpp:851: once the helpers are gone
\* the machine is as the window says, and its services are as they were.
THEOREM MachineIsAsSaid == Spec => []LeftAsSaid
<1>1. SetupInv => LeftAsSaid
  <2> SUFFICES ASSUME SetupInv PROVE LeftAsSaid
    OBVIOUS
  <2>1. EverybodyBack
    BY DEF SetupInv, BackInv, ServiceType, EverybodyBack, EverybodyRuns
  <2>2. SaysWhatIs
    BY DEF SetupInv, SaidInv, DoneInv, SaysWhatIs, Mapped, Clear, OursPresent
  <2> QED BY <2>1, <2>2 DEF LeftAsSaid
<1> QED BY <1>1, SetupInvariant, PTL

\* One write of a handler: another product's slot is taken or left, its place in
\* the driver's list is left.
LEMMA OthersLeft ==
  ASSUME SetupInv, [Next]_vars, pc # "idle", writes' = writes, ~excused
  PROVE  /\ slot \in Others => slot' \in {slot, Ours}
         /\ Without(efx', Ours) = Without(efx, Ours)
<1>0. efx \in Seq(Slots) /\ writes \in Nat
  BY DEF SetupInv, EndpointInv, EndpointType
<1>1. CASE UNCHANGED endpoint
  BY <1>1 DEF endpoint
<1>2. CASE \E ok \in BOOLEAN : EndpointStep(ok)
  <2>1. PICK ok \in BOOLEAN : Writing(ok) \/ AttachBackup \/ DetachForget
    BY <1>2 DEF EndpointStep
  <2>2. CASE AttachBackup \/ DetachForget
    BY <2>2 DEF AttachBackup, DetachForget, endpoint
  <2>3. CASE AttachEnable(ok) \/ AttachSlot(ok)
    BY <2>3 DEF AttachEnable, AttachSlot
  <2>4. CASE AttachJoin(ok)
    <3>1. Without(Append(efx, Ours), Ours) = Without(efx, Ours)
      BY <1>0, SlotsAre, WithoutAppend
    <3> QED BY <2>4, <3>1 DEF AttachJoin
  <2>5. CASE DetachLeave(ok)
    <3>1. Without(Without(efx, Ours), Ours) = Without(efx, Ours)
      BY <1>0, WithoutTwice
    <3> QED BY <2>5, <3>1 DEF DetachLeave
  <2>6. CASE DetachRestore(ok)
    <3>1. slot \in {Ours, Free}
      BY <2>6 DEF DetachRestore, Step, SetupInv, EndpointInv, CurrentInv
    <3> QED BY <2>6, <3>1, SlotAssumption DEF DetachRestore
  <2> QED BY <2>1, <2>2, <2>3, <2>4, <2>5, <2>6 DEF Writing
<1>3. ~Elsewhere
  BY <1>0 DEF Elsewhere, OtherWrites, DriverWrites, DisableSysFx
<1>4. CASE (\E on \in BOOLEAN : SetApoAttached(on)) \/ UninstallApo
  BY <1>4 DEF SetApoAttached, UninstallApo, Attach, Detach, endpoint
<1>5. CASE (\E job \in Jobs : Install_Restart(job)) \/ UninstallElevated \/ HelperReturns \/ GiveUp
           \/ Service \/ UNCHANGED vars
  <2>1. UNCHANGED endpointVars
    BY <1>5 DEF Install_Restart, UninstallElevated, HelperReturns, GiveUp, Service, vars
  <2> QED BY <1>1, <2>1 DEF endpointVars
<1>6. CASE Crash
  BY <1>1, <1>6 DEF Crash
<1> QED BY <1>2, <1>3, <1>4, <1>5, <1>6 DEF Next

\* ApoInstaller.cpp:515 and 482: another product's entry is replaced by nothing
\* but ours, and its place in the driver's list is never touched.
THEOREM OthersAreNeverTouched == Spec => OthersAreLeftAlone
<1>1. SetupInv /\ [Next]_vars =>
        [pc # "idle" /\ writes' = writes /\ ~excused =>
           /\ slot \in Others => slot' \in {slot, Ours}
           /\ Without(efx', Ours) = Without(efx, Ours)]_endpoint
  BY OthersLeft
<1> QED BY <1>1, SetupInvariant, PTL DEF Spec, OthersAreLeftAlone
=============================================================================
