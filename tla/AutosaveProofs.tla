--------------------------- MODULE AutosaveProofs ---------------------------
(***************************************************************************)
(* Proofs about Autosave, for any number of saves and flushes, whatever    *)
(* the network does.                                                       *)
(*                                                                         *)
(* What is pending leaves only when it is known to be stored, so a flush   *)
(* that waits may count on its answer being still pending or settled       *)
(* (Served), and one that writes carries at least what it was asked.       *)
(***************************************************************************)
EXTENDS Autosave, TLAPS, SequenceTheorems, FiniteSetTheorems

States == {"waiting", "writing", "written", "returned"}
FlushRows == [at : States, asked : Nat, on : Nat, writes : Nat]

Typed ==
  /\ saved \in 0..MaxSaves /\ pending \in 0..saved /\ leaves \in 0..MaxLeaves
  /\ cleared \in BOOLEAN /\ saveTimer \in BOOLEAN
  /\ flushes \in Seq(FlushRows)
  /\ wire \subseteq [by : 0..Len(flushes), interview : 0..saved]
  /\ stored \in 0..saved /\ landed \subseteq 0..saved /\ failed \subseteq 0..saved
  /\ \A f \in Flushes : flushes[f].asked <= saved /\ flushes[f].writes <= saved /\ flushes[f].on <= Len(flushes)

\* Every flush was started by a save's timer or by a leave.
Counted == Len(flushes) + (IF saveTimer THEN 1 ELSE 0) <= saved + leaves

\* A write that is in flight, or waited for, has not settled.
Waits ==
  /\ inFlight \in {0} \union Writing
  /\ \A f \in Flushes : flushes[f].at = "waiting" => flushes[f].on \in Writing

\* A request on its way carries what its flush writes; a flush that waits has sent none.
Carried == \A f \in Flushes : \A m \in wire : m.by = f =>
  /\ flushes[f].at # "waiting"
  /\ flushes[f].at = "writing" => m.interview = flushes[f].writes

\* A write the server carried out is stored.
Written == \A f \in Flushes : flushes[f].at = "written" => flushes[f].writes \in landed

\* A write of n or of something newer has settled.
Served(n) == \E k \in landed \union failed : k >= n
Expected == \A f \in Flushes : flushes[f].asked # 0 /\ ~cleared =>
  /\ flushes[f].at = "waiting" => pending >= flushes[f].asked \/ Served(flushes[f].asked)
  /\ flushes[f].at \in {"writing", "written"} =>
       flushes[f].writes >= flushes[f].asked \/ Served(flushes[f].asked)

IInv == Typed /\ Counted /\ Waits /\ Carried /\ Written /\ Expected /\ NothingDropped /\ FlushLands

-----------------------------------------------------------------------------
(* Sequences and numbers.                                                  *)

LEMMA HasMax ==
  ASSUME NEW n \in Nat, NEW T, T \subseteq 1..n, T # {}
  PROVE  Max(T) \in T /\ \A y \in T : Max(T) >= y
<1> DEFINE Up(x) == {y \in T : y >= x}
           U == {Up(x) : x \in T}
<1>1. IsFiniteSet(T)
  <2>1. IsFiniteSet(1..n)
    BY FS_Interval
  <2> QED BY <2>1, FS_Subset
<1>2. U \subseteq FiniteSubsetsOf(T) /\ U # {}
  <2>1. \A x \in T : Up(x) \subseteq T /\ IsFiniteSet(Up(x))
    BY <1>1, FS_Subset
  <2> QED BY <2>1 DEF FiniteSubsetsOf
<1>3. PICK u \in U : \A v \in U : ~ (<<v, u>> \in StrictSubsetOrdering(T))
  <2> HIDE DEF U
  <2> QED BY <1>1, <1>2, WFMin, FS_StrictSubsetOrderingWellFounded
<1>4. PICK x \in T : u = Up(x)
  BY <1>3
<1>5. ASSUME NEW y \in T, ~ (x >= y) PROVE FALSE
  <2>1. Up(y) \in U /\ Up(y) \subseteq T /\ Up(x) \subseteq T
    OBVIOUS
  <2>2. Up(y) \subseteq Up(x) /\ x \in Up(x) /\ x \notin Up(y)
    <3>1. \A z \in T : z \in Nat
      OBVIOUS
    <3>2. x < y
      BY <1>5, <3>1
    <3>3. \A z \in Up(y) : z \in Up(x)
      BY <3>1, <3>2
    <3>4. x \in Up(x)
      BY <3>1
    <3>5. x \notin Up(y)
      BY <3>1, <3>2
    <3> QED BY <3>3, <3>4, <3>5
  <2> HIDE DEF Up, U
  <2>3. <<Up(y), Up(x)>> \in StrictSubsetOrdering(T)
    BY <2>1, <2>2 DEF StrictSubsetOrdering
  <2> QED BY <1>3, <1>4, <2>1, <2>3
<1>6. \A y \in T : x >= y
  BY <1>5
<1> QED BY <1>6 DEF Max

\* What a step that maps every flush to one keeps.
LEMMA MappedFlushes ==
  ASSUME flushes \in Seq(FlushRows), NEW F \in [Flushes -> FlushRows]
  PROVE  F \in Seq(FlushRows) /\ Len(F) = Len(flushes) /\ DOMAIN F = Flushes
<1>1. Len(flushes) \in Nat /\ Flushes = 1..Len(flushes)
  BY LenProperties DEF Flushes
<1>2. F \in [1..Len(flushes) -> FlushRows]
  BY <1>1
<1>3. F \in Seq(FlushRows)
  BY <1>1, <1>2, SeqDef
<1>4. DOMAIN F = 1..Len(F) /\ Len(F) \in Nat /\ DOMAIN F = 1..Len(flushes)
  BY <1>2, <1>3, LenProperties
<1>5. Len(F) = Len(flushes)
  BY <1>1, <1>4
<1> QED BY <1>1, <1>3, <1>4, <1>5

LEMMA FlushTyped ==
  ASSUME Typed
  PROVE  /\ Len(flushes) \in Nat /\ Flushes = 1..Len(flushes) /\ flushes \in [Flushes -> FlushRows]
         /\ saved \in Nat /\ pending \in Nat
         /\ \A f \in Flushes : /\ flushes[f] \in FlushRows /\ flushes[f].asked \in Nat
                               /\ flushes[f].writes \in Nat /\ flushes[f].on \in Nat /\ flushes[f].at \in States
<1>1. Len(flushes) \in Nat /\ Flushes = 1..Len(flushes)
  BY LenProperties DEF Typed, Flushes
<1>2. \A f \in Flushes : flushes[f] \in FlushRows
  BY <1>1, ElementOfSeq DEF Typed
<1>3. flushes \in [Flushes -> FlushRows]
  BY LenProperties DEF Typed, Flushes
<1> QED BY <1>1, <1>2, <1>3, AutosaveAssumption DEF Typed, FlushRows

-----------------------------------------------------------------------------
(* The steps.                                                              *)

LEMMA InitIInv == Init => IInv
<1> SUFFICES ASSUME Init PROVE IInv
  OBVIOUS
<1>1. flushes = <<>> /\ Flushes = {} /\ saved = 0 /\ leaves = 0 /\ saveTimer = FALSE /\ Len(flushes) = 0
  BY DEF Init, Flushes
<1>2. flushes \in Seq(FlushRows)
  BY <1>1
<1>3. Typed
  <2>1. /\ saved \in 0..MaxSaves /\ pending \in 0..saved /\ leaves \in 0..MaxLeaves
        /\ stored \in 0..saved /\ landed \subseteq 0..saved /\ failed \subseteq 0..saved
    BY AutosaveAssumption DEF Init
  <2>2. wire \subseteq [by : 0..Len(flushes), interview : 0..saved]
    BY DEF Init
  <2>3. cleared \in BOOLEAN /\ saveTimer \in BOOLEAN
    BY Zenon DEF Init
  <2> QED BY <1>1, <1>2, <2>1, <2>2, <2>3 DEF Typed
<1>4. Counted
  BY <1>1 DEF Counted
<1> QED BY <1>1, <1>3, <1>4 DEF Init, IInv, Waits, Carried, Written, Expected, NothingDropped, FlushLands

LEMMA SaveIInv == IInv /\ Save => IInv'
<1> SUFFICES ASSUME IInv, Save PROVE IInv'
  OBVIOUS
<1>1. /\ saved < MaxSaves /\ saved' = saved + 1 /\ pending' = saved' /\ saveTimer' = TRUE
      /\ UNCHANGED <<cleared, inFlight, flushes, leaves, wire, stored, landed, failed>>
  BY DEF Save, Armed
<1>2. Flushes' = Flushes /\ Writing' = Writing
  BY <1>1 DEF Flushes, Writing
<1> Typed
  BY DEF IInv
<1>3. Typed'
  BY <1>1, <1>2, AutosaveAssumption, FlushTyped DEF Typed
<1>4. Counted'
  BY <1>1, AutosaveAssumption, FlushTyped DEF IInv, Counted, Typed
<1>5. (Waits /\ Carried /\ Written)'
  BY <1>1, <1>2 DEF IInv, Waits, Carried, Written
<1>6. Expected'
  <2> SUFFICES ASSUME NEW f \in Flushes, flushes[f].asked # 0, ~cleared
               PROVE  /\ flushes[f].at = "waiting" => pending' >= flushes[f].asked \/ Served(flushes[f].asked)'
                      /\ flushes[f].at \in {"writing", "written"} =>
                           flushes[f].writes >= flushes[f].asked \/ Served(flushes[f].asked)'
    BY <1>1, <1>2 DEF Expected
  <2>1. Served(flushes[f].asked)' <=> Served(flushes[f].asked)
    BY <1>1 DEF Served
  <2> QED BY <1>1, <2>1, FlushTyped DEF IInv, Expected, Typed
<1>7. (NothingDropped /\ FlushLands)'
  BY <1>1, <1>2 DEF IInv, NothingDropped, FlushLands
<1> QED BY <1>3, <1>4, <1>5, <1>6, <1>7 DEF IInv

LEMMA ClearIInv == IInv /\ Clear => IInv'
<1> SUFFICES ASSUME IInv, Clear PROVE IInv'
  OBVIOUS
<1>1. /\ cleared' = TRUE /\ pending' = 0 /\ saveTimer' = FALSE
      /\ wire' = wire \union {[by |-> 0, interview |-> 0]}
      /\ UNCHANGED <<saved, inFlight, flushes, leaves, stored, landed, failed>>
  BY DEF Clear
<1> Typed
  BY DEF IInv
<1>2. Flushes' = Flushes /\ Writing' = Writing
  BY <1>1 DEF Flushes, Writing
<1>3. Typed'
  <2>1. wire' \subseteq [by : 0..Len(flushes), interview : 0..saved] /\ 0 \in 0..saved
    BY <1>1, FlushTyped DEF Typed
  <2>2. cleared' \in BOOLEAN /\ saveTimer' \in BOOLEAN
    BY <1>1, Zenon
  <2> QED BY <1>1, <1>2, <2>1, <2>2 DEF Typed
<1>4. Counted'
  BY <1>1, FlushTyped DEF IInv, Counted, Typed
<1>5. Carried'
  <2>1. 0 \notin Flushes
    BY FlushTyped
  <2> QED BY <1>1, <1>2, <2>1 DEF IInv, Carried
<1> QED BY <1>1, <1>2, <1>3, <1>4, <1>5 DEF IInv, Waits, Written, Expected, NothingDropped, FlushLands

LEMMA StutterIInv == IInv /\ UNCHANGED vars => IInv'
<1> SUFFICES ASSUME IInv, UNCHANGED vars PROVE IInv'
  OBVIOUS
<1>1. /\ UNCHANGED <<saved, cleared, pending, saveTimer, inFlight, flushes, leaves, wire, stored, landed, failed>>
      /\ Flushes' = Flushes /\ Writing' = Writing
  BY DEF vars, client, Flushes, Writing
<1>2. \A n : Served(n)' <=> Served(n)
  BY <1>1 DEF Served
<1> QED BY <1>1, <1>2 DEF IInv, Typed, Counted, Waits, Carried, Written, Expected, NothingDropped, FlushLands

LEMMA Appended ==
  ASSUME Typed, NEW r \in FlushRows, flushes' = Append(flushes, r)
  PROVE  /\ flushes' \in Seq(FlushRows) /\ Len(flushes') = Len(flushes) + 1
         /\ Len(flushes) + 1 \notin Flushes /\ Flushes' = Flushes \union {Len(flushes) + 1}
         /\ \A f \in Flushes : flushes'[f] = flushes[f]
         /\ flushes'[Len(flushes) + 1] = r
<1>1. flushes \in Seq(FlushRows) /\ Len(flushes) \in Nat /\ Flushes = 1..Len(flushes)
  BY FlushTyped DEF Typed
<1>2. flushes' \in Seq(FlushRows) /\ Len(flushes') = Len(flushes) + 1
  BY <1>1, AppendProperties
<1>3. Flushes' = 1..Len(flushes')
  BY <1>2, LenProperties DEF Flushes
<1>4. 1..(Len(flushes) + 1) = (1..Len(flushes)) \union {Len(flushes) + 1}
  BY <1>1
<1>5. (\A f \in 1..Len(flushes) : flushes'[f] = flushes[f]) /\ flushes'[Len(flushes) + 1] = r
  BY <1>1, AppendProperties
<1> QED BY <1>1, <1>2, <1>3, <1>4, <1>5

\* A flush that begins: it waits, writes, or has nothing to do.
LEMMA BeginIInv ==
  ASSUME IInv, BeginFlush,
         \/ saveTimer /\ leaves' = leaves
         \/ leaves < MaxLeaves /\ leaves' = leaves + 1
  PROVE  IInv'
<1>1. /\ saveTimer' = FALSE
      /\ UNCHANGED <<saved, cleared, pending, stored, landed, failed>>
  BY DEF BeginFlush
<1> Typed
  BY DEF IInv
<1>2. leaves' \in 0..MaxLeaves /\ saveTimer' \in BOOLEAN /\ leaves \in Nat /\ leaves' \in Nat
  <2>1. saveTimer' \in BOOLEAN
    BY <1>1, Zenon
  <2> QED BY <2>1, AutosaveAssumption DEF Typed
<1>3. Len(flushes) + 1 <= saved' + leaves' \/ (leaves' > leaves)
  BY <1>1, <1>2, FlushTyped DEF IInv, Counted
<1>4. Len(flushes) + 1 <= saved' + leaves'
  BY <1>1, <1>2, FlushTyped DEF IInv, Counted
<1>5. NothingDropped'
  BY <1>1 DEF IInv, NothingDropped
<1>6. \A n : Served(n)' <=> Served(n)
  BY <1>1 DEF Served
<1> DEFINE n == Len(flushes) + 1
<1>7. CASE inFlight = 0 /\ pending = 0
  <2>1. UNCHANGED <<flushes, inFlight, wire>> /\ Flushes' = Flushes /\ Writing' = Writing
    BY <1>7 DEF BeginFlush, Flushes, Writing
  <2>2. Typed'
    BY <1>1, <1>2, <2>1 DEF Typed
  <2>3. Counted'
    BY <1>1, <1>2, <1>4, <2>1, FlushTyped DEF Counted
  <2> QED BY <1>1, <1>5, <1>6, <2>1, <2>2, <2>3 DEF IInv, Waits, Carried, Written, Expected, FlushLands
<1>8. CASE inFlight # 0
  <2> DEFINE r == [at |-> "waiting", asked |-> pending, on |-> inFlight, writes |-> 0]
  <2>1. flushes' = Append(flushes, r) /\ UNCHANGED <<inFlight, wire>>
    BY <1>8 DEF BeginFlush, Flush
  <2>2. inFlight \in Writing /\ inFlight \in Flushes
    BY <1>8 DEF IInv, Waits, Writing
  <2>3. r \in FlushRows
    BY <2>2, FlushTyped DEF FlushRows, States
  <2>4. /\ flushes' \in Seq(FlushRows) /\ Len(flushes') = n
        /\ n \notin Flushes /\ Flushes' = Flushes \union {n}
        /\ \A f \in Flushes : flushes'[f] = flushes[f]
        /\ flushes'[n] = r
    BY <2>1, <2>3, Appended
  <2>5. /\ r.at = "waiting" /\ r.asked = pending /\ r.on = inFlight /\ r.writes = 0
    OBVIOUS
  <2> HIDE DEF r
  <2>6. Typed'
    <3>1. wire' \subseteq [by : 0..Len(flushes'), interview : 0..saved']
      <4>1. 0..Len(flushes) \subseteq 0..Len(flushes')
        BY <2>4, FlushTyped
      <4> QED BY <1>1, <2>1, <4>1 DEF Typed
    <3>2. \A f \in Flushes' : flushes'[f].asked <= saved /\ flushes'[f].writes <= saved /\ flushes'[f].on <= n
      <4>1. \A f \in Flushes : flushes[f].asked <= saved /\ flushes[f].writes <= saved /\ flushes[f].on <= n
        BY FlushTyped DEF Typed
      <4>2. pending <= saved /\ 0 <= saved /\ inFlight <= n
        BY <2>2, FlushTyped DEF Typed
      <4> QED BY <2>4, <2>5, <4>1, <4>2
    <3> QED BY <1>1, <1>2, <2>4, <3>1, <3>2 DEF Typed
  <2>7. Counted'
    BY <1>1, <1>2, <1>4, <2>4, FlushTyped DEF Counted
  <2>8. Writing' = Writing
    BY <2>4, <2>5 DEF Writing
  <2>9. Waits'
    BY <2>1, <2>2, <2>4, <2>5, <2>8 DEF IInv, Waits
  <2>10. Carried'
    <3>1. \A m \in wire : m.by # n
      BY FlushTyped DEF Typed
    <3> HIDE DEF n
    <3>2. \A g \in Flushes : \A m \in wire : m.by = g =>
            flushes[g].at # "waiting" /\ (flushes[g].at = "writing" => m.interview = flushes[g].writes)
      BY DEF IInv, Carried
    <3> SUFFICES ASSUME NEW g \in Flushes', NEW m \in wire', m.by = g
        PROVE flushes'[g].at # "waiting" /\ (flushes'[g].at = "writing" => m.interview = flushes'[g].writes)
      BY DEF Carried
    <3>3. g \in Flushes /\ flushes'[g] = flushes[g]
      BY <2>1, <2>4, <3>1
    <3> QED BY <2>1, <3>2, <3>3
  <2>11. Written'
    BY <1>1, <2>4, <2>5 DEF IInv, Written
  <2>12. Expected'
    <3>1. pending >= pending
      BY FlushTyped
    <3> QED BY <1>1, <1>6, <2>4, <2>5, <3>1 DEF IInv, Expected
  <2>13. FlushLands'
    BY <1>1, <2>4, <2>5 DEF IInv, FlushLands
  <2> QED BY <1>5, <2>6, <2>7, <2>9, <2>10, <2>11, <2>12, <2>13 DEF IInv
<1>9. CASE inFlight = 0 /\ pending # 0
  <2> DEFINE r == [at |-> "writing", asked |-> pending, on |-> 0, writes |-> pending]
  <2>1. /\ flushes' = Append(flushes, r) /\ inFlight' = n
        /\ wire' = wire \union {[by |-> n, interview |-> pending]}
    BY <1>9 DEF BeginFlush, Flush
  <2>3. r \in FlushRows
    BY FlushTyped DEF FlushRows, States
  <2>4. /\ flushes' \in Seq(FlushRows) /\ Len(flushes') = n
        /\ n \notin Flushes /\ Flushes' = Flushes \union {n}
        /\ \A f \in Flushes : flushes'[f] = flushes[f]
        /\ flushes'[n] = r
    BY <2>1, <2>3, Appended
  <2>5. /\ r.at = "writing" /\ r.asked = pending /\ r.on = 0 /\ r.writes = pending
    OBVIOUS
  <2> HIDE DEF r
  <2>6. Typed'
    <3>1. wire' \subseteq [by : 0..Len(flushes'), interview : 0..saved']
      <4>1. 0..Len(flushes) \subseteq 0..Len(flushes') /\ n \in 0..Len(flushes') /\ pending \in 0..saved
        BY <2>4, FlushTyped DEF Typed
      <4> QED BY <1>1, <2>1, <4>1 DEF Typed
    <3>2. \A f \in Flushes' : flushes'[f].asked <= saved /\ flushes'[f].writes <= saved /\ flushes'[f].on <= n
      <4>1. \A f \in Flushes : flushes[f].asked <= saved /\ flushes[f].writes <= saved /\ flushes[f].on <= n
        BY FlushTyped DEF Typed
      <4>2. pending <= saved /\ 0 <= n
        BY FlushTyped DEF Typed
      <4> QED BY <2>4, <2>5, <4>1, <4>2
    <3> QED BY <1>1, <1>2, <2>4, <3>1, <3>2 DEF Typed
  <2>7. Counted'
    BY <1>1, <1>2, <1>4, <2>4, FlushTyped DEF Counted
  <2>8. Writing' = Writing \union {n}
    BY <2>4, <2>5 DEF Writing
  <2>9. Waits'
    BY <2>1, <2>4, <2>5, <2>8 DEF IInv, Waits
  <2>10. Carried'
    <3>1. \A m \in wire : m.by # n
      BY FlushTyped DEF Typed
    <3> DEFINE q == [by |-> n, interview |-> pending]
    <3>2. q.by = n /\ q.interview = pending /\ wire' = wire \union {q}
      BY <2>1
    <3> HIDE DEF q
    <3> QED BY <2>4, <2>5, <3>1, <3>2 DEF IInv, Carried
  <2>11. Written'
    BY <1>1, <2>4, <2>5 DEF IInv, Written
  <2>12. Expected'
    <3>1. pending >= pending
      BY FlushTyped
    <3> QED BY <1>1, <1>6, <2>4, <2>5, <3>1 DEF IInv, Expected
  <2>13. FlushLands'
    BY <1>1, <2>4, <2>5 DEF IInv, FlushLands
  <2> QED BY <1>5, <2>6, <2>7, <2>9, <2>10, <2>11, <2>12, <2>13 DEF IInv
<1> QED BY <1>7, <1>8, <1>9

\* A request is carried out: what its flush writes is stored.
LEMMA StoreIInv ==
  ASSUME IInv, NEW m \in wire, Store(m)
  PROVE  IInv'
<1>1. /\ wire' = wire \ {m} /\ stored' = m.interview /\ landed' = landed \union {m.interview}
      /\ UNCHANGED <<saved, cleared, pending, saveTimer, inFlight, leaves, failed>>
  BY DEF Store
<1> Typed
  BY DEF IInv
<1> DEFINE F == [f \in Flushes |->
         IF f = m.by /\ flushes[f].at = "writing" THEN [flushes[f] EXCEPT !.at = "written"] ELSE flushes[f]]
<1>2. flushes' = F
  BY DEF Store
<1>3. \A f \in Flushes :
        /\ flushes'[f] \in FlushRows
        /\ flushes'[f].asked = flushes[f].asked /\ flushes'[f].on = flushes[f].on
        /\ flushes'[f].writes = flushes[f].writes
        /\ flushes'[f].at = IF f = m.by /\ flushes[f].at = "writing" THEN "written" ELSE flushes[f].at
  <2> SUFFICES ASSUME NEW f \in Flushes
      PROVE /\ F[f] \in FlushRows
            /\ F[f].asked = flushes[f].asked /\ F[f].on = flushes[f].on /\ F[f].writes = flushes[f].writes
            /\ F[f].at = IF f = m.by /\ flushes[f].at = "writing" THEN "written" ELSE flushes[f].at
    BY <1>2
  <2>1. flushes[f] \in FlushRows
    BY FlushTyped
  <2>2. CASE f = m.by /\ flushes[f].at = "writing"
    BY <2>1, <2>2 DEF FlushRows, States
  <2>3. CASE ~ (f = m.by /\ flushes[f].at = "writing")
    <3>1. F[f] = flushes[f]
      BY <2>3
    <3> QED BY <2>1, <2>3, <3>1
  <2> QED BY <2>2, <2>3
<1>4. flushes' \in Seq(FlushRows) /\ Len(flushes') = Len(flushes) /\ Flushes' = Flushes
  <2>1. F \in [Flushes -> FlushRows]
    BY <1>2, <1>3
  <2> HIDE DEF F
  <2> QED BY <1>2, <2>1, MappedFlushes DEF Typed, Flushes
<1> HIDE DEF F
<1>5. m.interview \in 0..saved
  BY DEF Typed
<1>6. Typed'
  <2>1. \A f \in Flushes : flushes'[f].asked <= saved /\ flushes'[f].writes <= saved /\ flushes'[f].on <= Len(flushes)
    BY <1>3 DEF Typed
  <2>2. wire' \subseteq [by : 0..Len(flushes), interview : 0..saved]
    BY <1>1 DEF Typed
  <2> QED BY <1>1, <1>4, <1>5, <2>1, <2>2 DEF Typed
<1>7. Counted'
  BY <1>1, <1>4 DEF IInv, Counted
<1>8. Writing' = Writing
  BY <1>3, <1>4 DEF Writing
<1>9. Waits'
  BY <1>1, <1>3, <1>4, <1>8 DEF IInv, Waits
<1>10. Carried'
  BY <1>1, <1>3, <1>4 DEF IInv, Carried
<1>11. Written'
  BY <1>1, <1>3, <1>4 DEF IInv, Written, Carried
<1>12. \A k : Served(k) => Served(k)'
  BY <1>1 DEF Served
<1>13. Expected'
  BY <1>1, <1>3, <1>4, <1>12 DEF IInv, Expected
<1>14. NothingDropped'
  BY <1>1 DEF IInv, NothingDropped
<1>15. FlushLands'
  BY <1>1, <1>3, <1>4 DEF IInv, FlushLands
<1> QED BY <1>6, <1>7, <1>9, <1>10, <1>11, <1>13, <1>14, <1>15 DEF IInv

\* The write of f settled.  What is pending goes only if it is stored; the flushes
\* that waited for f write the rest, or return when there is none.
LEMMA SettleIInv ==
  ASSUME IInv, NEW f \in Writing, NEW rest, NEW requests, Settle(f, rest, requests),
         requests \subseteq wire, failed \subseteq failed', failed' \subseteq 0..saved,
         rest = pending \/ (rest = 0 /\ pending \in landed),
         flushes[f].writes \in landed \union failed'
  PROVE  IInv'
<1> Typed
  BY DEF IInv
<1> DEFINE W == NowWrite(f, rest)
           R == Waiters(f)
           F == [g \in Flushes |->
                  IF g \in W THEN [flushes[g] EXCEPT !.at = "writing", !.on = 0, !.writes = rest]
                  ELSE IF g = f \/ g \in R THEN [flushes[g] EXCEPT !.at = "returned", !.on = 0, !.writes = 0]
                  ELSE flushes[g]]
<1>1. /\ pending' = rest /\ inFlight' = NextInFlight(f, W) /\ flushes' = F
      /\ wire' = requests \union {[by |-> g, interview |-> rest] : g \in W}
      /\ UNCHANGED <<saved, cleared, saveTimer, leaves, stored, landed>>
  BY DEF Settle
<1>2. W = IF rest = 0 THEN {} ELSE R
  BY DEF NowWrite
<1>3. /\ R = {g \in Flushes : flushes[g].at = "waiting" /\ flushes[g].on = f}
      /\ f \in Flushes /\ flushes[f].at \in {"writing", "written"} /\ f \notin R
  BY DEF Waiters, Writing
<1>4. rest \in Nat /\ rest \in 0..saved
  BY FlushTyped DEF Typed
<1> HIDE DEF W, R
<1>5. \A g \in Flushes :
        /\ flushes'[g] \in FlushRows /\ flushes'[g].asked = flushes[g].asked
        /\ g \in W => flushes'[g].at = "writing" /\ flushes'[g].on = 0 /\ flushes'[g].writes = rest
        /\ g \notin W /\ (g = f \/ g \in R) =>
             flushes'[g].at = "returned" /\ flushes'[g].on = 0 /\ flushes'[g].writes = 0
        /\ g \notin W /\ g # f /\ g \notin R => flushes'[g] = flushes[g]
  <2> SUFFICES ASSUME NEW g \in Flushes
      PROVE /\ F[g] \in FlushRows /\ F[g].asked = flushes[g].asked
            /\ g \in W => F[g].at = "writing" /\ F[g].on = 0 /\ F[g].writes = rest
            /\ g \notin W /\ (g = f \/ g \in R) => F[g].at = "returned" /\ F[g].on = 0 /\ F[g].writes = 0
            /\ g \notin W /\ g # f /\ g \notin R => F[g] = flushes[g]
    BY <1>1
  <2>1. flushes[g] \in FlushRows
    BY FlushTyped
  <2>2. CASE g \in W
    BY <1>4, <2>1, <2>2 DEF FlushRows, States
  <2>3. CASE g \notin W /\ (g = f \/ g \in R)
    BY <2>1, <2>3 DEF FlushRows, States
  <2>4. CASE g \notin W /\ g # f /\ g \notin R
    <3>1. F[g] = flushes[g]
      BY <2>4
    <3> QED BY <2>1, <2>4, <3>1
  <2> QED BY <2>2, <2>3, <2>4
<1>6. flushes' \in Seq(FlushRows) /\ Len(flushes') = Len(flushes) /\ Flushes' = Flushes
  <2>1. F \in [Flushes -> FlushRows]
    BY <1>1, <1>5
  <2> HIDE DEF F
  <2> QED BY <1>1, <2>1, MappedFlushes DEF Typed, Flushes
<1> HIDE DEF F
<1>7. W \subseteq R /\ R \subseteq Flushes
  BY <1>2, <1>3
<1>8. Typed'
  <2>1. \A g \in Flushes :
          flushes'[g].asked <= saved /\ flushes'[g].writes <= saved /\ flushes'[g].on <= Len(flushes)
    BY <1>4, <1>5, FlushTyped DEF Typed
  <2>2. wire' \subseteq [by : 0..Len(flushes), interview : 0..saved]
    <3>1. requests \subseteq [by : 0..Len(flushes), interview : 0..saved]
      BY DEF Typed
    <3>2. \A g \in W : g \in 0..Len(flushes)
      BY <1>7, FlushTyped
    <3> QED BY <1>1, <1>4, <3>1, <3>2
  <2> QED BY <1>1, <1>4, <1>6, <2>1, <2>2 DEF Typed
<1>9. Counted'
  BY <1>1, <1>6 DEF IInv, Counted
<1>10. Writing' = (Writing \ {f}) \union W
  BY <1>3, <1>5, <1>6, <1>7 DEF Writing
<1>11. Waits'
  <2>1. inFlight' \in {0} \union W
    <3>1. CASE W = {}
      BY <1>1, <3>1 DEF NextInFlight
    <3>2. CASE W # {}
      <4>1. W \subseteq 1..Len(flushes)
        BY <1>7, FlushTyped
      <4>2. Max(W) \in W
        BY <3>2, <4>1, FlushTyped, HasMax
      <4> QED BY <1>1, <3>2, <4>2 DEF NextInFlight
    <3> QED BY <3>1, <3>2
  <2>2. \A g \in Flushes : flushes'[g].at = "waiting" => flushes'[g].on \in Writing'
    <3> SUFFICES ASSUME NEW g \in Flushes, flushes'[g].at = "waiting" PROVE flushes'[g].on \in Writing'
      OBVIOUS
    <3>1. g \notin W /\ g # f /\ g \notin R /\ flushes'[g] = flushes[g]
      BY <1>5
    <3>2. flushes[g].on # f /\ flushes[g].on \in Writing
      BY <1>3, <3>1 DEF IInv, Waits
    <3> QED BY <1>10, <3>1, <3>2
  <2> QED BY <1>6, <1>10, <2>1, <2>2 DEF Waits
<1>12. Carried'
  <2> SUFFICES ASSUME NEW g \in Flushes, NEW m \in wire', m.by = g
      PROVE flushes'[g].at # "waiting" /\ (flushes'[g].at = "writing" => m.interview = flushes'[g].writes)
    BY <1>6 DEF Carried
  <2>1. CASE m \in requests
    <3>1. flushes[g].at # "waiting" /\ (flushes[g].at = "writing" => m.interview = flushes[g].writes)
      BY <2>1 DEF IInv, Carried
    <3>2. g \notin R /\ g \notin W
      BY <1>3, <1>7, <3>1
    <3> QED BY <1>5, <3>1, <3>2
  <2>2. CASE m \notin requests
    <3>1. PICK h \in W : m = [by |-> h, interview |-> rest]
      BY <1>1, <2>2
    <3>2. g \in W /\ m.interview = rest
      BY <3>1
    <3> QED BY <1>5, <3>2
  <2> QED BY <2>1, <2>2
<1>13. Written'
  BY <1>1, <1>5, <1>6 DEF IInv, Written
<1>14. \A k : Served(k) => Served(k)'
  BY <1>1 DEF Served
<1>15. \A k \in Nat : pending >= k /\ k # 0 => rest >= k \/ Served(k)
  BY DEF Served
<1>16. Expected'
  <2> SUFFICES ASSUME NEW g \in Flushes, flushes'[g].asked # 0, ~cleared'
      PROVE /\ flushes'[g].at = "waiting" => pending' >= flushes'[g].asked \/ Served(flushes[g].asked)'
            /\ flushes'[g].at \in {"writing", "written"} =>
                 flushes'[g].writes >= flushes'[g].asked \/ Served(flushes[g].asked)'
    BY <1>6 DEF Expected
  <2>0. PICK a \in Nat : a = flushes[g].asked
    BY FlushTyped
  <2>1. flushes[g].asked = a /\ flushes'[g].asked = a /\ a # 0 /\ ~cleared
    BY <1>1, <1>5, <2>0
  <2>2. /\ flushes[g].at = "waiting" => pending >= a \/ Served(a)
        /\ flushes[g].at \in {"writing", "written"} => flushes[g].writes >= a \/ Served(a)
    BY <2>1 DEF IInv, Expected
  <2>3. CASE g \in W
    <3>1. flushes[g].at = "waiting" /\ flushes'[g].at = "writing" /\ flushes'[g].writes = rest
      BY <1>3, <1>5, <1>7, <2>3
    <3> QED BY <1>14, <1>15, <2>1, <2>2, <3>1
  <2>4. CASE g \notin W /\ (g = f \/ g \in R)
    BY <1>5, <2>4
  <2>5. CASE g \notin W /\ g # f /\ g \notin R
    <3>1. flushes'[g] = flushes[g]
      BY <1>5, <2>5
    <3> QED BY <1>1, <1>14, <1>15, <2>1, <2>2, <3>1
  <2> QED BY <2>3, <2>4, <2>5
<1>17. NothingDropped'
  <2>1. saved > 0 /\ ~cleared => pending = saved \/ saved \in landed
    BY DEF IInv, NothingDropped
  <2> QED BY <1>1, <2>1 DEF NothingDropped
<1>18. FlushLands'
  <2> SUFFICES ASSUME NEW g \in Flushes, flushes'[g].at = "returned", flushes'[g].asked # 0, ~cleared'
      PROVE Served(flushes[g].asked)'
    BY <1>6 DEF FlushLands, Served
  <2>0. PICK a \in Nat : a = flushes[g].asked
    BY FlushTyped
  <2>1. flushes[g].asked = a /\ flushes'[g].asked = a /\ a # 0 /\ ~cleared
    BY <1>1, <1>5, <2>0
  <2>2. /\ flushes[g].at = "waiting" => pending >= a \/ Served(a)
        /\ flushes[g].at \in {"writing", "written"} => flushes[g].writes >= a \/ Served(a)
        /\ flushes[g].at = "returned" => Served(a)
    BY <2>1 DEF IInv, Expected, FlushLands, Served
  <2>3. CASE g = f
    <3>1. flushes[f].writes >= a => Served(a)'
      BY <1>1 DEF Served
    <3> QED BY <1>3, <1>14, <2>1, <2>2, <2>3, <3>1
  <2>4. CASE g \in R
    <3>1. g \notin W /\ rest = 0 /\ flushes[g].at = "waiting"
      BY <1>2, <1>3, <1>5, <2>4
    <3> QED BY <1>14, <1>15, <2>1, <2>2, <3>1
  <2>5. CASE g # f /\ g \notin R
    <3>1. flushes'[g] = flushes[g]
      BY <1>5, <1>7, <2>5
    <3> QED BY <1>14, <2>1, <2>2, <3>1
  <2> QED BY <2>3, <2>4, <2>5
<1> QED BY <1>8, <1>9, <1>11, <1>12, <1>13, <1>16, <1>17, <1>18 DEF IInv

LEMMA NextIInv == IInv /\ [Next]_vars => IInv'
<1> SUFFICES ASSUME IInv, [Next]_vars PROVE IInv'
  OBVIOUS
<1> Typed
  BY DEF IInv
<1>1. CASE Save
  BY <1>1, SaveIInv
<1>2. CASE TimerFires
  BY <1>2, BeginIInv DEF TimerFires
<1>3. CASE Leave
  BY <1>3, BeginIInv DEF Leave
<1>4. CASE Clear
  BY <1>4, ClearIInv
<1>5. CASE \E m \in wire : Store(m)
  BY <1>5, StoreIInv
<1>6. ASSUME NEW f, Succeed(f) PROVE IInv'
  <2>1. /\ f \in Flushes /\ flushes[f].at = "written" /\ f \in Writing
        /\ Settle(f, Unconfirmed(f), wire) /\ failed' = failed
    BY <1>6 DEF Succeed, Writing
  <2>2. flushes[f].writes \in landed
    BY <2>1 DEF IInv, Written
  <2>3. Unconfirmed(f) = pending \/ (Unconfirmed(f) = 0 /\ pending \in landed)
    BY <2>2 DEF Unconfirmed
  <2> QED BY <2>1, <2>2, <2>3, SettleIInv DEF Typed
<1>7. ASSUME NEW f, FailWrite(f) PROVE IInv'
  <2>1. f \in Writing /\ f \in Flushes /\ failed' = failed \union {flushes[f].writes}
    BY <1>7 DEF FailWrite, Writing
  <2>2. PICK requests \in {wire, {m \in wire : m.by # f}} : Settle(f, pending, requests)
    BY <1>7 DEF FailWrite
  <2>3. requests \subseteq wire
    BY <2>2
  <2>4. failed' \subseteq 0..saved
    BY <2>1, FlushTyped DEF Typed
  <2> QED BY <2>1, <2>2, <2>3, <2>4, SettleIInv
<1>8. CASE UNCHANGED vars
  BY <1>8, StutterIInv
<1> QED BY <1>1, <1>2, <1>3, <1>4, <1>5, <1>6, <1>7, <1>8 DEF Next

LEMMA IInvAlways == Spec => []IInv
<1> QED BY InitIInv, NextIInv, PTL DEF Spec

-----------------------------------------------------------------------------
(* The theorems.                                                           *)

(* inFlight is null or a write that has not settled, every flush that      *)
(* waits does so for such a write, and there are no more flushes than      *)
(* saves and leaves.                                                       *)
THEOREM TypeCorrect == Spec => []TypeOK
<1>1. IInv => TypeOK
  <2> SUFFICES ASSUME IInv PROVE TypeOK
    OBVIOUS
  <2> Typed
    BY DEF IInv
  <2>1. Len(flushes) <= MaxFlushes
    BY AutosaveAssumption, FlushTyped DEF IInv, Counted, Typed, MaxFlushes
  <2>2. ASSUME NEW f \in Flushes
        PROVE  /\ flushes[f] \in [at : {"waiting", "writing", "written", "returned"},
                                  asked : 0..saved, on : 0..Len(flushes), writes : 0..saved]
               /\ flushes[f].at = "waiting" => flushes[f].on \in Writing
    <3>1. /\ flushes[f] \in FlushRows /\ flushes[f].asked \in 0..saved
          /\ flushes[f].on \in 0..Len(flushes) /\ flushes[f].writes \in 0..saved
      BY FlushTyped DEF Typed
    <3> QED BY <3>1 DEF IInv, Waits, FlushRows, States
  <2>3. cleared \in BOOLEAN /\ saveTimer \in BOOLEAN
    BY Zenon DEF Typed
  <2> QED BY <2>1, <2>2, <2>3 DEF IInv, Typed, Waits, TypeOK
<1> QED BY <1>1, IInvAlways, PTL

(* No answer is dropped: until the interview is completed, its newest      *)
(* version is pending or was stored, whichever writes overlap, fail, or    *)
(* lose their answers.                                                     *)
THEOREM NothingEverDropped == Spec => []NothingDropped
<1>1. IInv => NothingDropped
  BY DEF IInv
<1> QED BY <1>1, IInvAlways, PTL

(* A flush that returned was carried out, or failed visibly, also if it    *)
(* waited for the write of another.                                        *)
THEOREM FlushesLand == Spec => []FlushLands
<1>1. IInv => FlushLands
  BY DEF IInv
<1> QED BY <1>1, IInvAlways, PTL
=============================================================================
