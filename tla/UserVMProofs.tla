---------------------------- MODULE UserVMProofs ----------------------------
(***************************************************************************)
(* Proofs about address spaces for any number of frames and any addresses. *)
(*                                                                         *)
(* OwnedOnce speaks of the frames that can be reached in three steps; it   *)
(* is not inductive as it stands, because the steps of walk_pgdir() are on *)
(* single tables.  The invariant gives each frame a level (1: PDPT, 2: PD, *)
(* 3: PT, 4: page; 0: free; 5: the PML4), the one place that refers to it, *)
(* and its half of the address space.  The levels, places and halves are   *)
(* determined by the tables; the invariant says that they exist.           *)
(***************************************************************************)
EXTENDS UserVM, WellFoundedInduction, TLAPS

-----------------------------------------------------------------------------
(* The inductive invariant.                                                *)

Shared == L4 \ {UserSlot}

Typed(free, tab, pgdir, up) ==
  /\ free \subseteq Frames /\ tab \in [Frames -> [Index -> Entry]]
  /\ pgdir \in [L4 -> Frames \cup {0}] /\ up \in [Pids -> Frames \cup {0}]

Ghosts(lv, par, kern) ==
  lv \in [Frames -> 0 .. 5] /\ par \in [Frames -> Int \X Int] /\ kern \subseteq Frames

Levelled(free, lv, kern) ==
  \A f \in Frames :
    (lv[f] = 0 <=> f \in free) /\ (lv[f] = 5 <=> f = 1) /\ (f \in kern => lv[f] \in 1 .. 3)

SlotsOK(pgdir, lv, par, kern) ==
  \A i \in Shared : pgdir[i] # 0 =>
    lv[pgdir[i]] = 1 /\ par[pgdir[i]] = <<0, i>> /\ (pgdir[i] \in kern <=> i < UserSlot)

ProcsOK(up, lv, par, kern) ==
  \A p \in Pids : up[p] # 0 =>
    lv[up[p]] = 1 /\ par[up[p]] = <<-1, p>> /\ up[p] \notin kern

TablesOK(tab, lv, par, kern) ==
  \A t \in Frames, i \in Index : lv[t] \in 1 .. 3 /\ tab[t][i] \in Frames =>
    /\ lv[tab[t][i]] = lv[t] + 1 /\ par[tab[t][i]] = <<t, i>>
    /\ tab[t][i] \in kern <=> t \in kern

\* The identity mapping is the kernel's; the kernel's page tables hold nothing else.
HalvesOK(tab, lv, kern) ==
  \A t \in Frames, i \in Index :
    /\ lv[t] = 1 => tab[t][i] # Direct
    /\ lv[t] \in 1 .. 3 /\ t \notin kern => tab[t][i] # Direct
    /\ lv[t] = 3 /\ t \in kern => tab[t][i] \notin Frames

OwnedOK(tab, pgdir, up, lv) ==
  \A f \in Frames : lv[f] \in 1 .. 4 =>
    \/ \E i \in Shared : pgdir[i] = f
    \/ \E p \in Pids : up[p] = f
    \/ \E t \in Frames, i \in Index : lv[t] \in 1 .. 3 /\ tab[t][i] = f

Sound(free, tab, pgdir, up, lv, par, kern) ==
  /\ Typed(free, tab, pgdir, up) /\ Ghosts(lv, par, kern)
  /\ Levelled(free, lv, kern) /\ SlotsOK(pgdir, lv, par, kern) /\ ProcsOK(up, lv, par, kern)
  /\ TablesOK(tab, lv, par, kern) /\ HalvesOK(tab, lv, kern) /\ OwnedOK(tab, pgdir, up, lv)

Consistent(free, tab, pgdir, up) ==
  \E lv, par, kern : Sound(free, tab, pgdir, up, lv, par, kern)

-----------------------------------------------------------------------------
(* Changes of the tables.                                                  *)

\* A set of naturals has a least element.
LEMMA LeastNatural ==
  ASSUME NEW S \in SUBSET Nat, S # {}
  PROVE  \E m \in S : \A n \in S : m <= n
<1>1. IsWellFoundedOn(OpToRel(<, Nat), Nat)
  BY NatLessThanWellFounded
<1> DEFINE R == OpToRel(<, Nat)
<1>2. \A x, y \in Nat : <<y, x>> \in R <=> y < x
  BY DEF OpToRel
<1> HIDE DEF R
<1>3. PICK m \in S : \A y \in S : ~ (<<y, m>> \in R)
  BY <1>1, WFMin DEF R
<1>4. ASSUME NEW n \in S PROVE m <= n
  <2>1. ~ (n < m)
    BY <1>2, <1>3, Zenon
  <2> QED BY <2>1
<1> QED BY <1>4

LEMMA FrameFacts == Frames \subseteq Nat \ {0} /\ 1 \in Frames /\ 2 \in Frames /\ 3 \in Frames
                    /\ 0 \notin Frames /\ Direct \notin Frames /\ Direct # 0
BY VMAssumption DEF Frames, Direct

LEMMA LeastIsFree ==
  ASSUME NEW S \in SUBSET Frames, S # {}
  PROVE  Least(S) \in S
<1>1. S \in SUBSET Nat
  BY FrameFacts
<1>2. \E m \in S : \A n \in S : m <= n
  BY <1>1, LeastNatural
<1> QED BY <1>2 DEF Least

\* A free frame is not referred to.
LEMMA FreeUnreferenced ==
  ASSUME NEW free, NEW tab, NEW pgdir, NEW up, NEW lv, NEW par, NEW kern,
         Sound(free, tab, pgdir, up, lv, par, kern), NEW f \in free
  PROVE  /\ f \in Frames /\ lv[f] = 0 /\ f # 1 /\ f \notin kern
         /\ \A i \in Shared : pgdir[i] # f
         /\ \A p \in Pids : up[p] # f
         /\ \A t \in Frames, i \in Index : lv[t] \in 1 .. 3 => tab[t][i] # f
<1>1. f \in Frames /\ lv[f] = 0 /\ f # 1 /\ f \notin kern
  BY DEF Sound, Typed, Levelled
<1>2. f # 0
  BY <1>1, FrameFacts
<1>3. \A i \in Shared : pgdir[i] # f
  BY <1>1, <1>2 DEF Sound, SlotsOK
<1>4. \A p \in Pids : up[p] # f
  BY <1>1, <1>2 DEF Sound, ProcsOK
<1>5. ASSUME NEW t \in Frames, NEW i \in Index, lv[t] \in 1 .. 3 PROVE tab[t][i] # f
  <2>1. tab[t][i] \in Frames => lv[tab[t][i]] = lv[t] + 1
    BY <1>5 DEF Sound, TablesOK
  <2> QED BY <2>1, <1>1, <1>5
<1> QED BY <1>1, <1>3, <1>4, <1>5

\* A free frame, cleared, becomes the entry of a table.
LEMMA LinkTable ==
  ASSUME NEW free, NEW tab, NEW pgdir, NEW up, NEW lv, NEW par, NEW kern,
         Sound(free, tab, pgdir, up, lv, par, kern), NEW f \in free,
         NEW t \in Frames, lv[t] \in 1 .. 3, NEW i \in Index, tab[t][i] = 0,
         ~(t \in kern /\ lv[t] = 3)
  PROVE  Sound(free \ {f}, [[tab EXCEPT ![f] = Zeroed] EXCEPT ![t][i] = f], pgdir, up,
               [lv EXCEPT ![f] = lv[t] + 1], [par EXCEPT ![f] = <<t, i>>],
               IF t \in kern THEN kern \cup {f} ELSE kern)
<1> DEFINE tab2 == [[tab EXCEPT ![f] = Zeroed] EXCEPT ![t][i] = f]
           lv2 == [lv EXCEPT ![f] = lv[t] + 1]
           par2 == [par EXCEPT ![f] = <<t, i>>]
           kern2 == IF t \in kern THEN kern \cup {f} ELSE kern
<1>1. /\ f \in Frames /\ lv[f] = 0 /\ f # 1 /\ f # t /\ f # 0 /\ f # Direct
      /\ \A k \in Shared : pgdir[k] # f
      /\ \A p \in Pids : up[p] # f
      /\ \A s \in Frames, k \in Index : lv[s] \in 1 .. 3 => tab[s][k] # f
  BY FreeUnreferenced, FrameFacts
<1>2. /\ free \subseteq Frames /\ tab \in [Frames -> [Index -> Entry]]
      /\ pgdir \in [L4 -> Frames \cup {0}] /\ up \in [Pids -> Frames \cup {0}]
      /\ lv \in [Frames -> 0 .. 5] /\ par \in [Frames -> Int \X Int] /\ kern \subseteq Frames
  BY DEF Sound, Typed, Ghosts
<1>3. Zeroed \in [Index -> Entry] /\ \A k \in Index : Zeroed[k] = 0
  BY DEF Zeroed, Entry
<1>4. lv[t] + 1 \in 2 .. 4
  BY <1>2
<1>5. \A s \in Frames : /\ s # f => lv2[s] = lv[s] /\ par2[s] = par[s] /\ (s \in kern2 <=> s \in kern)
                        /\ lv2[f] = lv[t] + 1 /\ par2[f] = <<t, i>>
  BY <1>1, <1>2
<1>6. f \in kern2 <=> t \in kern
  <2>1. f \notin kern
    BY <1>1 DEF Sound, Levelled
  <2> QED BY <2>1
<1>7. /\ tab2 \in [Frames -> [Index -> Entry]]
      /\ \A k \in Index : tab2[f][k] = 0
      /\ tab2[t][i] = f
      /\ \A s \in Frames, k \in Index : s # f /\ ~(s = t /\ k = i) => tab2[s][k] = tab[s][k]
  <2>1. f \in Entry
    BY <1>1 DEF Entry
  <2>2. PICK tab1 : tab1 = [tab EXCEPT ![f] = Zeroed]
    OBVIOUS
  <2>3. /\ tab1 \in [Frames -> [Index -> Entry]] /\ tab1[f] = Zeroed
        /\ \A s \in Frames : s # f => tab1[s] = tab[s]
    BY <2>2, <1>1, <1>2, <1>3
  <2>4. tab2 = [tab1 EXCEPT ![t][i] = f]
    BY <2>2
  <2>5. /\ tab2 \in [Frames -> [Index -> Entry]] /\ tab2[t][i] = f
        /\ \A s \in Frames, k \in Index : ~(s = t /\ k = i) => tab2[s][k] = tab1[s][k]
    <3>1. PICK row : row = [tab1[t] EXCEPT ![i] = f]
      OBVIOUS
    <3>2. row \in [Index -> Entry] /\ row[i] = f /\ \A k \in Index : k # i => row[k] = tab1[t][k]
      BY <3>1, <2>1, <2>3
    <3>3. tab2 = [tab1 EXCEPT ![t] = row]
      BY <3>1, <2>4
    <3> HIDE DEF tab2
    <3>4. tab2 \in [Frames -> [Index -> Entry]] /\ tab2[t] = row
          /\ \A s \in Frames : s # t => tab2[s] = tab1[s]
      BY <3>2, <3>3, <2>3
    <3> QED BY <3>2, <3>4
  <2> HIDE DEF tab2
  <2> QED BY <2>3, <2>5, <1>1, <1>3
<1> HIDE DEF tab2, lv2, par2, kern2
<1>8. Typed(free \ {f}, tab2, pgdir, up)
  BY <1>2, <1>7 DEF Typed
<1>9. Ghosts(lv2, par2, kern2)
  <2>1. lv2 \in [Frames -> 0 .. 5]
    BY <1>1, <1>2, <1>4 DEF lv2
  <2>2. par2 \in [Frames -> Int \X Int]
    <3>1. <<t, i>> \in Int \X Int
      BY FrameFacts DEF Index
    <3> QED BY <3>1, <1>1, <1>2 DEF par2
  <2>3. kern2 \subseteq Frames
    BY <1>1, <1>2 DEF kern2
  <2> QED BY <2>1, <2>2, <2>3 DEF Ghosts
<1>10. Levelled(free \ {f}, lv2, kern2)
  <2>1. ASSUME NEW s \in Frames, s # f
        PROVE  (lv2[s] = 0 <=> s \in free \ {f}) /\ (lv2[s] = 5 <=> s = 1)
               /\ (s \in kern2 => lv2[s] \in 1 .. 3)
    BY <2>1, <1>5 DEF Sound, Levelled
  <2>2. lv2[f] \in 2 .. 4 /\ (f \in kern2 => lv2[f] \in 1 .. 3)
    BY <1>1, <1>2, <1>4, <1>5, <1>6
  <2>3. lv2[f] # 0 /\ lv2[f] # 5
    BY <2>2
  <2> QED BY <2>1, <2>2, <2>3, <1>1 DEF Levelled
<1>11. SlotsOK(pgdir, lv2, par2, kern2)
  <2> SUFFICES ASSUME NEW k \in Shared, pgdir[k] # 0
               PROVE  lv2[pgdir[k]] = 1 /\ par2[pgdir[k]] = <<0, k>>
                      /\ (pgdir[k] \in kern2 <=> k < UserSlot)
    BY DEF SlotsOK
  <2>1. pgdir[k] \in Frames /\ pgdir[k] # f
    BY <1>1, <1>2 DEF Shared
  <2> QED BY <2>1, <1>5 DEF Sound, SlotsOK
<1>12. ProcsOK(up, lv2, par2, kern2)
  <2> SUFFICES ASSUME NEW p \in Pids, up[p] # 0
               PROVE  lv2[up[p]] = 1 /\ par2[up[p]] = <<-1, p>> /\ up[p] \notin kern2
    BY DEF ProcsOK
  <2>1. up[p] \in Frames /\ up[p] # f
    BY <1>1, <1>2
  <2> QED BY <2>1, <1>5 DEF Sound, ProcsOK
<1>13. TablesOK(tab2, lv2, par2, kern2)
  <2> SUFFICES ASSUME NEW s \in Frames, NEW k \in Index, lv2[s] \in 1 .. 3, tab2[s][k] \in Frames
               PROVE  /\ lv2[tab2[s][k]] = lv2[s] + 1 /\ par2[tab2[s][k]] = <<s, k>>
                      /\ tab2[s][k] \in kern2 <=> s \in kern2
    BY DEF TablesOK
  <2>1. s # f
    BY <1>7, FrameFacts
  <2>2. CASE s = t /\ k = i
    BY <2>1, <2>2, <1>5, <1>6, <1>7
  <2>3. CASE ~(s = t /\ k = i)
    <3>1. lv[s] \in 1 .. 3 /\ tab2[s][k] = tab[s][k] /\ tab[s][k] # f /\ tab[s][k] \in Frames
      BY <2>1, <2>3, <1>1, <1>5, <1>7
    <3>2. /\ lv[tab[s][k]] = lv[s] + 1 /\ par[tab[s][k]] = <<s, k>>
          /\ tab[s][k] \in kern <=> s \in kern
      BY <3>1 DEF Sound, TablesOK
    <3> QED BY <3>1, <3>2, <2>1, <1>5
  <2> QED BY <2>2, <2>3
<1>14. HalvesOK(tab2, lv2, kern2)
  <2> SUFFICES ASSUME NEW s \in Frames, NEW k \in Index
               PROVE  /\ lv2[s] = 1 => tab2[s][k] # Direct
                      /\ lv2[s] \in 1 .. 3 /\ s \notin kern2 => tab2[s][k] # Direct
                      /\ lv2[s] = 3 /\ s \in kern2 => tab2[s][k] \notin Frames
    BY DEF HalvesOK
  <2>1. CASE s = f
    BY <2>1, <1>7, FrameFacts
  <2>2. CASE s = t /\ k = i
    BY <2>2, <1>1, <1>5, <1>7
  <2>3. CASE s # f /\ ~(s = t /\ k = i)
    <3>1. lv2[s] = lv[s] /\ tab2[s][k] = tab[s][k] /\ (s \in kern2 <=> s \in kern)
      BY <2>3, <1>5, <1>7
    <3> QED BY <3>1 DEF Sound, HalvesOK
  <2> QED BY <2>1, <2>2, <2>3
<1>15. OwnedOK(tab2, pgdir, up, lv2)
  <2> SUFFICES ASSUME NEW g \in Frames, lv2[g] \in 1 .. 4
               PROVE  \/ \E k \in Shared : pgdir[k] = g
                      \/ \E p \in Pids : up[p] = g
                      \/ \E s \in Frames, k \in Index : lv2[s] \in 1 .. 3 /\ tab2[s][k] = g
    BY DEF OwnedOK
  <2>1. CASE g = f
    <3>1. lv2[t] \in 1 .. 3 /\ tab2[t][i] = f
      BY <1>1, <1>5, <1>7
    <3> QED BY <2>1, <3>1
  <2>2. CASE g # f /\ \E s \in Frames, k \in Index : lv[s] \in 1 .. 3 /\ tab[s][k] = g
    <3>1. PICK s \in Frames, k \in Index : lv[s] \in 1 .. 3 /\ tab[s][k] = g
      BY <2>2
    <3>2. s # f /\ ~(s = t /\ k = i)
      BY <3>1, <1>1, FrameFacts
    <3>3. lv2[s] \in 1 .. 3 /\ tab2[s][k] = g
      BY <3>1, <3>2, <1>5, <1>7
    <3> QED BY <3>3
  <2>3. CASE g # f /\ ~\E s \in Frames, k \in Index : lv[s] \in 1 .. 3 /\ tab[s][k] = g
    <3>1. lv[g] \in 1 .. 4
      BY <2>3, <1>5
    <3> QED BY <3>1, <2>3 DEF Sound, OwnedOK
  <2> QED BY <2>1, <2>2, <2>3
<1>16. Sound(free \ {f}, tab2, pgdir, up, lv2, par2, kern2)
  BY <1>8, <1>9, <1>10, <1>11, <1>12, <1>13, <1>14, <1>15 DEF Sound
<1> QED BY <1>16 DEF tab2, lv2, par2, kern2

\* A free frame, cleared, becomes the PDPT of a shared slot.
LEMMA LinkSlot ==
  ASSUME NEW free, NEW tab, NEW pgdir, NEW up, NEW lv, NEW par, NEW kern,
         Sound(free, tab, pgdir, up, lv, par, kern), NEW f \in free,
         NEW i \in Shared, pgdir[i] = 0
  PROVE  Sound(free \ {f}, [tab EXCEPT ![f] = Zeroed], [pgdir EXCEPT ![i] = f], up,
               [lv EXCEPT ![f] = 1], [par EXCEPT ![f] = <<0, i>>],
               IF i < UserSlot THEN kern \cup {f} ELSE kern)
<1> DEFINE tab2 == [tab EXCEPT ![f] = Zeroed]
           pgdir2 == [pgdir EXCEPT ![i] = f]
           lv2 == [lv EXCEPT ![f] = 1]
           par2 == [par EXCEPT ![f] = <<0, i>>]
           kern2 == IF i < UserSlot THEN kern \cup {f} ELSE kern
<1>1. /\ f \in Frames /\ lv[f] = 0 /\ f # 1 /\ f # 0 /\ f # Direct /\ f \notin kern
      /\ \A k \in Shared : pgdir[k] # f
      /\ \A p \in Pids : up[p] # f
      /\ \A s \in Frames, k \in Index : lv[s] \in 1 .. 3 => tab[s][k] # f
  BY FreeUnreferenced, FrameFacts
<1>2. /\ free \subseteq Frames /\ tab \in [Frames -> [Index -> Entry]]
      /\ pgdir \in [L4 -> Frames \cup {0}] /\ up \in [Pids -> Frames \cup {0}]
      /\ lv \in [Frames -> 0 .. 5] /\ par \in [Frames -> Int \X Int] /\ kern \subseteq Frames
  BY DEF Sound, Typed, Ghosts
<1>3. Zeroed \in [Index -> Entry] /\ \A k \in Index : Zeroed[k] = 0
  BY DEF Zeroed, Entry
<1>4. i \in L4 /\ i \in Int
  BY DEF Shared, L4
<1>5. \A s \in Frames : /\ s # f => lv2[s] = lv[s] /\ par2[s] = par[s] /\ (s \in kern2 <=> s \in kern)
                        /\ lv2[f] = 1 /\ par2[f] = <<0, i>>
  BY <1>1, <1>2
<1>6. f \in kern2 <=> i < UserSlot
  BY <1>1
<1>7. /\ tab2 \in [Frames -> [Index -> Entry]] /\ \A k \in Index : tab2[f][k] = 0
      /\ \A s \in Frames : s # f => tab2[s] = tab[s]
  BY <1>1, <1>2, <1>3
<1>8. /\ pgdir2 \in [L4 -> Frames \cup {0}] /\ pgdir2[i] = f
      /\ \A k \in L4 : k # i => pgdir2[k] = pgdir[k]
  BY <1>1, <1>2, <1>4
<1>9. par2 \in [Frames -> Int \X Int] /\ lv2 \in [Frames -> 0 .. 5] /\ kern2 \subseteq Frames
  <2>1. <<0, i>> \in Int \X Int
    BY <1>4
  <2> QED BY <2>1, <1>1, <1>2
<1> HIDE DEF tab2, pgdir2, lv2, par2, kern2
<1>10. Typed(free \ {f}, tab2, pgdir2, up) /\ Ghosts(lv2, par2, kern2)
  BY <1>2, <1>7, <1>8, <1>9 DEF Typed, Ghosts
<1>11. Levelled(free \ {f}, lv2, kern2)
  <2>1. ASSUME NEW s \in Frames, s # f
        PROVE  (lv2[s] = 0 <=> s \in free \ {f}) /\ (lv2[s] = 5 <=> s = 1)
               /\ (s \in kern2 => lv2[s] \in 1 .. 3)
    BY <2>1, <1>5 DEF Sound, Levelled
  <2>2. lv2[f] = 1
    BY <1>1, <1>5
  <2> QED BY <2>1, <2>2, <1>1 DEF Levelled
<1>12. SlotsOK(pgdir2, lv2, par2, kern2)
  <2> SUFFICES ASSUME NEW k \in Shared, pgdir2[k] # 0
               PROVE  lv2[pgdir2[k]] = 1 /\ par2[pgdir2[k]] = <<0, k>>
                      /\ (pgdir2[k] \in kern2 <=> k < UserSlot)
    BY DEF SlotsOK
  <2>1. CASE k = i
    BY <2>1, <1>1, <1>5, <1>6, <1>8
  <2>2. CASE k # i
    <3>1. pgdir2[k] = pgdir[k] /\ pgdir[k] \in Frames /\ pgdir[k] # f
      BY <2>2, <1>1, <1>2, <1>8 DEF Shared
    <3> QED BY <3>1, <1>5 DEF Sound, SlotsOK
  <2> QED BY <2>1, <2>2
<1>13. ProcsOK(up, lv2, par2, kern2)
  <2> SUFFICES ASSUME NEW p \in Pids, up[p] # 0
               PROVE  lv2[up[p]] = 1 /\ par2[up[p]] = <<-1, p>> /\ up[p] \notin kern2
    BY DEF ProcsOK
  <2>1. up[p] \in Frames /\ up[p] # f
    BY <1>1, <1>2
  <2> QED BY <2>1, <1>5 DEF Sound, ProcsOK
<1>14. TablesOK(tab2, lv2, par2, kern2)
  <2> SUFFICES ASSUME NEW s \in Frames, NEW k \in Index, lv2[s] \in 1 .. 3, tab2[s][k] \in Frames
               PROVE  /\ lv2[tab2[s][k]] = lv2[s] + 1 /\ par2[tab2[s][k]] = <<s, k>>
                      /\ tab2[s][k] \in kern2 <=> s \in kern2
    BY DEF TablesOK
  <2>1. s # f
    BY <1>7, FrameFacts
  <2>2. lv[s] \in 1 .. 3 /\ tab2[s][k] = tab[s][k] /\ tab[s][k] # f /\ tab[s][k] \in Frames
    BY <2>1, <1>1, <1>5, <1>7
  <2>3. /\ lv[tab[s][k]] = lv[s] + 1 /\ par[tab[s][k]] = <<s, k>>
        /\ tab[s][k] \in kern <=> s \in kern
    BY <2>2 DEF Sound, TablesOK
  <2> QED BY <2>1, <2>2, <2>3, <1>5
<1>15. HalvesOK(tab2, lv2, kern2)
  <2> SUFFICES ASSUME NEW s \in Frames, NEW k \in Index
               PROVE  /\ lv2[s] = 1 => tab2[s][k] # Direct
                      /\ lv2[s] \in 1 .. 3 /\ s \notin kern2 => tab2[s][k] # Direct
                      /\ lv2[s] = 3 /\ s \in kern2 => tab2[s][k] \notin Frames
    BY DEF HalvesOK
  <2>1. CASE s = f
    BY <2>1, <1>7, FrameFacts
  <2>2. CASE s # f
    <3>1. lv2[s] = lv[s] /\ tab2[s][k] = tab[s][k] /\ (s \in kern2 <=> s \in kern)
      BY <2>2, <1>5, <1>7
    <3> QED BY <3>1 DEF Sound, HalvesOK
  <2> QED BY <2>1, <2>2
<1>16. OwnedOK(tab2, pgdir2, up, lv2)
  <2> SUFFICES ASSUME NEW g \in Frames, lv2[g] \in 1 .. 4
               PROVE  \/ \E k \in Shared : pgdir2[k] = g
                      \/ \E p \in Pids : up[p] = g
                      \/ \E s \in Frames, k \in Index : lv2[s] \in 1 .. 3 /\ tab2[s][k] = g
    BY DEF OwnedOK
  <2>1. CASE g = f
    BY <2>1, <1>8
  <2>2. CASE g # f
    <3>1. \/ \E k \in Shared : pgdir[k] = g
          \/ \E p \in Pids : up[p] = g
          \/ \E s \in Frames, k \in Index : lv[s] \in 1 .. 3 /\ tab[s][k] = g
      BY <2>2, <1>5 DEF Sound, OwnedOK
    <3>2. ASSUME NEW k \in Shared, pgdir[k] = g PROVE pgdir2[k] = g
      <4>1. k # i /\ k \in L4
        BY <3>2, FrameFacts DEF Shared
      <4> QED BY <4>1, <3>2, <1>8
    <3>3. ASSUME NEW s \in Frames, NEW k \in Index, lv[s] \in 1 .. 3, tab[s][k] = g
          PROVE  lv2[s] \in 1 .. 3 /\ tab2[s][k] = g
      <4>1. s # f
        BY <3>3, <1>1
      <4> QED BY <4>1, <3>3, <1>5, <1>7
    <3> QED BY <3>1, <3>2, <3>3
  <2> QED BY <2>1, <2>2
<1>17. Sound(free \ {f}, tab2, pgdir2, up, lv2, par2, kern2)
  BY <1>10, <1>11, <1>12, <1>13, <1>14, <1>15, <1>16 DEF Sound
<1> QED BY <1>17 DEF tab2, pgdir2, lv2, par2, kern2

\* A free frame, cleared, becomes the PDPT of a process.
LEMMA LinkProc ==
  ASSUME NEW free, NEW tab, NEW pgdir, NEW up, NEW lv, NEW par, NEW kern,
         Sound(free, tab, pgdir, up, lv, par, kern), NEW f \in free,
         NEW q \in Pids, up[q] = 0
  PROVE  Sound(free \ {f}, [tab EXCEPT ![f] = Zeroed], pgdir, [up EXCEPT ![q] = f],
               [lv EXCEPT ![f] = 1], [par EXCEPT ![f] = <<-1, q>>], kern)
<1> DEFINE tab2 == [tab EXCEPT ![f] = Zeroed]
           up2 == [up EXCEPT ![q] = f]
           lv2 == [lv EXCEPT ![f] = 1]
           par2 == [par EXCEPT ![f] = <<-1, q>>]
<1>1. /\ f \in Frames /\ lv[f] = 0 /\ f # 1 /\ f # 0 /\ f # Direct /\ f \notin kern
      /\ \A k \in Shared : pgdir[k] # f
      /\ \A p \in Pids : up[p] # f
      /\ \A s \in Frames, k \in Index : lv[s] \in 1 .. 3 => tab[s][k] # f
  BY FreeUnreferenced, FrameFacts
<1>2. /\ free \subseteq Frames /\ tab \in [Frames -> [Index -> Entry]]
      /\ pgdir \in [L4 -> Frames \cup {0}] /\ up \in [Pids -> Frames \cup {0}]
      /\ lv \in [Frames -> 0 .. 5] /\ par \in [Frames -> Int \X Int] /\ kern \subseteq Frames
  BY DEF Sound, Typed, Ghosts
<1>3. Zeroed \in [Index -> Entry] /\ \A k \in Index : Zeroed[k] = 0
  BY DEF Zeroed, Entry
<1>4. \A s \in Frames : /\ s # f => lv2[s] = lv[s] /\ par2[s] = par[s]
                        /\ lv2[f] = 1 /\ par2[f] = <<-1, q>>
  BY <1>1, <1>2
<1>5. /\ tab2 \in [Frames -> [Index -> Entry]] /\ \A k \in Index : tab2[f][k] = 0
      /\ \A s \in Frames : s # f => tab2[s] = tab[s]
  BY <1>1, <1>2, <1>3
<1>6. /\ up2 \in [Pids -> Frames \cup {0}] /\ up2[q] = f
      /\ \A k \in Pids : k # q => up2[k] = up[k]
  BY <1>1, <1>2
<1>7. par2 \in [Frames -> Int \X Int] /\ lv2 \in [Frames -> 0 .. 5] /\ kern \subseteq Frames
  <2>1. <<-1, q>> \in Int \X Int
    BY DEF Pids
  <2> QED BY <2>1, <1>1, <1>2
<1> HIDE DEF tab2, up2, lv2, par2
<1>8. Typed(free \ {f}, tab2, pgdir, up2) /\ Ghosts(lv2, par2, kern)
  BY <1>2, <1>5, <1>6, <1>7 DEF Typed, Ghosts
<1>9. Levelled(free \ {f}, lv2, kern)
  <2>1. ASSUME NEW s \in Frames, s # f
        PROVE  (lv2[s] = 0 <=> s \in free \ {f}) /\ (lv2[s] = 5 <=> s = 1)
               /\ (s \in kern => lv2[s] \in 1 .. 3)
    BY <2>1, <1>4 DEF Sound, Levelled
  <2>2. lv2[f] = 1
    BY <1>1, <1>4
  <2> QED BY <2>1, <2>2, <1>1 DEF Levelled
<1>10. SlotsOK(pgdir, lv2, par2, kern)
  <2> SUFFICES ASSUME NEW k \in Shared, pgdir[k] # 0
               PROVE  lv2[pgdir[k]] = 1 /\ par2[pgdir[k]] = <<0, k>>
                      /\ (pgdir[k] \in kern <=> k < UserSlot)
    BY DEF SlotsOK
  <2>1. pgdir[k] \in Frames /\ pgdir[k] # f
    BY <1>1, <1>2 DEF Shared
  <2> QED BY <2>1, <1>4 DEF Sound, SlotsOK
<1>11. ProcsOK(up2, lv2, par2, kern)
  <2> SUFFICES ASSUME NEW p \in Pids, up2[p] # 0
               PROVE  lv2[up2[p]] = 1 /\ par2[up2[p]] = <<-1, p>> /\ up2[p] \notin kern
    BY DEF ProcsOK
  <2>1. CASE p = q
    BY <2>1, <1>1, <1>4, <1>6
  <2>2. CASE p # q
    <3>1. up2[p] = up[p] /\ up[p] \in Frames /\ up[p] # f
      BY <2>2, <1>1, <1>2, <1>6
    <3> QED BY <3>1, <1>4 DEF Sound, ProcsOK
  <2> QED BY <2>1, <2>2
<1>12. TablesOK(tab2, lv2, par2, kern)
  <2> SUFFICES ASSUME NEW s \in Frames, NEW k \in Index, lv2[s] \in 1 .. 3, tab2[s][k] \in Frames
               PROVE  /\ lv2[tab2[s][k]] = lv2[s] + 1 /\ par2[tab2[s][k]] = <<s, k>>
                      /\ tab2[s][k] \in kern <=> s \in kern
    BY DEF TablesOK
  <2>1. s # f
    BY <1>5, FrameFacts
  <2>2. lv[s] \in 1 .. 3 /\ tab2[s][k] = tab[s][k] /\ tab[s][k] # f /\ tab[s][k] \in Frames
    BY <2>1, <1>1, <1>4, <1>5
  <2>3. /\ lv[tab[s][k]] = lv[s] + 1 /\ par[tab[s][k]] = <<s, k>>
        /\ tab[s][k] \in kern <=> s \in kern
    BY <2>2 DEF Sound, TablesOK
  <2> QED BY <2>1, <2>2, <2>3, <1>4
<1>13. HalvesOK(tab2, lv2, kern)
  <2> SUFFICES ASSUME NEW s \in Frames, NEW k \in Index
               PROVE  /\ lv2[s] = 1 => tab2[s][k] # Direct
                      /\ lv2[s] \in 1 .. 3 /\ s \notin kern => tab2[s][k] # Direct
                      /\ lv2[s] = 3 /\ s \in kern => tab2[s][k] \notin Frames
    BY DEF HalvesOK
  <2>1. CASE s = f
    BY <2>1, <1>5, FrameFacts
  <2>2. CASE s # f
    <3>1. lv2[s] = lv[s] /\ tab2[s][k] = tab[s][k]
      BY <2>2, <1>4, <1>5
    <3> QED BY <3>1 DEF Sound, HalvesOK
  <2> QED BY <2>1, <2>2
<1>14. OwnedOK(tab2, pgdir, up2, lv2)
  <2> SUFFICES ASSUME NEW g \in Frames, lv2[g] \in 1 .. 4
               PROVE  \/ \E k \in Shared : pgdir[k] = g
                      \/ \E p \in Pids : up2[p] = g
                      \/ \E s \in Frames, k \in Index : lv2[s] \in 1 .. 3 /\ tab2[s][k] = g
    BY DEF OwnedOK
  <2>1. CASE g = f
    BY <2>1, <1>6
  <2>2. CASE g # f
    <3>1. \/ \E k \in Shared : pgdir[k] = g
          \/ \E p \in Pids : up[p] = g
          \/ \E s \in Frames, k \in Index : lv[s] \in 1 .. 3 /\ tab[s][k] = g
      BY <2>2, <1>4 DEF Sound, OwnedOK
    <3>2. ASSUME NEW p \in Pids, up[p] = g PROVE up2[p] = g
      <4>1. p # q
        BY <3>2, FrameFacts
      <4> QED BY <4>1, <3>2, <1>6
    <3>3. ASSUME NEW s \in Frames, NEW k \in Index, lv[s] \in 1 .. 3, tab[s][k] = g
          PROVE  lv2[s] \in 1 .. 3 /\ tab2[s][k] = g
      <4>1. s # f
        BY <3>3, <1>1
      <4> QED BY <4>1, <3>3, <1>4, <1>5
    <3> QED BY <3>1, <3>2, <3>3
  <2> QED BY <2>1, <2>2
<1>15. Sound(free \ {f}, tab2, pgdir, up2, lv2, par2, kern)
  BY <1>8, <1>9, <1>10, <1>11, <1>12, <1>13, <1>14 DEF Sound
<1> QED BY <1>15 DEF tab2, up2, lv2, par2

\* An absent entry of one of the kernel's page tables becomes an identity mapping.
LEMMA LinkDirect ==
  ASSUME NEW free, NEW tab, NEW pgdir, NEW up, NEW lv, NEW par, NEW kern,
         Sound(free, tab, pgdir, up, lv, par, kern),
         NEW t \in kern, lv[t] = 3, NEW i \in Index, tab[t][i] = 0
  PROVE  Sound(free, [tab EXCEPT ![t][i] = Direct], pgdir, up, lv, par, kern)
<1> DEFINE tab2 == [tab EXCEPT ![t][i] = Direct]
<1>1. /\ free \subseteq Frames /\ tab \in [Frames -> [Index -> Entry]]
      /\ pgdir \in [L4 -> Frames \cup {0}] /\ up \in [Pids -> Frames \cup {0}]
      /\ lv \in [Frames -> 0 .. 5] /\ par \in [Frames -> Int \X Int] /\ kern \subseteq Frames
  BY DEF Sound, Typed, Ghosts
<1>2. Direct \in Entry
  BY DEF Entry
<1>3. /\ tab2 \in [Frames -> [Index -> Entry]] /\ tab2[t][i] = Direct
      /\ \A s \in Frames, k \in Index : ~(s = t /\ k = i) => tab2[s][k] = tab[s][k]
  <2>1. PICK row : row = [tab[t] EXCEPT ![i] = Direct]
    OBVIOUS
  <2>2. row \in [Index -> Entry] /\ row[i] = Direct /\ \A k \in Index : k # i => row[k] = tab[t][k]
    BY <2>1, <1>1, <1>2
  <2>3. tab2 = [tab EXCEPT ![t] = row]
    BY <2>1
  <2> HIDE DEF tab2
  <2>4. tab2 \in [Frames -> [Index -> Entry]] /\ tab2[t] = row
        /\ \A s \in Frames : s # t => tab2[s] = tab[s]
    BY <2>2, <2>3, <1>1
  <2> QED BY <2>2, <2>4
<1> HIDE DEF tab2
<1>4. Typed(free, tab2, pgdir, up)
  BY <1>1, <1>3 DEF Typed
<1>5. TablesOK(tab2, lv, par, kern)
  <2> SUFFICES ASSUME NEW s \in Frames, NEW k \in Index, lv[s] \in 1 .. 3, tab2[s][k] \in Frames
               PROVE  /\ lv[tab2[s][k]] = lv[s] + 1 /\ par[tab2[s][k]] = <<s, k>>
                      /\ tab2[s][k] \in kern <=> s \in kern
    BY DEF TablesOK
  <2>1. tab2[s][k] = tab[s][k]
    BY <1>3, FrameFacts
  <2> QED BY <2>1 DEF Sound, TablesOK
<1>6. HalvesOK(tab2, lv, kern)
  <2> SUFFICES ASSUME NEW s \in Frames, NEW k \in Index
               PROVE  /\ lv[s] = 1 => tab2[s][k] # Direct
                      /\ lv[s] \in 1 .. 3 /\ s \notin kern => tab2[s][k] # Direct
                      /\ lv[s] = 3 /\ s \in kern => tab2[s][k] \notin Frames
    BY DEF HalvesOK
  <2>1. CASE s = t /\ k = i
    BY <2>1, <1>3, FrameFacts
  <2>2. CASE ~(s = t /\ k = i)
    BY <2>2, <1>3 DEF Sound, HalvesOK
  <2> QED BY <2>1, <2>2
<1>7. OwnedOK(tab2, pgdir, up, lv)
  <2> SUFFICES ASSUME NEW g \in Frames, lv[g] \in 1 .. 4
               PROVE  \/ \E k \in Shared : pgdir[k] = g
                      \/ \E p \in Pids : up[p] = g
                      \/ \E s \in Frames, k \in Index : lv[s] \in 1 .. 3 /\ tab2[s][k] = g
    BY DEF OwnedOK
  <2>1. ASSUME NEW s \in Frames, NEW k \in Index, tab[s][k] = g PROVE tab2[s][k] = g
    BY <2>1, <1>3, FrameFacts
  <2> QED BY <2>1 DEF Sound, OwnedOK
<1>8. Sound(free, tab2, pgdir, up, lv, par, kern)
  BY <1>4, <1>5, <1>6, <1>7 DEF Sound
<1> QED BY <1>8 DEF tab2

\* The entries of a set of tables, and the tree below a root.
Below(tab, T) == {tab[t][i] : t \in T, i \in Index} \ {0, Direct}

Tree(tab, root) ==
  {root} \cup Below(tab, {root}) \cup Below(tab, Below(tab, {root}))
    \cup Below(tab, Below(tab, Below(tab, {root})))

\* The entries of tables of one level are frames of the next, in the same half.
LEMMA BelowLevel ==
  ASSUME NEW free, NEW tab, NEW pgdir, NEW up, NEW lv, NEW par, NEW kern,
         Sound(free, tab, pgdir, up, lv, par, kern),
         NEW n \in 1 .. 3, NEW T \in SUBSET {t \in Frames : lv[t] = n}
  PROVE  /\ Below(tab, T) \subseteq {t \in Frames : lv[t] = n + 1}
         /\ T \cap kern = {} => Below(tab, T) \cap kern = {}
         /\ \A f \in Below(tab, T) : \E t \in T, i \in Index : tab[t][i] = f /\ par[f] = <<t, i>>
<1> SUFFICES ASSUME NEW f \in Below(tab, T)
             PROVE  /\ f \in Frames /\ lv[f] = n + 1
                    /\ T \cap kern = {} => f \notin kern
                    /\ \E t \in T, i \in Index : tab[t][i] = f /\ par[f] = <<t, i>>
  OBVIOUS
<1>1. PICK t \in T, i \in Index : tab[t][i] = f /\ f # 0 /\ f # Direct
  BY DEF Below
<1>2. t \in Frames /\ lv[t] = n
  OBVIOUS
<1>3. tab[t][i] \in Entry
  BY <1>2 DEF Sound, Typed
<1>4. f \in Frames
  BY <1>1, <1>3 DEF Entry
<1>5. lv[f] = n + 1 /\ par[f] = <<t, i>> /\ (f \in kern <=> t \in kern)
  BY <1>1, <1>2, <1>4 DEF Sound, TablesOK
<1> QED BY <1>1, <1>4, <1>5

\* What the tree below a process's root is: closed, not referred to from outside,
\* and disjoint from the kernel's half.
LEMMA TreeFacts ==
  ASSUME NEW free, NEW tab, NEW pgdir, NEW up, NEW lv, NEW par, NEW kern,
         Sound(free, tab, pgdir, up, lv, par, kern), NEW q \in Pids, up[q] # 0,
         NEW R, R = Tree(tab, up[q])
  PROVE  /\ R \subseteq Frames /\ up[q] \in R /\ R \cap kern = {} /\ 1 \notin R
         /\ \A f \in R : lv[f] \in 1 .. 4 /\ (lv[f] = 1 => f = up[q])
         /\ \A t \in R, i \in Index : lv[t] \in 1 .. 3 /\ tab[t][i] \in Frames => tab[t][i] \in R
         /\ \A t \in Frames, i \in Index : lv[t] \in 1 .. 3 /\ tab[t][i] \in R => t \in R
         /\ \A i \in Shared : pgdir[i] \notin R
         /\ \A p \in Pids : p # q => up[p] \notin R
<1>1. PICK r : r = up[q]
  OBVIOUS
<1>2. r \in Frames /\ lv[r] = 1 /\ par[r] = <<-1, q>> /\ r \notin kern
  BY <1>1 DEF Sound, Typed, ProcsOK
<1>3. PICK A : A = Below(tab, {r})
  OBVIOUS
<1>4. PICK B : B = Below(tab, A)
  OBVIOUS
<1>5. PICK C : C = Below(tab, B)
  OBVIOUS
<1>6. R = {r} \cup A \cup B \cup C
  BY <1>1, <1>3, <1>4, <1>5 DEF Tree
<1>7. /\ A \subseteq {t \in Frames : lv[t] = 2} /\ A \cap kern = {}
      /\ \A f \in A : \E t \in {r}, i \in Index : tab[t][i] = f /\ par[f] = <<t, i>>
  <2>1. {r} \in SUBSET {t \in Frames : lv[t] = 1} /\ {r} \cap kern = {} /\ 1 \in 1 .. 3 /\ 1 + 1 = 2
    BY <1>2
  <2> QED BY <2>1, <1>3, BelowLevel
<1>8. /\ B \subseteq {t \in Frames : lv[t] = 3} /\ B \cap kern = {}
      /\ \A f \in B : \E t \in A, i \in Index : tab[t][i] = f /\ par[f] = <<t, i>>
  <2>1. 2 \in 1 .. 3 /\ 2 + 1 = 3
    OBVIOUS
  <2> QED BY <2>1, <1>4, <1>7, BelowLevel
<1>9. /\ C \subseteq {t \in Frames : lv[t] = 4} /\ C \cap kern = {}
      /\ \A f \in C : \E t \in B, i \in Index : tab[t][i] = f /\ par[f] = <<t, i>>
  <2>1. 3 \in 1 .. 3 /\ 3 + 1 = 4
    OBVIOUS
  <2> QED BY <2>1, <1>5, <1>8, BelowLevel
<1>10. R \subseteq Frames /\ r \in R /\ R \cap kern = {}
  BY <1>2, <1>6, <1>7, <1>8, <1>9
<1>11. \A f \in R : lv[f] \in 1 .. 4 /\ (lv[f] = 1 => f = r) /\ (lv[f] = 2 => f \in A) /\ (lv[f] = 3 => f \in B)
  BY <1>2, <1>6, <1>7, <1>8, <1>9
<1>12. 1 \notin R
  <2>1. lv[1] = 5
    BY FrameFacts DEF Sound, Levelled
  <2> QED BY <2>1, <1>11
<1>13. ASSUME NEW t \in R, NEW i \in Index, lv[t] \in 1 .. 3, tab[t][i] \in Frames
       PROVE  tab[t][i] \in R
  <2>1. tab[t][i] # 0 /\ tab[t][i] # Direct
    BY <1>13, FrameFacts
  <2>2. CASE lv[t] = 1
    <3>1. t \in {r}
      BY <2>2, <1>11
    <3>2. tab[t][i] \in A
      BY <3>1, <2>1, <1>3 DEF Below
    <3> QED BY <3>2, <1>6
  <2>3. CASE lv[t] = 2
    <3>1. tab[t][i] \in B
      BY <2>1, <2>3, <1>11, <1>4 DEF Below
    <3> QED BY <3>1, <1>6
  <2>4. CASE lv[t] = 3
    <3>1. tab[t][i] \in C
      BY <2>1, <2>4, <1>11, <1>5 DEF Below
    <3> QED BY <3>1, <1>6
  <2>5. lv[t] \in Int
    BY <1>13
  <2> QED BY <2>2, <2>3, <2>4, <2>5, <1>13
<1>14. ASSUME NEW t \in Frames, NEW i \in Index, lv[t] \in 1 .. 3, tab[t][i] \in R
       PROVE  t \in R
  <2>1. PICK f : f = tab[t][i]
    OBVIOUS
  <2>2. f \in Frames /\ f \in R
    BY <2>1, <1>10, <1>14
  <2>3. lv[f] = lv[t] + 1 /\ par[f] = <<t, i>>
    BY <2>1, <2>2, <1>14 DEF Sound, TablesOK
  <2>4. f # r
    BY <2>3, <1>2, <1>14
  <2>5. PICK s \in {r} \cup A \cup B, k \in Index : par[f] = <<s, k>>
    BY <2>2, <2>4, <1>6, <1>7, <1>8, <1>9
  <2>6. s = t
    BY <2>3, <2>5
  <2> QED BY <2>6, <1>6
<1>15. ASSUME NEW i \in Shared, pgdir[i] \in R PROVE FALSE
  <2>1. pgdir[i] # 0
    BY <1>10, <1>15, FrameFacts
  <2>2. lv[pgdir[i]] = 1 /\ par[pgdir[i]] = <<0, i>>
    BY <2>1 DEF Sound, SlotsOK
  <2>3. pgdir[i] = r
    BY <2>2, <1>11, <1>15
  <2>4. <<0, i>> = <<-1, q>>
    BY <2>2, <2>3, <1>2
  <2> QED BY <2>4
<1>16. ASSUME NEW p \in Pids, p # q, up[p] \in R PROVE FALSE
  <2>1. up[p] # 0
    BY <1>10, <1>16, FrameFacts
  <2>2. lv[up[p]] = 1 /\ par[up[p]] = <<-1, p>>
    BY <2>1 DEF Sound, ProcsOK
  <2>3. up[p] = r
    BY <2>2, <1>11, <1>16
  <2>4. <<-1, p>> = <<-1, q>>
    BY <2>2, <2>3, <1>2
  <2> QED BY <2>4, <1>16
<1> QED BY <1>1, <1>10, <1>11, <1>12, <1>13, <1>14, <1>15, <1>16

\* The tree of a process is given back.
LEMMA FreeTree ==
  ASSUME NEW free, NEW tab, NEW pgdir, NEW up, NEW lv, NEW par, NEW kern,
         Sound(free, tab, pgdir, up, lv, par, kern), NEW q \in Pids, up[q] # 0
  PROVE  Sound(free \cup Tree(tab, up[q]), tab, pgdir, [up EXCEPT ![q] = 0],
               [f \in Frames |-> IF f \in Tree(tab, up[q]) THEN 0 ELSE lv[f]], par, kern)
<1>1. PICK R : R = Tree(tab, up[q])
  OBVIOUS
<1> DEFINE lv2 == [f \in Frames |-> IF f \in R THEN 0 ELSE lv[f]]
           up2 == [up EXCEPT ![q] = 0]
<1>2. /\ R \subseteq Frames /\ up[q] \in R /\ R \cap kern = {} /\ 1 \notin R
      /\ \A t \in R, i \in Index : lv[t] \in 1 .. 3 /\ tab[t][i] \in Frames => tab[t][i] \in R
      /\ \A t \in Frames, i \in Index : lv[t] \in 1 .. 3 /\ tab[t][i] \in R => t \in R
      /\ \A i \in Shared : pgdir[i] \notin R
      /\ \A p \in Pids : p # q => up[p] \notin R
  BY <1>1, TreeFacts
<1>3. /\ free \subseteq Frames /\ tab \in [Frames -> [Index -> Entry]]
      /\ pgdir \in [L4 -> Frames \cup {0}] /\ up \in [Pids -> Frames \cup {0}]
      /\ lv \in [Frames -> 0 .. 5] /\ par \in [Frames -> Int \X Int] /\ kern \subseteq Frames
  BY DEF Sound, Typed, Ghosts
<1>4. \A f \in Frames : (f \in R => lv2[f] = 0) /\ (f \notin R => lv2[f] = lv[f])
  OBVIOUS
<1>5. up2 \in [Pids -> Frames \cup {0}] /\ up2[q] = 0 /\ \A p \in Pids : p # q => up2[p] = up[p]
  BY <1>3
<1>6. lv2 \in [Frames -> 0 .. 5]
  BY <1>3
<1> HIDE DEF lv2, up2
<1>7. Typed(free \cup R, tab, pgdir, up2) /\ Ghosts(lv2, par, kern)
  BY <1>2, <1>3, <1>5, <1>6 DEF Typed, Ghosts
<1>8. Levelled(free \cup R, lv2, kern)
  BY <1>2, <1>4 DEF Sound, Levelled
<1>9. SlotsOK(pgdir, lv2, par, kern)
  <2> SUFFICES ASSUME NEW k \in Shared, pgdir[k] # 0
               PROVE  lv2[pgdir[k]] = 1 /\ par[pgdir[k]] = <<0, k>>
                      /\ (pgdir[k] \in kern <=> k < UserSlot)
    BY DEF SlotsOK
  <2>1. pgdir[k] \in Frames /\ pgdir[k] \notin R
    BY <1>2, <1>3 DEF Shared
  <2> QED BY <2>1, <1>4 DEF Sound, SlotsOK
<1>10. ProcsOK(up2, lv2, par, kern)
  <2> SUFFICES ASSUME NEW p \in Pids, up2[p] # 0
               PROVE  lv2[up2[p]] = 1 /\ par[up2[p]] = <<-1, p>> /\ up2[p] \notin kern
    BY DEF ProcsOK
  <2>1. up2[p] = up[p] /\ up[p] \in Frames /\ up[p] \notin R
    BY <1>2, <1>3, <1>5
  <2> QED BY <2>1, <1>4 DEF Sound, ProcsOK
<1>11. TablesOK(tab, lv2, par, kern)
  <2> SUFFICES ASSUME NEW s \in Frames, NEW k \in Index, lv2[s] \in 1 .. 3, tab[s][k] \in Frames
               PROVE  /\ lv2[tab[s][k]] = lv2[s] + 1 /\ par[tab[s][k]] = <<s, k>>
                      /\ tab[s][k] \in kern <=> s \in kern
    BY DEF TablesOK
  <2>1. s \notin R
    BY <1>4
  <2>2. lv2[s] = lv[s]
    BY <2>1, <1>4
  <2>3. tab[s][k] \notin R
    BY <2>1, <2>2, <1>2
  <2> QED BY <2>2, <2>3, <1>4 DEF Sound, TablesOK
<1>12. HalvesOK(tab, lv2, kern)
  <2> SUFFICES ASSUME NEW s \in Frames, NEW k \in Index
               PROVE  /\ lv2[s] = 1 => tab[s][k] # Direct
                      /\ lv2[s] \in 1 .. 3 /\ s \notin kern => tab[s][k] # Direct
                      /\ lv2[s] = 3 /\ s \in kern => tab[s][k] \notin Frames
    BY DEF HalvesOK
  <2>1. CASE s \in R
    BY <2>1, <1>4
  <2>2. CASE s \notin R
    BY <2>2, <1>4 DEF Sound, HalvesOK
  <2> QED BY <2>1, <2>2
<1>13. OwnedOK(tab, pgdir, up2, lv2)
  <2> SUFFICES ASSUME NEW g \in Frames, lv2[g] \in 1 .. 4
               PROVE  \/ \E k \in Shared : pgdir[k] = g
                      \/ \E p \in Pids : up2[p] = g
                      \/ \E s \in Frames, k \in Index : lv2[s] \in 1 .. 3 /\ tab[s][k] = g
    BY DEF OwnedOK
  <2>1. g \notin R
    BY <1>4
  <2>2. lv[g] \in 1 .. 4
    BY <2>1, <1>4
  <2>3. \/ \E k \in Shared : pgdir[k] = g
        \/ \E p \in Pids : up[p] = g
        \/ \E s \in Frames, k \in Index : lv[s] \in 1 .. 3 /\ tab[s][k] = g
    BY <2>2 DEF Sound, OwnedOK
  <2>4. ASSUME NEW p \in Pids, up[p] = g PROVE up2[p] = g
    <3>1. p # q
      BY <2>1, <2>4, <1>2
    <3> QED BY <3>1, <2>4, <1>5
  <2>5. ASSUME NEW s \in Frames, NEW k \in Index, lv[s] \in 1 .. 3, tab[s][k] = g
        PROVE  lv2[s] \in 1 .. 3
    <3>1. s \notin R
      BY <2>1, <2>5, <1>2
    <3> QED BY <3>1, <2>5, <1>4
  <2> QED BY <2>3, <2>4, <2>5
<1>14. Sound(free \cup R, tab, pgdir, up2, lv2, par, kern)
  BY <1>7, <1>8, <1>9, <1>10, <1>11, <1>12, <1>13 DEF Sound
<1> QED BY <1>1, <1>14 DEF lv2, up2

-----------------------------------------------------------------------------
(* The page table walk.                                                    *)

Outcomes == {"ok", "pmalloc: out of memory", "pmfree: invalid address"}

\* A memory in which no frame was freed twice.
Memory == [free : SUBSET Frames, twice : {{}}, tab : [Frames -> [Index -> Entry]],
           pgdir : [L4 -> Frames \cup {0}], out : Outcomes]

Addresses == L4 \X Index \X Index \X Index

\* The memory is consistent, and t is a table of level n in the half of va.
At(m, up, t, n, va) ==
  /\ m \in Memory /\ t \in Frames
  /\ \E lv, par, kern : /\ Sound(m.free, m.tab, m.pgdir, up, lv, par, kern)
                        /\ lv[t] = n /\ (t \in kern <=> ~IsUser(va))

\* The memory is consistent, and slot 2 is the address space of a process.
Mapped(m, up) ==
  /\ m \in Memory /\ Consistent(m.free, m.tab, m.pgdir, up)
  /\ \E p \in Pids : up[p] # 0 /\ m.pgdir[UserSlot] = up[p]

\* pmalloc() either panics and changes nothing, or takes a free frame and clears it.
LEMMA AllocFacts ==
  ASSUME NEW m \in Memory
  PROVE  /\ m.free = {} => /\ Alloc(m) \in Memory /\ Alloc(m).out # "ok"
                           /\ Alloc(m).free = m.free /\ Alloc(m).tab = m.tab
                           /\ Alloc(m).pgdir = m.pgdir
         /\ m.free # {} => /\ Least(m.free) \in m.free /\ Least(m.free) \in Frames
                           /\ Alloc(m) \in Memory /\ Alloc(m).out = m.out
                           /\ Alloc(m).free = m.free \ {Least(m.free)}
                           /\ Alloc(m).tab = [m.tab EXCEPT ![Least(m.free)] = Zeroed]
                           /\ Alloc(m).pgdir = m.pgdir
<1>1. CASE m.free = {}
  <2>1. Alloc(m) = [m EXCEPT !.out = "pmalloc: out of memory"]
    BY <1>1 DEF Alloc
  <2> QED BY <2>1, <1>1 DEF Memory, Outcomes
<1>2. CASE m.free # {}
  <2>1. PICK f : f = Least(m.free)
    OBVIOUS
  <2>2. f \in m.free /\ f \in Frames
    BY <1>2, <2>1, LeastIsFree DEF Memory
  <2>3. Alloc(m) = [m EXCEPT !.free = @ \ {f}, !.tab[f] = Zeroed]
    BY <1>2, <2>1 DEF Alloc
  <2>4. Zeroed \in [Index -> Entry]
    BY DEF Zeroed, Entry
  <2>5. PICK tab2 : tab2 = [m.tab EXCEPT ![f] = Zeroed]
    OBVIOUS
  <2>6. tab2 \in [Frames -> [Index -> Entry]]
    BY <2>2, <2>4, <2>5 DEF Memory
  <2>7. /\ Alloc(m).out = m.out /\ Alloc(m).free = m.free \ {f}
        /\ Alloc(m).tab = tab2 /\ Alloc(m).pgdir = m.pgdir
    BY <2>3, <2>5 DEF Memory
  <2>8. Alloc(m) = [m EXCEPT !.free = m.free \ {f}, !.tab = tab2]
    BY <2>3, <2>5 DEF Memory
  <2>9. Alloc(m) \in Memory
    BY <2>6, <2>8 DEF Memory
  <2> QED BY <1>2, <2>1, <2>2, <2>5, <2>7, <2>9
<1> QED BY <1>1, <1>2

\* One level of the walk.
LEMMA EnsureStep ==
  ASSUME NEW m, NEW up, NEW t, NEW n \in 1 .. 3, NEW va, NEW i \in Index,
         At(m, up, t, n, va), n = 3 => IsUser(va), m.out = "ok",
         NEW k, k = Ensure(m, t, i)
  PROVE  /\ k \in Memory /\ Consistent(k.free, k.tab, k.pgdir, up) /\ k.pgdir = m.pgdir
         /\ k.out = "ok" => \/ k.tab[t][i] = Direct /\ n # 1
                            \/ At(k, up, k.tab[t][i], n + 1, va)
<1>1. m \in Memory /\ t \in Frames
  BY DEF At
<1>2. PICK lv, par, kern : /\ Sound(m.free, m.tab, m.pgdir, up, lv, par, kern)
                           /\ lv[t] = n /\ (t \in kern <=> ~IsUser(va))
  BY DEF At
<1>3. CASE m.tab[t][i] # 0
  <2>1. k = m
    BY <1>3 DEF Ensure
  <2>2. m.tab[t][i] \in Frames \/ m.tab[t][i] = Direct
    BY <1>1, <1>3 DEF Memory, Entry
  <2>3. m.tab[t][i] = Direct => n # 1
    BY <1>1, <1>2 DEF Sound, HalvesOK
  <2>4. ASSUME m.tab[t][i] \in Frames
        PROVE  lv[m.tab[t][i]] = n + 1 /\ (m.tab[t][i] \in kern <=> ~IsUser(va))
    BY <2>4, <1>1, <1>2 DEF Sound, TablesOK
  <2> QED BY <2>1, <2>2, <2>3, <2>4, <1>1, <1>2 DEF At, Consistent
<1>4. CASE m.tab[t][i] = 0 /\ m.free = {}
  <2>1. k = Alloc(m) /\ Alloc(m).out # "ok"
    BY <1>1, <1>4, AllocFacts DEF Ensure
  <2> QED BY <2>1, <1>1, <1>2, <1>4, AllocFacts DEF Consistent
<1>5. CASE m.tab[t][i] = 0 /\ m.free # {}
  <2>1. PICK f : f = Least(m.free)
    OBVIOUS
  <2>2. f \in m.free /\ f \in Frames
    BY <1>1, <1>5, <2>1, AllocFacts
  <2>3. PICK a : a = Alloc(m)
    OBVIOUS
  <2>4. /\ a \in Memory /\ a.out = "ok" /\ a.free = m.free \ {f}
        /\ a.tab = [m.tab EXCEPT ![f] = Zeroed] /\ a.pgdir = m.pgdir
    BY <1>1, <1>5, <2>1, <2>3, AllocFacts
  <2>5. k = [a EXCEPT !.tab[t][i] = f]
    BY <1>5, <2>1, <2>3, <2>4 DEF Ensure
  <2>6. PICK tab2 : tab2 = [a.tab EXCEPT ![t][i] = f]
    OBVIOUS
  <2>7. k = [a EXCEPT !.tab = tab2]
    BY <2>4, <2>5, <2>6 DEF Memory
  <2>8. Sound(m.free \ {f}, tab2, m.pgdir, up,
              [lv EXCEPT ![f] = lv[t] + 1], [par EXCEPT ![f] = <<t, i>>],
              IF t \in kern THEN kern \cup {f} ELSE kern)
    BY <1>1, <1>2, <1>5, <2>2, <2>4, <2>6, LinkTable
  <2>9. tab2 \in [Frames -> [Index -> Entry]]
    BY <2>8 DEF Sound, Typed
  <2>10. /\ k \in Memory /\ k.free = m.free \ {f} /\ k.tab = tab2 /\ k.pgdir = m.pgdir
    BY <2>4, <2>7, <2>9 DEF Memory
  <2>11. tab2[t][i] = f
    <3>1. a.tab \in [Frames -> [Index -> Entry]]
      BY <2>4 DEF Memory
    <3> QED BY <3>1, <2>6, <1>1
  <2>12. /\ [lv EXCEPT ![f] = lv[t] + 1][f] = n + 1
         /\ (f \in (IF t \in kern THEN kern \cup {f} ELSE kern)) <=> ~IsUser(va)
    <3>1. f \notin kern
      BY <1>2, <2>2, FreeUnreferenced
    <3>2. lv \in [Frames -> 0 .. 5]
      BY <1>2 DEF Sound, Ghosts
    <3> QED BY <3>1, <3>2, <2>2, <1>2
  <2>13. At(k, up, f, n + 1, va)
    BY <2>2, <2>8, <2>10, <2>12 DEF At
  <2>14. Consistent(k.free, k.tab, k.pgdir, up)
    BY <2>8, <2>10 DEF Consistent
  <2> QED BY <2>10, <2>11, <2>13, <2>14
<1> QED BY <1>3, <1>4, <1>5

\* The root of the walk: slot 2 is present, another one is made if it is not.
LEMMA RootStep ==
  ASSUME NEW m, NEW up, NEW va, NEW i \in L4, i = va[1], Mapped(m, up), m.out = "ok",
         NEW k, k = EnsureRoot(m, i)
  PROVE  /\ k \in Memory /\ Consistent(k.free, k.tab, k.pgdir, up)
         /\ k.pgdir[UserSlot] = m.pgdir[UserSlot]
         /\ k.out = "ok" => At(k, up, k.pgdir[i], 1, va)
<1>1. m \in Memory
  BY DEF Mapped
<1>2. PICK lv, par, kern : Sound(m.free, m.tab, m.pgdir, up, lv, par, kern)
  BY DEF Mapped, Consistent
<1>3. PICK p \in Pids : up[p] # 0 /\ m.pgdir[UserSlot] = up[p]
  BY DEF Mapped
<1>4. CASE m.pgdir[i] # 0
  <2>1. k = m
    BY <1>4 DEF EnsureRoot
  <2>2. m.pgdir[i] \in Frames
    BY <1>1, <1>4 DEF Memory
  <2>3. CASE i = UserSlot
    <3>1. lv[m.pgdir[i]] = 1 /\ m.pgdir[i] \notin kern
      BY <2>3, <1>2, <1>3 DEF Sound, ProcsOK
    <3>2. IsUser(va)
      BY <2>3 DEF UserSlot, IsUser
    <3> QED BY <3>1, <3>2, <2>1, <2>2, <1>1, <1>2 DEF At, Consistent
  <2>4. CASE i # UserSlot
    <3>1. lv[m.pgdir[i]] = 1 /\ (m.pgdir[i] \in kern <=> i < UserSlot)
      BY <2>4, <1>2, <1>4 DEF Sound, SlotsOK, Shared
    <3>2. i < UserSlot <=> ~IsUser(va)
      BY DEF L4, UserSlot, IsUser
    <3> QED BY <3>1, <3>2, <2>1, <2>2, <1>1, <1>2 DEF At, Consistent
  <2> QED BY <2>3, <2>4
<1>5. CASE m.pgdir[i] = 0 /\ m.free = {}
  <2>1. k = Alloc(m) /\ Alloc(m).out # "ok"
    BY <1>1, <1>5, AllocFacts DEF EnsureRoot
  <2> QED BY <2>1, <1>1, <1>2, <1>5, AllocFacts DEF Consistent
<1>6. CASE m.pgdir[i] = 0 /\ m.free # {}
  <2>1. PICK f : f = Least(m.free)
    OBVIOUS
  <2>2. f \in m.free /\ f \in Frames
    BY <1>1, <1>6, <2>1, AllocFacts
  <2>3. PICK a : a = Alloc(m)
    OBVIOUS
  <2>4. /\ a \in Memory /\ a.out = "ok" /\ a.free = m.free \ {f}
        /\ a.tab = [m.tab EXCEPT ![f] = Zeroed] /\ a.pgdir = m.pgdir
    BY <1>1, <1>6, <2>1, <2>3, AllocFacts
  <2>5. k = [a EXCEPT !.pgdir[i] = f]
    BY <1>6, <2>1, <2>3, <2>4 DEF EnsureRoot
  <2>6. PICK dir2 : dir2 = [m.pgdir EXCEPT ![i] = f]
    OBVIOUS
  <2>7. i \in Shared /\ i # UserSlot
    BY <1>3, <1>6 DEF Shared
  <2>8. Sound(m.free \ {f}, a.tab, dir2, up, [lv EXCEPT ![f] = 1], [par EXCEPT ![f] = <<0, i>>],
              IF i < UserSlot THEN kern \cup {f} ELSE kern)
    <3>1. Sound(m.free \ {f}, [m.tab EXCEPT ![f] = Zeroed], [m.pgdir EXCEPT ![i] = f], up,
                [lv EXCEPT ![f] = 1], [par EXCEPT ![f] = <<0, i>>],
                IF i < UserSlot THEN kern \cup {f} ELSE kern)
      BY <1>2, <1>6, <2>2, <2>7, LinkSlot, ZenonT(90)
    <3> QED BY <3>1, <2>4, <2>6
  <2>9. dir2 \in [L4 -> Frames \cup {0}] /\ dir2[i] = f /\ dir2[UserSlot] = m.pgdir[UserSlot]
    <3>1. m.pgdir \in [L4 -> Frames \cup {0}] /\ UserSlot \in L4
      BY <1>1 DEF Memory, L4, UserSlot
    <3> QED BY <3>1, <2>2, <2>6, <2>7
  <2>10. k = [a EXCEPT !.pgdir = dir2]
    BY <2>4, <2>5, <2>6 DEF Memory
  <2>11. /\ k \in Memory /\ k.free = m.free \ {f} /\ k.tab = a.tab /\ k.pgdir = dir2
    BY <2>4, <2>9, <2>10 DEF Memory
  <2>12. /\ [lv EXCEPT ![f] = 1][f] = 1
         /\ (f \in (IF i < UserSlot THEN kern \cup {f} ELSE kern)) <=> ~IsUser(va)
    <3>1. f \notin kern
      BY <1>2, <2>2, FreeUnreferenced
    <3>2. lv \in [Frames -> 0 .. 5]
      BY <1>2 DEF Sound, Ghosts
    <3>3. i < UserSlot <=> ~IsUser(va)
      BY DEF L4, UserSlot, IsUser
    <3> QED BY <3>1, <3>2, <3>3, <2>2
  <2>13. At(k, up, f, 1, va)
    BY <2>2, <2>8, <2>11, <2>12 DEF At
  <2>14. Consistent(k.free, k.tab, k.pgdir, up)
    BY <2>8, <2>11 DEF Consistent
  <2> QED BY <2>9, <2>11, <2>13, <2>14
<1> QED BY <1>4, <1>5, <1>6

\* The last level.
LEMMA LeafStep ==
  ASSUME NEW m, NEW up, NEW t, NEW va, NEW i \in Index,
         At(m, up, t, 3, va), m.out = "ok",
         NEW k, k = Leaf(m, t, i, va)
  PROVE  k \in Memory /\ Consistent(k.free, k.tab, k.pgdir, up) /\ k.pgdir = m.pgdir
<1>1. CASE IsUser(va)
  <2>1. k = Ensure(m, t, i)
    BY <1>1 DEF Leaf
  <2>2. PICK n \in 1 .. 3 : n = 3
    OBVIOUS
  <2>3. At(m, up, t, n, va)
    BY <2>2
  <2> QED BY <2>1, <2>3, <1>1, EnsureStep
<1>2. CASE ~IsUser(va)
  <2>1. m \in Memory /\ t \in Frames
    BY DEF At
  <2>2. PICK lv, par, kern : /\ Sound(m.free, m.tab, m.pgdir, up, lv, par, kern)
                             /\ lv[t] = 3 /\ t \in kern
    BY <1>2 DEF At
  <2>3. CASE m.tab[t][i] # 0
    <3>1. k = m
      BY <1>2, <2>3 DEF Leaf
    <3> QED BY <3>1, <2>1, <2>2 DEF Consistent
  <2>4. CASE m.tab[t][i] = 0
    <3>1. k = [m EXCEPT !.tab[t][i] = Direct]
      BY <1>2, <2>4 DEF Leaf
    <3>2. PICK tab2 : tab2 = [m.tab EXCEPT ![t][i] = Direct]
      OBVIOUS
    <3>3. Sound(m.free, tab2, m.pgdir, up, lv, par, kern)
      BY <2>2, <2>4, <3>2, LinkDirect
    <3>4. tab2 \in [Frames -> [Index -> Entry]]
      BY <3>3 DEF Sound, Typed
    <3>5. k = [m EXCEPT !.tab = tab2]
      BY <2>1, <3>1, <3>2 DEF Memory
    <3>6. k \in Memory /\ k.free = m.free /\ k.tab = tab2 /\ k.pgdir = m.pgdir
      BY <2>1, <3>4, <3>5 DEF Memory
    <3> QED BY <3>3, <3>6 DEF Consistent
  <2> QED BY <2>3, <2>4
<1> QED BY <1>1, <1>2

\* walk_pgdir() keeps the memory consistent, through every failure.
LEMMA WalkStep ==
  ASSUME NEW m, NEW up, NEW va \in Addresses, Mapped(m, up), m.out = "ok",
         NEW k, k = walk_pgdir(m, va)
  PROVE  Mapped(k, up) /\ k.pgdir[UserSlot] = m.pgdir[UserSlot]
<1>1. va[1] \in L4 /\ va[2] \in Index /\ va[3] \in Index /\ va[4] \in Index
  BY DEF Addresses
<1>2. PICK m4 : m4 = EnsureRoot(m, va[1])
  OBVIOUS
<1>3. PICK pdpt : pdpt = m4.pgdir[va[1]]
  OBVIOUS
<1>4. PICK m3 : m3 = Ensure(m4, pdpt, va[2])
  OBVIOUS
<1>5. PICK pd : pd = m3.tab[pdpt][va[2]]
  OBVIOUS
<1>6. PICK m2 : m2 = Ensure(m3, pd, va[3])
  OBVIOUS
<1>7. PICK pt : pt = m2.tab[pd][va[3]]
  OBVIOUS
<1>8. k = IF m4.out # "ok" THEN m4
          ELSE IF m3.out # "ok" THEN m3
          ELSE IF m2.out # "ok" \/ pt = Direct THEN m2
          ELSE Leaf(m2, pt, va[4], va)
  BY <1>2, <1>3, <1>4, <1>5, <1>6, <1>7 DEF walk_pgdir
<1> DEFINE Fine(n) == /\ n \in Memory /\ Consistent(n.free, n.tab, n.pgdir, up)
                      /\ n.pgdir[UserSlot] = m.pgdir[UserSlot]
<1>9. Fine(m4) /\ (m4.out = "ok" => At(m4, up, pdpt, 1, va))
  BY <1>1, <1>2, <1>3, RootStep
<1>10. CASE m4.out # "ok"
  BY <1>8, <1>9, <1>10 DEF Mapped
<1>11. CASE m4.out = "ok"
  <2>1. 1 \in 1 .. 3 /\ 2 \in 1 .. 3 /\ 1 # 3 /\ 2 # 3 /\ 1 + 1 = 2 /\ 2 + 1 = 3
    OBVIOUS
  <2>2. Fine(m3) /\ (m3.out = "ok" => At(m3, up, pd, 2, va))
    BY <2>1, <1>1, <1>4, <1>5, <1>9, <1>11, EnsureStep
  <2>3. CASE m3.out # "ok"
    BY <1>8, <1>11, <2>2, <2>3 DEF Mapped
  <2>4. CASE m3.out = "ok"
    <3>1. Fine(m2) /\ (m2.out = "ok" => pt = Direct \/ At(m2, up, pt, 3, va))
      BY <2>1, <2>2, <2>4, <1>1, <1>6, <1>7, EnsureStep
    <3>2. CASE m2.out # "ok" \/ pt = Direct
      BY <3>1, <3>2, <2>4, <1>8, <1>11 DEF Mapped
    <3>3. CASE m2.out = "ok" /\ pt # Direct
      <4>1. k = Leaf(m2, pt, va[4], va)
        BY <3>3, <2>4, <1>8, <1>11
      <4>2. Fine(k)
        BY <4>1, <3>1, <3>3, <1>1, LeafStep
      <4> QED BY <4>2 DEF Mapped
    <3> QED BY <3>2, <3>3
  <2> QED BY <2>3, <2>4
<1> QED BY <1>10, <1>11

\* What a walk finds: a frame in the user's half, nothing but the identity mapping in
\* the kernel's.
LEMMA LookupFacts ==
  ASSUME NEW m \in Memory, NEW up, NEW va \in Addresses,
         Consistent(m.free, m.tab, m.pgdir, up),
         m.pgdir[UserSlot] # 0 => \E p \in Pids : m.pgdir[UserSlot] = up[p]
  PROVE  /\ Lookup(m, va) \in Entry
         /\ IsUser(va) => Lookup(m, va) # Direct
         /\ ~IsUser(va) => Lookup(m, va) \in {0, Direct}
<1>1. va[1] \in L4 /\ va[2] \in Index /\ va[3] \in Index /\ va[4] \in Index
  BY DEF Addresses
<1>2. PICK lv, par, kern : Sound(m.free, m.tab, m.pgdir, up, lv, par, kern)
  BY DEF Consistent
<1>3. PICK pdpt : pdpt = m.pgdir[va[1]]
  OBVIOUS
<1>4. PICK pd : pd = m.tab[pdpt][va[2]]
  OBVIOUS
<1>5. PICK pt : pt = m.tab[pd][va[3]]
  OBVIOUS
<1>6. Lookup(m, va) = IF pdpt = 0 THEN 0 ELSE IF pd = 0 THEN 0
                      ELSE IF pt \in {0, Direct} THEN pt ELSE m.tab[pt][va[4]]
  BY <1>3, <1>4, <1>5 DEF Lookup
<1>7. 0 \in Entry /\ Direct \in Entry /\ Direct # 0
  BY FrameFacts DEF Entry
<1>8. CASE pdpt = 0
  BY <1>6, <1>7, <1>8
<1>9. CASE pdpt # 0
  <2>1. pdpt \in Frames
    BY <1>1, <1>3, <1>9 DEF Memory
  <2>2. lv[pdpt] = 1 /\ (pdpt \in kern <=> ~IsUser(va))
    <3>1. CASE va[1] = UserSlot
      BY <3>1, <1>2, <1>3, <1>9 DEF Sound, ProcsOK, IsUser, UserSlot
    <3>2. CASE va[1] # UserSlot
      <4>1. va[1] \in Shared /\ (va[1] < UserSlot <=> ~IsUser(va))
        BY <3>2, <1>1 DEF Shared, IsUser, UserSlot, L4
      <4> QED BY <4>1, <1>2, <1>3, <1>9 DEF Sound, SlotsOK
    <3> QED BY <3>1, <3>2
  <2>3. pd \in Entry /\ pd # Direct
    <3>1. pd \in Entry
      BY <2>1, <1>1, <1>4 DEF Memory
    <3>2. pd # Direct
      BY <2>1, <2>2, <1>1, <1>2, <1>4 DEF Sound, HalvesOK
    <3> QED BY <3>1, <3>2
  <2>4. CASE pd = 0
    BY <2>4, <1>6, <1>7, <1>9
  <2>5. CASE pd # 0
    <3>1. pd \in Frames
      BY <2>3, <2>5 DEF Entry
    <3>2. lv[pd] = 2 /\ (pd \in kern <=> ~IsUser(va))
      BY <3>1, <2>1, <2>2, <1>1, <1>2, <1>4 DEF Sound, TablesOK
    <3>3. pt \in Entry
      BY <3>1, <1>1, <1>5 DEF Memory
    <3>4. IsUser(va) => pt # Direct
      BY <3>1, <3>2, <1>1, <1>2, <1>5 DEF Sound, HalvesOK
    <3>5. CASE pt \in {0, Direct}
      <4>1. Lookup(m, va) = pt
        BY <3>5, <2>5, <1>6, <1>9
      <4> QED BY <4>1, <3>3, <3>4, <3>5
    <3>6. CASE pt \notin {0, Direct}
      <4>1. pt \in Frames
        BY <3>3, <3>6 DEF Entry
      <4>2. lv[pt] = 3 /\ (pt \in kern <=> ~IsUser(va))
        BY <4>1, <3>1, <3>2, <1>1, <1>2, <1>5 DEF Sound, TablesOK
      <4>3. Lookup(m, va) = m.tab[pt][va[4]]
        BY <3>6, <2>5, <1>6, <1>9
      <4>4. m.tab[pt][va[4]] \in Entry
        BY <4>1, <1>1 DEF Memory
      <4>5. IsUser(va) => m.tab[pt][va[4]] # Direct
        BY <4>1, <4>2, <1>1, <1>2 DEF Sound, HalvesOK
      <4>6. ~IsUser(va) => m.tab[pt][va[4]] \notin Frames
        BY <4>1, <4>2, <1>1, <1>2 DEF Sound, HalvesOK
      <4> QED BY <4>3, <4>4, <4>5, <4>6 DEF Entry
    <3> QED BY <3>5, <3>6
  <2> QED BY <2>4, <2>5
<1> QED BY <1>8, <1>9

\* Slot 2 of the PML4 is not an owner: writing it keeps the memory consistent.
LEMMA SwitchFacts ==
  ASSUME NEW m \in Memory, NEW up, Consistent(m.free, m.tab, m.pgdir, up),
         NEW root \in Frames \cup {0}, NEW k, k = switch_uvm(m, root)
  PROVE  /\ k \in Memory /\ Consistent(k.free, k.tab, k.pgdir, up)
         /\ k.pgdir[UserSlot] = root /\ k.out = m.out
<1>1. PICK lv, par, kern : Sound(m.free, m.tab, m.pgdir, up, lv, par, kern)
  BY DEF Consistent
<1>2. PICK dir2 : dir2 = [m.pgdir EXCEPT ![UserSlot] = root]
  OBVIOUS
<1>3. m.pgdir \in [L4 -> Frames \cup {0}] /\ UserSlot \in L4
  BY DEF Memory, L4, UserSlot
<1>4. /\ dir2 \in [L4 -> Frames \cup {0}] /\ dir2[UserSlot] = root
      /\ \A i \in Shared : dir2[i] = m.pgdir[i]
  BY <1>2, <1>3 DEF Shared
<1>5. k = [m EXCEPT !.pgdir = dir2]
  BY <1>2 DEF switch_uvm, Memory
<1>6. /\ k \in Memory /\ k.free = m.free /\ k.tab = m.tab /\ k.pgdir = dir2 /\ k.out = m.out
  BY <1>4, <1>5 DEF Memory
<1>7. Typed(m.free, m.tab, dir2, up)
  BY <1>1, <1>4 DEF Sound, Typed
<1>8. SlotsOK(dir2, lv, par, kern)
  BY <1>1, <1>4 DEF Sound, SlotsOK
<1>9. OwnedOK(m.tab, dir2, up, lv)
  BY <1>1, <1>4 DEF Sound, OwnedOK
<1>10. Sound(m.free, m.tab, dir2, up, lv, par, kern)
  BY <1>1, <1>7, <1>8, <1>9 DEF Sound
<1> QED BY <1>4, <1>6, <1>10 DEF Consistent

\* What vm_init() writes, as a record: the kernel's PDPT, its PD and the PML4.
BootTab ==
  [[[f \in Frames |-> Zeroed] EXCEPT ![2] = [Zeroed EXCEPT ![0] = 3]]
     EXCEPT ![3] = [i \in Index |-> Direct]]

BootDir == [[i \in L4 |-> 0] EXCEPT ![0] = 2]

LEMMA BootRecord ==
  ASSUME NEW m, NEW k,
         m = [free |-> Frames, twice |-> {}, tab |-> [f \in Frames |-> Zeroed],
              pgdir |-> [i \in L4 |-> 0], out |-> "ok"],
         k = [m EXCEPT !.free = @ \ {1, 2, 3}, !.pgdir[0] = 2, !.tab[2][0] = 3,
                       !.tab[3] = [i \in Index |-> Direct]]
  PROVE  k = [free |-> Frames \ {1, 2, 3}, twice |-> {}, tab |-> BootTab, pgdir |-> BootDir, out |-> "ok"]
<1>1. PICK dirs : dirs = [i \in Index |-> Direct]
  OBVIOUS
<1>2. PICK pd : pd = [Zeroed EXCEPT ![0] = 3]
  OBVIOUS
<1>3. PICK tab0 : tab0 = [f \in Frames |-> Zeroed]
  OBVIOUS
<1>4. PICK free2 : free2 = Frames \ {1, 2, 3}
  OBVIOUS
<1>5. PICK k1 : k1 = [m EXCEPT !.free = @ \ {1, 2, 3}]
  OBVIOUS
<1>6. k1 = [free |-> free2, twice |-> {}, tab |-> tab0, pgdir |-> [i \in L4 |-> 0], out |-> "ok"]
  BY <1>3, <1>4, <1>5
<1>7. PICK k2 : k2 = [k1 EXCEPT !.pgdir[0] = 2]
  OBVIOUS
<1>8. k2 = [free |-> free2, twice |-> {}, tab |-> tab0, pgdir |-> BootDir, out |-> "ok"]
  BY <1>6, <1>7 DEF BootDir
<1>9. PICK k3 : k3 = [k2 EXCEPT !.tab[2][0] = 3]
  OBVIOUS
<1>10. PICK tab1 : tab1 = [tab0 EXCEPT ![2] = pd]
  OBVIOUS
<1>11. tab1 = [tab0 EXCEPT ![2][0] = 3]
  <2>1. tab0[2] = Zeroed
    BY <1>3, FrameFacts
  <2> QED BY <2>1, <1>2, <1>10
<1>12. k3 = [free |-> free2, twice |-> {}, tab |-> tab1, pgdir |-> BootDir, out |-> "ok"]
  BY <1>8, <1>9, <1>11
<1>13. k = [k3 EXCEPT !.tab[3] = dirs]
  BY <1>1, <1>5, <1>7, <1>9
<1>14. BootTab = [tab1 EXCEPT ![3] = dirs]
  BY <1>1, <1>2, <1>3, <1>10 DEF BootTab
<1> QED BY <1>4, <1>12, <1>13, <1>14

\* vm_init() builds a consistent memory.
LEMMA BootFacts ==
  ASSUME NEW k, NEW up, up = [p \in Pids |-> 0],
         k = [free |-> Frames \ {1, 2, 3}, twice |-> {}, tab |-> BootTab, pgdir |-> BootDir, out |-> "ok"]
  PROVE  /\ k \in Memory /\ Consistent(k.free, k.tab, k.pgdir, up)
         /\ k.out = "ok" /\ k.pgdir[UserSlot] = 0
<1>1. Zeroed \in [Index -> Entry] /\ \A i \in Index : Zeroed[i] = 0
  BY DEF Zeroed, Entry
<1>2. 0 \in Index /\ 0 \in L4 /\ UserSlot \in L4 /\ UserSlot # 0 /\ 0 \in Shared
  BY DEF Index, L4, UserSlot, Shared
<1>3. 2 \in Entry /\ 3 \in Entry /\ 0 \in Entry /\ Direct \in Entry
  BY FrameFacts DEF Entry
<1>4. PICK dirs : dirs = [i \in Index |-> Direct]
  OBVIOUS
<1>5. dirs \in [Index -> Entry] /\ \A i \in Index : dirs[i] = Direct
  BY <1>3, <1>4
<1>6. PICK pd : pd = [Zeroed EXCEPT ![0] = 3]
  OBVIOUS
<1>7. pd \in [Index -> Entry] /\ pd[0] = 3 /\ \A i \in Index : i # 0 => pd[i] = 0
  BY <1>1, <1>2, <1>3, <1>6
<1>8. PICK tab2 : tab2 = BootTab
  OBVIOUS
<1>9. PICK dir2 : dir2 = BootDir
  OBVIOUS
<1>10. /\ tab2 \in [Frames -> [Index -> Entry]] /\ tab2[2] = pd /\ tab2[3] = dirs
       /\ \A f \in Frames : f # 2 /\ f # 3 => tab2[f] = Zeroed
  <2>1. PICK tab1 : tab1 = [[f \in Frames |-> Zeroed] EXCEPT ![2] = pd]
    OBVIOUS
  <2>2. /\ tab1 \in [Frames -> [Index -> Entry]] /\ tab1[2] = pd
        /\ \A f \in Frames : f # 2 => tab1[f] = Zeroed
    BY <2>1, <1>1, <1>7, FrameFacts
  <2>3. tab2 = [tab1 EXCEPT ![3] = dirs]
    BY <2>1, <1>4, <1>6, <1>8 DEF BootTab
  <2> QED BY <2>2, <2>3, <1>5, FrameFacts
<1>11. /\ dir2 \in [L4 -> Frames \cup {0}] /\ dir2[0] = 2
       /\ \A i \in L4 : i # 0 => dir2[i] = 0
  BY <1>2, <1>9, FrameFacts DEF BootDir
<1>12. /\ k \in Memory /\ k.free = Frames \ {1, 2, 3} /\ k.tab = tab2 /\ k.pgdir = dir2
       /\ k.out = "ok"
  BY <1>8, <1>9, <1>10, <1>11 DEF Memory, Outcomes
<1> DEFINE lv == [f \in Frames |-> IF f = 1 THEN 5 ELSE IF f = 2 THEN 1 ELSE IF f = 3 THEN 2 ELSE 0]
           par == [f \in Frames |-> IF f = 3 THEN <<2, 0>> ELSE <<0, 0>>]
           kern == {2, 3}
<1>13. /\ lv \in [Frames -> 0 .. 5] /\ lv[1] = 5 /\ lv[2] = 1 /\ lv[3] = 2
       /\ \A f \in Frames : f \notin {1, 2, 3} => lv[f] = 0
  BY FrameFacts
<1>14. par \in [Frames -> Int \X Int] /\ par[2] = <<0, 0>> /\ par[3] = <<2, 0>>
  BY FrameFacts
<1>15. kern \subseteq Frames /\ \A f : f \in kern <=> f = 2 \/ f = 3
  BY FrameFacts
<1> HIDE DEF lv, par, kern
<1>16. Typed(k.free, k.tab, k.pgdir, up)
  BY <1>10, <1>11, <1>12 DEF Typed
<1>17. Ghosts(lv, par, kern)
  BY <1>13, <1>14, <1>15 DEF Ghosts
<1>18. Levelled(k.free, lv, kern)
  BY <1>12, <1>13, <1>15 DEF Levelled
<1>19. SlotsOK(k.pgdir, lv, par, kern)
  <2> SUFFICES ASSUME NEW i \in Shared, dir2[i] # 0
               PROVE  lv[dir2[i]] = 1 /\ par[dir2[i]] = <<0, i>> /\ (dir2[i] \in kern <=> i < UserSlot)
    BY <1>12 DEF SlotsOK
  <2>1. i = 0
    BY <1>11 DEF Shared
  <2>2. 0 < UserSlot
    BY DEF UserSlot
  <2> QED BY <2>1, <2>2, <1>11, <1>13, <1>14, <1>15
<1>20. ProcsOK(up, lv, par, kern)
  BY DEF ProcsOK
<1>21. \A t \in Frames, i \in Index : lv[t] \in 1 .. 3 /\ k.tab[t][i] \in Frames =>
          t = 2 /\ i = 0 /\ k.tab[t][i] = 3
  <2> SUFFICES ASSUME NEW t \in Frames, NEW i \in Index, lv[t] \in 1 .. 3, tab2[t][i] \in Frames
               PROVE  t = 2 /\ i = 0 /\ tab2[t][i] = 3
    BY <1>12
  <2>1. t = 2 \/ t = 3
    BY <1>13
  <2>2. t # 3
    BY <1>5, <1>10, FrameFacts
  <2> QED BY <2>1, <2>2, <1>7, <1>10, FrameFacts
<1>22. TablesOK(k.tab, lv, par, kern)
  <2> SUFFICES ASSUME NEW t \in Frames, NEW i \in Index, lv[t] \in 1 .. 3, k.tab[t][i] \in Frames
               PROVE  /\ lv[k.tab[t][i]] = lv[t] + 1 /\ par[k.tab[t][i]] = <<t, i>>
                      /\ k.tab[t][i] \in kern <=> t \in kern
    BY DEF TablesOK
  <2>1. t = 2 /\ i = 0 /\ k.tab[t][i] = 3
    BY <1>21
  <2>2. lv[3] = lv[2] + 1
    BY <1>13
  <2> QED BY <2>1, <2>2, <1>14, <1>15
<1>23. HalvesOK(k.tab, lv, kern)
  <2> SUFFICES ASSUME NEW t \in Frames, NEW i \in Index
               PROVE  /\ lv[t] = 1 => tab2[t][i] # Direct
                      /\ lv[t] \in 1 .. 3 /\ t \notin kern => tab2[t][i] # Direct
                      /\ lv[t] = 3 /\ t \in kern => tab2[t][i] \notin Frames
    BY <1>12 DEF HalvesOK
  <2>1. lv[t] = 1 => tab2[t][i] # Direct
    BY <1>7, <1>10, <1>13, FrameFacts
  <2> QED BY <2>1, <1>13, <1>15
<1>24. OwnedOK(k.tab, k.pgdir, up, lv)
  <2> SUFFICES ASSUME NEW g \in Frames, lv[g] \in 1 .. 4
               PROVE  \/ \E i \in Shared : k.pgdir[i] = g
                      \/ \E t \in Frames, i \in Index : lv[t] \in 1 .. 3 /\ k.tab[t][i] = g
    BY DEF OwnedOK
  <2>1. g = 2 \/ g = 3
    BY <1>13
  <2>2. k.pgdir[0] = 2 /\ 2 \in Frames /\ lv[2] \in 1 .. 3 /\ k.tab[2][0] = 3
    BY <1>7, <1>10, <1>11, <1>12, <1>13, FrameFacts
  <2> QED BY <2>1, <2>2, <1>2
<1>25. Sound(k.free, k.tab, k.pgdir, up, lv, par, kern)
  BY <1>16, <1>17, <1>18, <1>19, <1>20, <1>22, <1>23, <1>24 DEF Sound
<1> QED BY <1>2, <1>11, <1>12, <1>25 DEF Consistent

-----------------------------------------------------------------------------
(* The steps of the kernel.                                                *)

ProcTable == [Pids -> [stat : {"UNUSED", "SET", "RUN"}, upml4 : Frames \cup {0}]]

Roots(ps) == [p \in Pids |-> ps[p].upml4]

Owned(m, ps) == m \in Memory /\ ps \in ProcTable /\ Consistent(m.free, m.tab, m.pgdir, Roots(ps))

\* The mapping of slot 2 that each part of the kernel runs with.
Slot2 ==
  /\ mode = "vm_init" =>
       /\ mem = [free |-> Frames, twice |-> {}, tab |-> [f \in Frames |-> Zeroed],
                 pgdir |-> [i \in L4 |-> 0], out |-> "ok"]
       /\ procs = [p \in Pids |-> [stat |-> "UNUSED", upml4 |-> 0]]
  /\ mode = "uinit" => procs[1].upml4 = 0 /\ procs[2].upml4 = 0 /\ mem.pgdir[UserSlot] = 0
  /\ Running /\ mode \in {"user", "spin"} =>
       procs[1].upml4 # 0 /\ mem.pgdir[UserSlot] = procs[1].upml4
  /\ Running /\ mode = "user" => procs[2].upml4 = 0
  /\ Running /\ mode \in {"ehdr", "phdr", "load"} =>
       procs[1].upml4 # 0 /\ procs[2].upml4 # 0 /\ mem.pgdir[UserSlot] = procs[2].upml4

Types == VMTypeOK /\ mem.twice = {}

VMInv == Types /\ (mode # "vm_init" => Owned(mem, procs)) /\ Slot2

\* palloc() panics, or gives the process a PDPT of its own.
LEMMA PallocFacts ==
  ASSUME Owned(mem, procs), mem.out = "ok", NEW p \in Pids, procs[p].upml4 = 0,
         NEW a, a = palloc(p)
  PROVE  /\ Owned(a[1], a[2]) /\ a[1].pgdir = mem.pgdir
         /\ a[1].out # "ok" => a[2] = procs
         /\ a[1].out = "ok" => /\ a[2][p].upml4 \in Frames
                               /\ \A q \in Pids : q # p => a[2][q] = procs[q]
<1>1. /\ mem \in Memory /\ procs \in ProcTable
      /\ Consistent(mem.free, mem.tab, mem.pgdir, Roots(procs))
  BY DEF Owned
<1>2. CASE mem.free = {}
  <2>1. a[1] = Alloc(mem) /\ a[2] = procs
    BY <1>2 DEF palloc, Alloc
  <2> QED BY <2>1, <1>1, <1>2, AllocFacts DEF Owned
<1>3. CASE mem.free # {}
  <2>1. PICK f : f = Least(mem.free)
    OBVIOUS
  <2>2. a[1] = Alloc(mem) /\ a[2] = [procs EXCEPT ![p] = [stat |-> "SET", upml4 |-> f]]
    BY <1>3, <2>1 DEF palloc
  <2>3. /\ f \in mem.free /\ f \in Frames /\ a[1] \in Memory /\ a[1].out = mem.out
        /\ a[1].free = mem.free \ {f} /\ a[1].tab = [mem.tab EXCEPT ![f] = Zeroed]
        /\ a[1].pgdir = mem.pgdir
    BY <1>1, <1>3, <2>1, <2>2, AllocFacts
  <2>4. /\ a[2] \in ProcTable /\ a[2][p].upml4 = f
        /\ \A q \in Pids : q # p => a[2][q] = procs[q]
    BY <1>1, <2>2, <2>3 DEF ProcTable
  <2>5. Roots(a[2]) = [Roots(procs) EXCEPT ![p] = f]
    BY <1>1, <2>4 DEF Roots, ProcTable
  <2>6. PICK lv, par, kern : Sound(mem.free, mem.tab, mem.pgdir, Roots(procs), lv, par, kern)
    BY <1>1 DEF Consistent
  <2>7. Roots(procs)[p] = 0
    BY DEF Roots
  <2>8. Sound(mem.free \ {f}, [mem.tab EXCEPT ![f] = Zeroed], mem.pgdir, [Roots(procs) EXCEPT ![p] = f],
              [lv EXCEPT ![f] = 1], [par EXCEPT ![f] = <<-1, p>>], kern)
    BY <2>3, <2>6, <2>7, LinkProc
  <2>9. Consistent(a[1].free, a[1].tab, a[1].pgdir, Roots(a[2]))
    BY <2>3, <2>5, <2>8 DEF Consistent
  <2> QED BY <2>3, <2>4, <2>9 DEF Owned
<1> QED BY <1>2, <1>3

\* An access, with the page fault it may take.
LEMMA AccessFacts ==
  ASSUME tlb \in [VAddrs -> Entry], NEW va \in VAddrs, NEW m, NEW up, Mapped(m, up), m.out = "ok",
         NEW n, n = Accessed(m, va)
  PROVE  /\ Mapped(n, up) /\ n.pgdir[UserSlot] = m.pgdir[UserSlot]
         /\ FrameOf(m, va) \in Entry
<1>1. va \in Addresses
  BY VMAssumption DEF Addresses
<1>2. PICK k : k = Fault(m, va)
  OBVIOUS
<1>3. Mapped(k, up) /\ k.pgdir[UserSlot] = m.pgdir[UserSlot]
  BY <1>1, <1>2, WalkStep DEF Fault
<1>4. Lookup(k, va) \in Entry
  <2>1. k \in Memory /\ Consistent(k.free, k.tab, k.pgdir, up)
        /\ \E p \in Pids : k.pgdir[UserSlot] = up[p]
    BY <1>3 DEF Mapped
  <2> QED BY <2>1, <1>1, LookupFacts
<1>5. FrameOf(m, va) = IF tlb[va] # 0 THEN tlb[va] ELSE Lookup(k, va)
  BY <1>2 DEF FrameOf
<1>6. n = m \/ n = k
  BY <1>2 DEF Accessed
<1> QED BY <1>3, <1>4, <1>5, <1>6

LEMMA TypeParts ==
  Types <=> /\ mem \in Memory /\ procs \in ProcTable /\ tlb \in [VAddrs -> Entry]
               /\ mode \in {"vm_init", "uinit", "user", "ehdr", "phdr", "load", "spin"}
               /\ left \in 0 .. MaxPhnum /\ seg \subseteq VAddrs /\ loaded \subseteq VAddrs \X Entry
BY DEF Types, VMTypeOK, Memory, Outcomes, ProcTable

\* The boot code leaves a memory and a process table that satisfy the invariant.
LEMMA InitOK == VMInit => VMInv
<1> SUFFICES ASSUME VMInit PROVE VMInv
  OBVIOUS
<1>1. Slot2
  BY DEF VMInit, Slot2
<1>2. mem \in Memory
  <2>1. Zeroed \in [Index -> Entry]
    BY DEF Zeroed, Entry
  <2> QED BY <2>1 DEF VMInit, Memory, Outcomes
<1>3. procs \in ProcTable
  BY DEF VMInit, ProcTable
<1>4. tlb \in [VAddrs -> Entry]
  BY DEF VMInit, Entry
<1>5. left \in 0 .. MaxPhnum
  BY VMAssumption DEF VMInit
<1>6. mode = "vm_init" /\ seg = {} /\ loaded = {}
  BY DEF VMInit
<1>7. Types
  BY <1>2, <1>3, <1>4, <1>5, <1>6, TypeParts
<1> QED BY <1>1, <1>6, <1>7 DEF VMInv

LEMMA StepVmInit == VMInv /\ vm_init => VMInv'
<1> SUFFICES ASSUME VMInv, vm_init PROVE VMInv'
  OBVIOUS
<1>1. /\ mem = [free |-> Frames, twice |-> {}, tab |-> [f \in Frames |-> Zeroed],
                pgdir |-> [i \in L4 |-> 0], out |-> "ok"]
      /\ procs = [p \in Pids |-> [stat |-> "UNUSED", upml4 |-> 0]]
  BY DEF VMInv, Slot2, vm_init
<1>2. mem' = [mem EXCEPT !.free = @ \ {1, 2, 3}, !.pgdir[0] = 2, !.tab[2][0] = 3,
                         !.tab[3] = [i \in Index |-> Direct]]
  BY DEF vm_init
<1>3. /\ mode' = "uinit" /\ procs' = procs /\ tlb' = tlb /\ left' = left /\ seg' = seg
      /\ loaded' = loaded
  BY DEF vm_init
<1>4. mem' = [free |-> Frames \ {1, 2, 3}, twice |-> {}, tab |-> BootTab, pgdir |-> BootDir, out |-> "ok"]
  BY <1>1, <1>2, BootRecord, ZenonT(90)
<1>5. Roots(procs) = [p \in Pids |-> 0]
  BY <1>1 DEF Roots
<1>6. /\ mem' \in Memory /\ Consistent(mem'.free, mem'.tab, mem'.pgdir, Roots(procs))
      /\ mem'.pgdir[UserSlot] = 0
  BY <1>4, <1>5, BootFacts
<1>7. Types'
  BY <1>3, <1>6, TypeParts DEF VMInv, Types, VMTypeOK, Memory, Outcomes
<1>8. Owned(mem, procs)'
  BY <1>3, <1>6, TypeParts DEF Owned, VMInv
<1>9. procs[1].upml4 = 0 /\ procs[2].upml4 = 0
  BY <1>1 DEF Pids
<1>10. Slot2'
  BY <1>3, <1>6, <1>9 DEF Slot2
<1> QED BY <1>7, <1>8, <1>10 DEF VMInv

LEMMA ModeFacts ==
  ASSUME VMInv, Running, mode \in {"user", "ehdr", "phdr", "load", "spin"}
  PROVE  Owned(mem, procs) /\ Mapped(mem, Roots(procs))
<1>1. Owned(mem, procs)
  BY DEF VMInv
<1>2. PICK p \in Pids : procs[p].upml4 # 0 /\ mem.pgdir[UserSlot] = procs[p].upml4
  <2>1. 1 \in Pids /\ 2 \in Pids
    BY DEF Pids
  <2>2. CASE mode \in {"user", "spin"}
    BY <2>1, <2>2 DEF VMInv, Slot2
  <2>3. CASE mode \in {"ehdr", "phdr", "load"}
    BY <2>1, <2>3 DEF VMInv, Slot2
  <2> QED BY <2>2, <2>3
<1>3. Roots(procs)[p] = procs[p].upml4
  BY DEF Roots
<1> QED BY <1>1, <1>2, <1>3 DEF Mapped, Owned

LEMMA OwnedTypes == VMInv => /\ mem \in Memory /\ procs \in ProcTable /\ tlb \in [VAddrs -> Entry]
                             /\ left \in 0 .. MaxPhnum /\ seg \subseteq VAddrs
                             /\ loaded \subseteq VAddrs \X Entry
BY TypeParts DEF VMInv

LEMMA TypeNext ==
  (/\ mem \in Memory /\ procs \in ProcTable /\ tlb \in [VAddrs -> Entry]
   /\ mode \in {"vm_init", "uinit", "user", "ehdr", "phdr", "load", "spin"}
   /\ left \in 0 .. MaxPhnum /\ seg \subseteq VAddrs /\ loaded \subseteq VAddrs \X Entry)'
  => Types'
BY TypeParts, PTL

\* uinit(): init gets an address space, and slot 2 is switched to it.
LEMMA StepUinit == VMInv /\ uinit => VMInv'
<1> SUFFICES ASSUME VMInv, uinit PROVE VMInv'
  OBVIOUS
<1>1. /\ Owned(mem, procs) /\ mem.out = "ok" /\ procs[1].upml4 = 0 /\ procs[2].upml4 = 0
  BY DEF VMInv, Slot2, uinit, Running
<1>2. 1 \in Pids /\ 2 \in Pids /\ Start \in VAddrs
  BY VMAssumption DEF Pids
<1>3. PICK a : a = palloc(1)
  OBVIOUS
<1>4. PICK m : m = IF a[1].out # "ok" THEN a[1] ELSE switch_uvm(a[1], a[2][1].upml4)
  OBVIOUS
<1>5. PICK n : n = IF m.out # "ok" THEN m ELSE Accessed(m, Start)
  OBVIOUS
<1>6. /\ mem' = n /\ procs' = [a[2] EXCEPT ![1].stat = "RUN"]
      /\ tlb' = IF n.out # "ok" THEN tlb ELSE [tlb EXCEPT ![Start] = FrameOf(m, Start)]
      /\ mode' = "user" /\ left' = left /\ seg' = seg /\ loaded' = loaded
  BY <1>3, <1>4, <1>5 DEF uinit
<1>7. /\ Owned(a[1], a[2]) /\ a[1].pgdir = mem.pgdir
      /\ a[1].out # "ok" => a[2] = procs
      /\ a[1].out = "ok" => /\ a[2][1].upml4 \in Frames
                            /\ \A q \in Pids : q # 1 => a[2][q] = procs[q]
  BY <1>1, <1>2, <1>3, PallocFacts
<1>8. /\ procs' \in ProcTable /\ Roots(procs') = Roots(a[2])
      /\ \A q \in Pids : procs'[q].upml4 = a[2][q].upml4
  <2>1. a[2] \in ProcTable
    BY <1>7 DEF Owned
  <2>2. procs' \in ProcTable /\ \A q \in Pids : procs'[q].upml4 = a[2][q].upml4
    BY <2>1, <1>2, <1>6 DEF ProcTable
  <2> QED BY <2>2 DEF Roots
<1>9. CASE a[1].out # "ok"
  <2>1. n = a[1]
    BY <1>4, <1>5, <1>9
  <2>2. Owned(mem', procs') /\ mem'.out # "ok" /\ tlb' = tlb
    BY <2>1, <1>6, <1>7, <1>8, <1>9 DEF Owned
  <2>3. Types'
    BY <2>2, <1>6, OwnedTypes, TypeNext DEF Owned
  <2>4. Slot2'
    BY <2>2, <1>6 DEF Slot2, Running
  <2> QED BY <2>2, <2>3, <2>4 DEF VMInv
<1>10. CASE a[1].out = "ok"
  <2>1. a[2][1].upml4 \in Frames /\ a[2][1].upml4 # 0
    BY <1>7, <1>10, FrameFacts
  <2>2. m = switch_uvm(a[1], a[2][1].upml4)
    BY <1>4, <1>10
  <2>3. /\ m \in Memory /\ Consistent(m.free, m.tab, m.pgdir, Roots(a[2]))
        /\ m.pgdir[UserSlot] = a[2][1].upml4 /\ m.out = "ok"
    BY <2>1, <2>2, <1>7, <1>10, SwitchFacts DEF Owned
  <2>4. Mapped(m, Roots(a[2]))
    <3>1. Roots(a[2])[1] = a[2][1].upml4
      BY <1>2 DEF Roots
    <3> QED BY <3>1, <2>1, <2>3, <1>2 DEF Mapped
  <2>5. n = Accessed(m, Start)
    BY <2>3, <1>5
  <2>6. tlb \in [VAddrs -> Entry]
    BY OwnedTypes
  <2>7. /\ Mapped(n, Roots(a[2])) /\ n.pgdir[UserSlot] = a[2][1].upml4
        /\ FrameOf(m, Start) \in Entry
    BY <2>3, <2>4, <2>5, <2>6, <1>2, AccessFacts
  <2>8. Owned(mem', procs')
    BY <2>7, <1>6, <1>8 DEF Owned, Mapped
  <2>9. tlb' \in [VAddrs -> Entry]
    BY <2>6, <2>7, <1>6
  <2>10. Types'
    BY <2>8, <2>9, <1>6, OwnedTypes, TypeNext DEF Owned
  <2>11. /\ procs'[1].upml4 # 0 /\ mem'.pgdir[UserSlot] = procs'[1].upml4
         /\ procs'[2].upml4 = 0
    <3>1. procs'[1].upml4 = a[2][1].upml4 /\ procs'[2].upml4 = a[2][2].upml4
      BY <1>2, <1>8
    <3>2. a[2][2] = procs[2]
      BY <1>2, <1>7, <1>10
    <3> QED BY <3>1, <3>2, <2>1, <2>7, <1>1, <1>6
  <2>12. Slot2'
    BY <2>11, <1>6 DEF Slot2
  <2> QED BY <2>8, <2>10, <2>12 DEF VMInv
<1> QED BY <1>9, <1>10

\* sys_spawn() begins: a second address space, and slot 2 is switched to it.
LEMMA StepSpawnBegin == VMInv /\ SpawnBegin => VMInv'
<1> SUFFICES ASSUME VMInv, SpawnBegin PROVE VMInv'
  OBVIOUS
<1>1. /\ Owned(mem, procs) /\ mem.out = "ok" /\ procs[1].upml4 # 0 /\ procs[2].upml4 = 0
  BY DEF VMInv, Slot2, SpawnBegin, Running
<1>2. 1 \in Pids /\ 2 \in Pids
  BY DEF Pids
<1>3. PICK a : a = palloc(2)
  OBVIOUS
<1>4. /\ mem' = IF a[1].out # "ok" THEN a[1] ELSE switch_uvm(a[1], a[2][2].upml4)
      /\ procs' = a[2] /\ mode' = "ehdr" /\ tlb' = tlb /\ left' = left /\ seg' = seg
      /\ loaded' = loaded
  BY <1>3 DEF SpawnBegin
<1>5. /\ Owned(a[1], a[2]) /\ a[1].pgdir = mem.pgdir
      /\ a[1].out # "ok" => a[2] = procs
      /\ a[1].out = "ok" => /\ a[2][2].upml4 \in Frames
                            /\ \A q \in Pids : q # 2 => a[2][q] = procs[q]
  BY <1>1, <1>2, <1>3, PallocFacts
<1>6. CASE a[1].out # "ok"
  <2>1. mem' = a[1]
    BY <1>4, <1>6
  <2>2. Owned(mem', procs') /\ mem'.out # "ok"
    BY <2>1, <1>4, <1>5, <1>6
  <2>3. Types'
    BY <2>2, <1>4, OwnedTypes, TypeNext DEF Owned
  <2>4. Slot2'
    BY <2>2, <1>4 DEF Slot2, Running
  <2> QED BY <2>2, <2>3, <2>4 DEF VMInv
<1>7. CASE a[1].out = "ok"
  <2>1. a[2][2].upml4 \in Frames /\ a[2][2].upml4 # 0 /\ a[2][1] = procs[1]
    BY <1>2, <1>5, <1>7, FrameFacts
  <2>2. mem' = switch_uvm(a[1], a[2][2].upml4)
    BY <1>4, <1>7
  <2>3. /\ mem' \in Memory /\ Consistent(mem'.free, mem'.tab, mem'.pgdir, Roots(a[2]))
        /\ mem'.pgdir[UserSlot] = a[2][2].upml4
    <3>1. PICK m, root : m = a[1] /\ root = a[2][2].upml4
      OBVIOUS
    <3>2. m \in Memory /\ Consistent(m.free, m.tab, m.pgdir, Roots(a[2])) /\ root \in Frames \cup {0}
      BY <3>1, <2>1, <1>5 DEF Owned
    <3>3. mem' = switch_uvm(m, root)
      BY <3>1, <2>2
    <3> QED BY <3>1, <3>2, <3>3, SwitchFacts
  <2>4. Owned(mem', procs')
    BY <2>3, <1>4, <1>5 DEF Owned
  <2>5. Types'
    BY <2>4, <1>4, OwnedTypes, TypeNext DEF Owned
  <2>6. Slot2'
    BY <2>1, <2>3, <1>1, <1>4 DEF Slot2
  <2> QED BY <2>4, <2>5, <2>6 DEF VMInv
<1> QED BY <1>6, <1>7

\* The tables in use are the frames of levels 1 to 3.
LEMMA TablesLevelled ==
  ASSUME Owned(mem, procs), NEW lv, NEW par, NEW kern,
         Sound(mem.free, mem.tab, mem.pgdir, Roots(procs), lv, par, kern)
  PROVE  Tables = {t \in Frames : lv[t] \in 1 .. 3}
<1>1. PICK A : A = SharedRoots \cup ProcRoots
  OBVIOUS
<1>2. PICK B : B = Entries(mem, A)
  OBVIOUS
<1>3. PICK C : C = Entries(mem, B)
  OBVIOUS
<1>4. Tables = A \cup B \cup C
  BY <1>1, <1>2, <1>3 DEF Tables
<1>5. B = Below(mem.tab, A) /\ C = Below(mem.tab, B)
  BY <1>2, <1>3 DEF Entries, Below
<1>6. /\ mem.pgdir \in [L4 -> Frames \cup {0}] /\ lv \in [Frames -> 0 .. 5]
      /\ \A p \in Pids : Roots(procs)[p] = procs[p].upml4 /\ procs[p].upml4 \in Frames \cup {0}
  BY DEF Owned, Memory, ProcTable, Roots, Sound, Ghosts
<1>7. \A f : f \in A <=> f # 0 /\ (\/ \E i \in Shared : mem.pgdir[i] = f
                                 \/ \E p \in Pids : Roots(procs)[p] = f)
  BY <1>1, <1>6 DEF SharedRoots, ProcRoots, Shared
<1>8. A \subseteq {t \in Frames : lv[t] = 1}
  <2> SUFFICES ASSUME NEW f \in A PROVE f \in Frames /\ lv[f] = 1
    OBVIOUS
  <2>1. CASE \E i \in Shared : mem.pgdir[i] = f
    BY <2>1, <1>6, <1>7 DEF Sound, SlotsOK, Shared
  <2>2. CASE \E p \in Pids : Roots(procs)[p] = f
    BY <2>2, <1>6, <1>7 DEF Sound, ProcsOK
  <2> QED BY <2>1, <2>2, <1>7
<1>9. B \subseteq {t \in Frames : lv[t] = 2}
  <2>1. PICK n \in 1 .. 3 : n = 1
    OBVIOUS
  <2>2. A \in SUBSET {t \in Frames : lv[t] = n} /\ n + 1 = 2
    BY <2>1, <1>8
  <2>3. Below(mem.tab, A) \subseteq {t \in Frames : lv[t] = n + 1}
    BY <2>2, BelowLevel
  <2> QED BY <2>2, <2>3, <1>5
<1>10. C \subseteq {t \in Frames : lv[t] = 3}
  <2>1. PICK n \in 1 .. 3 : n = 2
    OBVIOUS
  <2>2. B \in SUBSET {t \in Frames : lv[t] = n} /\ n + 1 = 3
    BY <2>1, <1>9
  <2>3. Below(mem.tab, B) \subseteq {t \in Frames : lv[t] = n + 1}
    BY <2>2, BelowLevel
  <2> QED BY <2>2, <2>3, <1>5
<1>11. ASSUME NEW f \in Frames, lv[f] \in 1 .. 3, f \notin A
       PROVE  \E t \in Frames, i \in Index : lv[t] \in 1 .. 3 /\ mem.tab[t][i] = f /\ lv[f] = lv[t] + 1
  <2>1. f # 0
    BY FrameFacts
  <2>2. PICK t \in Frames, i \in Index : lv[t] \in 1 .. 3 /\ mem.tab[t][i] = f
    BY <2>1, <1>7, <1>11 DEF Sound, OwnedOK
  <2>3. lv[f] = lv[t] + 1
    BY <2>2 DEF Sound, TablesOK
  <2> QED BY <2>2, <2>3
<1>12. ASSUME NEW f \in Frames, lv[f] = 1 PROVE f \in A
  BY <1>11, <1>12
<1>13. ASSUME NEW f \in Frames, lv[f] = 2 PROVE f \in B
  <2>1. f \notin A
    BY <1>8, <1>13
  <2>2. PICK t \in Frames, i \in Index : lv[t] \in 1 .. 3 /\ mem.tab[t][i] = f /\ lv[f] = lv[t] + 1
    BY <2>1, <1>11, <1>13
  <2>3. t \in A
    BY <2>2, <1>12, <1>13
  <2> QED BY <2>2, <2>3, <1>5, FrameFacts DEF Below
<1>14. ASSUME NEW f \in Frames, lv[f] = 3 PROVE f \in C
  <2>1. f \notin A
    BY <1>8, <1>14
  <2>2. PICK t \in Frames, i \in Index : lv[t] \in 1 .. 3 /\ mem.tab[t][i] = f /\ lv[f] = lv[t] + 1
    BY <2>1, <1>11, <1>14
  <2>3. t \in B
    BY <2>2, <1>13, <1>14
  <2> QED BY <2>2, <2>3, <1>5, FrameFacts DEF Below
<1>15. ASSUME NEW f \in Frames, lv[f] \in 1 .. 3 PROVE f \in A \cup B \cup C
  <2>1. lv[f] = 1 \/ lv[f] = 2 \/ lv[f] = 3
    BY <1>15
  <2> QED BY <2>1, <1>12, <1>13, <1>14
<1>16. A \cup B \cup C \subseteq {t \in Frames : lv[t] \in 1 .. 3}
  BY <1>8, <1>9, <1>10
<1> QED BY <1>4, <1>15, <1>16

\* The frame a reference names is allocated, and determines the place of the reference.
LEMMA RefPlace ==
  ASSUME Owned(mem, procs), NEW lv, NEW par, NEW kern,
         Sound(mem.free, mem.tab, mem.pgdir, Roots(procs), lv, par, kern),
         NEW r \in Refs, r[3] \in Frames
  PROVE  r = <<par[r[3]][1], par[r[3]][2], r[3]>> /\ lv[r[3]] \in 1 .. 4
<1>1. r[3] # 0
  BY FrameFacts
<1>2. CASE r \in {<<0, i, mem.pgdir[i]>> : i \in L4 \ {UserSlot}}
  <2>1. PICK i \in Shared : r = <<0, i, mem.pgdir[i]>>
    BY <1>2 DEF Shared
  <2>2. r[3] = mem.pgdir[i]
    BY <2>1
  <2>3. lv[r[3]] = 1 /\ par[r[3]] = <<0, i>>
    BY <2>2, <1>1 DEF Sound, SlotsOK
  <2> QED BY <2>1, <2>2, <2>3
<1>3. CASE r \in {<<-1, p, procs[p].upml4>> : p \in Pids}
  <2>1. PICK p \in Pids : r = <<-1, p, procs[p].upml4>>
    BY <1>3
  <2>2. r[3] = Roots(procs)[p]
    BY <2>1 DEF Roots
  <2>3. lv[r[3]] = 1 /\ par[r[3]] = <<-1, p>>
    BY <2>2, <1>1 DEF Sound, ProcsOK
  <2>4. r[3] = procs[p].upml4
    BY <2>1
  <2> QED BY <2>1, <2>3, <2>4
<1>4. CASE r \in {<<t, i, mem.tab[t][i]>> : t \in Tables, i \in Index}
  <2>1. PICK t \in Tables, i \in Index : r = <<t, i, mem.tab[t][i]>>
    BY <1>4
  <2>2. r[3] = mem.tab[t][i]
    BY <2>1
  <2>3. t \in Frames /\ lv[t] \in 1 .. 3
    BY TablesLevelled
  <2>4. lv[r[3]] = lv[t] + 1 /\ par[r[3]] = <<t, i>>
    BY <2>2, <2>3 DEF Sound, TablesOK
  <2> QED BY <2>1, <2>2, <2>3, <2>4
<1> QED BY <1>2, <1>3, <1>4 DEF Refs

\* free_uvm() gives back frames that are in use, each from one place.
LEMMA FreedOnce ==
  ASSUME Owned(mem, procs), procs[2].upml4 # 0
  PROVE  GivenTwice(mem, 2) = {}
<1>1. mem \in Memory /\ procs \in ProcTable /\ 2 \in Pids
  BY DEF Owned, Pids
<1>2. PICK lv, par, kern : Sound(mem.free, mem.tab, mem.pgdir, Roots(procs), lv, par, kern)
  BY DEF Owned, Consistent
<1>3. PICK root : root = procs[2].upml4
  OBVIOUS
<1>4. PICK pds : pds = Entries(mem, {root})
  OBVIOUS
<1>5. PICK pts : pts = Entries(mem, pds)
  OBVIOUS
<1>6. root \in Frames
  BY <1>1, <1>3 DEF ProcTable
<1>7. root \in ProcRoots
  BY <1>1, <1>3 DEF ProcRoots
<1>8. {root} \cup pds \cup pts \subseteq Tables
  <2>1. PICK A : A = SharedRoots \cup ProcRoots
    OBVIOUS
  <2>2. root \in A
    BY <1>7, <2>1
  <2>3. pds \subseteq Entries(mem, A)
    BY <1>4, <2>2 DEF Entries
  <2>4. pts \subseteq Entries(mem, Entries(mem, A))
    BY <1>5, <2>3 DEF Entries
  <2>5. Tables = A \cup Entries(mem, A) \cup Entries(mem, Entries(mem, A))
    BY <2>1 DEF Tables
  <2> QED BY <2>2, <2>3, <2>4, <2>5
<1>9. ASSUME NEW x \in Given(mem, 2) PROVE x \in Refs /\ x[3] \in Frames
  <2>1. CASE x = <<-1, 2, root>>
    BY <2>1, <1>1, <1>3, <1>6 DEF Refs
  <2>2. CASE x # <<-1, 2, root>>
    <3>1. PICK t \in {root} \cup pds \cup pts, i \in Index :
            x = <<t, i, mem.tab[t][i]>> /\ x[3] \notin {0, Direct}
      BY <2>2, <1>3, <1>4, <1>5, <1>9 DEF Given
    <3>2. t \in Tables
      BY <3>1, <1>8
    <3>3. t \in Frames
      BY <3>2, <1>2, TablesLevelled
    <3>4. mem.tab[t][i] \in Entry /\ x[3] = mem.tab[t][i]
      BY <3>1, <3>3, <1>1 DEF Memory
    <3>5. x[3] \in Frames
      BY <3>1, <3>4 DEF Entry
    <3> QED BY <3>1, <3>2, <3>5 DEF Refs
  <2> QED BY <2>1, <2>2
<1>10. ASSUME NEW x \in Given(mem, 2)
       PROVE  x = <<par[x[3]][1], par[x[3]][2], x[3]>> /\ x[3] \notin mem.free
  <2>1. x \in Refs /\ x[3] \in Frames
    BY <1>9
  <2>2. x = <<par[x[3]][1], par[x[3]][2], x[3]>> /\ lv[x[3]] \in 1 .. 4
    BY <2>1, <1>2, RefPlace
  <2> QED BY <2>1, <2>2, <1>2 DEF Sound, Levelled
<1>11. ASSUME NEW x \in Given(mem, 2), NEW y \in Given(mem, 2), x[3] = y[3] PROVE x = y
  BY <1>10, <1>11
<1> QED BY <1>10, <1>11 DEF GivenTwice

\* A failed spawn: the new address space is given back.
LEMMA StepSpawnBad == VMInv /\ SpawnBad => VMInv'
<1> SUFFICES ASSUME VMInv, SpawnBad PROVE VMInv'
  OBVIOUS
<1>1. mode \in {"ehdr", "phdr"} /\ Running
  BY DEF SpawnBad
<1>2. Owned(mem, procs) /\ procs[2].upml4 # 0
  BY <1>1 DEF VMInv, Slot2
<1>3. /\ mem' = [free_uvm(mem, 2) EXCEPT !.out = "pmfree: invalid address"]
      /\ procs' = [procs EXCEPT ![2].upml4 = 0]
      /\ tlb' = tlb /\ mode' = mode /\ left' = left /\ seg' = seg /\ loaded' = loaded
  BY DEF SpawnBad, pfree
<1>4. mem \in Memory /\ procs \in ProcTable /\ 2 \in Pids
  BY <1>2 DEF Owned, Pids
<1>5. PICK r : r = procs[2].upml4
  OBVIOUS
<1>6. Reach(mem, r) = Tree(mem.tab, r)
  BY DEF Reach, Tree, Entries, Below
<1>7. PICK R : R = Tree(mem.tab, r)
  OBVIOUS
<1>8. PICK lv, par, kern : Sound(mem.free, mem.tab, mem.pgdir, Roots(procs), lv, par, kern)
  BY <1>2 DEF Owned, Consistent
<1>9. Roots(procs)[2] = r
  BY <1>4, <1>5 DEF Roots
<1>10. Sound(mem.free \cup R, mem.tab, mem.pgdir, [Roots(procs) EXCEPT ![2] = 0],
             [f \in Frames |-> IF f \in R THEN 0 ELSE lv[f]], par, kern)
  <2>1. Roots(procs)[2] # 0
    BY <1>2, <1>5, <1>9
  <2>2. Sound(mem.free \cup Tree(mem.tab, Roots(procs)[2]), mem.tab, mem.pgdir,
              [Roots(procs) EXCEPT ![2] = 0],
              [f \in Frames |-> IF f \in Tree(mem.tab, Roots(procs)[2]) THEN 0 ELSE lv[f]], par, kern)
    BY <2>1, <1>4, <1>8, FreeTree
  <2> QED BY <2>2, <1>7, <1>9
<1>11. procs' \in ProcTable /\ Roots(procs') = [Roots(procs) EXCEPT ![2] = 0]
  <2>1. procs' \in ProcTable /\ procs'[2].upml4 = 0
        /\ \A q \in Pids : q # 2 => procs'[q] = procs[q]
    BY <1>3, <1>4 DEF ProcTable
  <2> QED BY <2>1 DEF Roots
<1>12. mem.free \cup R \subseteq Frames
  BY <1>10 DEF Sound, Typed
<1>13. /\ mem' \in Memory /\ mem'.free = mem.free \cup R /\ mem'.tab = mem.tab
       /\ mem'.pgdir = mem.pgdir /\ mem'.out # "ok"
  <2>1. PICK k : k = [mem EXCEPT !.free = mem.free \cup R, !.twice = {}]
    OBVIOUS
  <2>2. k = free_uvm(mem, 2)
    <3>1. GivenTwice(mem, 2) = {} /\ mem.twice = {}
      BY <1>2, <1>4, FreedOnce DEF Memory
    <3>2. mem.twice \cup GivenTwice(mem, 2) = {}
      BY <3>1
    <3> QED BY <2>1, <3>2, <1>5, <1>6, <1>7 DEF free_uvm
  <2>3. mem' = [k EXCEPT !.out = "pmfree: invalid address"]
    BY <2>2, <1>3
  <2> QED BY <2>1, <2>3, <1>4, <1>12 DEF Memory, Outcomes
<1>14. Owned(mem', procs')
  BY <1>10, <1>11, <1>13 DEF Owned, Consistent
<1>15. Types'
  BY <1>1, <1>3, <1>14, OwnedTypes, TypeNext DEF Owned
<1>16. Slot2'
  BY <1>1, <1>3, <1>13 DEF Slot2, Running
<1> QED BY <1>14, <1>15, <1>16 DEF VMInv

\* sys_spawn() ends: slot 2 is switched back.
LEMMA StepSpawnOut == VMInv /\ SpawnOut => VMInv'
<1> SUFFICES ASSUME VMInv, SpawnOut PROVE VMInv'
  OBVIOUS
<1>1. Owned(mem, procs) /\ procs[1].upml4 # 0
  BY DEF VMInv, Slot2, SpawnOut
<1>2. /\ mem' = switch_uvm(mem, procs[1].upml4) /\ procs' = procs /\ mode' = "spin"
      /\ tlb' = tlb /\ left' = left /\ seg' = seg /\ loaded' = loaded
  BY DEF SpawnOut, curproc
<1>3. mem \in Memory /\ procs \in ProcTable /\ procs[1].upml4 \in Frames \cup {0}
  BY <1>1 DEF Owned, ProcTable, Pids
<1>4. /\ mem' \in Memory /\ Consistent(mem'.free, mem'.tab, mem'.pgdir, Roots(procs))
      /\ mem'.pgdir[UserSlot] = procs[1].upml4
  BY <1>1, <1>2, <1>3, SwitchFacts DEF Owned
<1>5. Owned(mem', procs')
  BY <1>2, <1>3, <1>4 DEF Owned
<1>6. Types'
  BY <1>2, <1>5, OwnedTypes, TypeNext DEF Owned
<1>7. Slot2'
  BY <1>1, <1>2, <1>4 DEF Slot2
<1> QED BY <1>5, <1>6, <1>7 DEF VMInv

\* A page is touched, by ring 3 or by vfs_read() on behalf of sys_spawn().
LEMMA StepTouch ==
  ASSUME VMInv, Running, mode \in {"user", "load"}, NEW va \in VAddrs,
         mem' = Accessed(mem, va), procs' = procs, mode' = mode, left' = left,
         tlb' \in {tlb, [tlb EXCEPT ![va] = FrameOf(mem, va)]}, seg' \subseteq seg,
         loaded' \in {loaded, loaded \cup {<<va, FrameOf(mem, va)>>}}
  PROVE  VMInv'
<1>1. Owned(mem, procs) /\ Mapped(mem, Roots(procs)) /\ mem.out = "ok"
  BY ModeFacts DEF Running
<1>2. tlb \in [VAddrs -> Entry] /\ loaded \subseteq VAddrs \X Entry
  BY OwnedTypes
<1>3. /\ Mapped(mem', Roots(procs)) /\ mem'.pgdir[UserSlot] = mem.pgdir[UserSlot]
      /\ FrameOf(mem, va) \in Entry
  BY <1>1, <1>2, AccessFacts
<1>4. Owned(mem', procs')
  BY <1>1, <1>3 DEF Owned, Mapped
<1>5. tlb' \in [VAddrs -> Entry] /\ loaded' \subseteq VAddrs \X Entry
  BY <1>2, <1>3
<1>6. Types'
  BY <1>4, <1>5, OwnedTypes, TypeNext DEF Owned
<1>7. Slot2'
  BY <1>3 DEF VMInv, Slot2, Running
<1> QED BY <1>4, <1>6, <1>7 DEF VMInv

\* A step that leaves memory and processes alone.
LEMMA StepElsewhere ==
  ASSUME VMInv, mem' = mem, procs' = procs, tlb' \in [VAddrs -> Entry],
         left' \in 0 .. MaxPhnum, seg' \subseteq VAddrs, loaded' = loaded,
         \/ mode' = mode
         \/ mode = "user" /\ mode' = "spin"
         \/ mode \in {"ehdr", "phdr", "load"} /\ mode' \in {"phdr", "load"}
  PROVE  VMInv'
<1>1. Types'
  <2>1. mode' \in {"vm_init", "uinit", "user", "ehdr", "phdr", "load", "spin"}
    BY TypeParts DEF VMInv
  <2> QED BY <2>1, OwnedTypes, TypeNext
<1>2. mode' # "vm_init" => Owned(mem, procs)'
  BY DEF VMInv, Owned
<1>3. Slot2'
  BY DEF VMInv, Slot2, Running
<1> QED BY <1>1, <1>2, <1>3 DEF VMInv

LEMMA StepOK == VMInv /\ [VMNext]_vmVars => VMInv'
<1> SUFFICES ASSUME VMInv, [VMNext]_vmVars PROVE VMInv'
  OBVIOUS
<1>1. /\ mem \in Memory /\ procs \in ProcTable /\ tlb \in [VAddrs -> Entry]
      /\ left \in 0 .. MaxPhnum /\ seg \subseteq VAddrs /\ loaded \subseteq VAddrs \X Entry
  BY OwnedTypes
<1>2. CASE vm_init
  BY <1>2, StepVmInit
<1>3. CASE uinit
  BY <1>3, StepUinit
<1>4. CASE SpawnBegin
  BY <1>4, StepSpawnBegin
<1>5. CASE SpawnBad
  BY <1>5, StepSpawnBad
<1>6. CASE SpawnOut
  BY <1>6, StepSpawnOut
<1>7. ASSUME NEW va \in VAddrs, UserTouch(va) PROVE VMInv'
  <2>1. /\ Running /\ mode \in {"user", "load"} /\ mem' = Accessed(mem, va) /\ procs' = procs
        /\ mode' = mode /\ left' = left /\ seg' \subseteq seg /\ loaded' = loaded
    BY <1>7 DEF UserTouch
  <2>2. tlb' \in {tlb, [tlb EXCEPT ![va] = FrameOf(mem, va)]}
    BY <1>7, Zenon DEF UserTouch
  <2> QED BY <2>1, <2>2, StepTouch
<1>8. ASSUME NEW va \in seg, SpawnLoad(va) PROVE VMInv'
  <2>1. /\ Running /\ mode \in {"user", "load"} /\ mem' = Accessed(mem, va) /\ procs' = procs
        /\ mode' = mode /\ left' = left /\ seg' \subseteq seg /\ va \in VAddrs
    BY <1>1, <1>8 DEF SpawnLoad
  <2>2. /\ tlb' \in {tlb, [tlb EXCEPT ![va] = FrameOf(mem, va)]}
        /\ loaded' \in {loaded, loaded \cup {<<va, FrameOf(mem, va)>>}}
    BY <1>8, Zenon DEF SpawnLoad
  <2> QED BY <2>1, <2>2, StepTouch
<1>9. ASSUME NEW va \in VAddrs, Evict(va) PROVE VMInv'
  <2>1. tlb' \in [VAddrs -> Entry]
    BY <1>1, <1>9 DEF Evict, Entry
  <2> QED BY <2>1, <1>1, <1>9, StepElsewhere DEF Evict
<1>10. CASE SyscallOther
  BY <1>1, <1>10, StepElsewhere DEF SyscallOther
<1>11. ASSUME NEW n \in 0 .. MaxPhnum, SpawnEhdr(n) PROVE VMInv'
  BY <1>1, <1>11, StepElsewhere DEF SpawnEhdr
<1>12. CASE SpawnSkip
  <2>1. left' \in 0 .. MaxPhnum
    BY <1>1, <1>12, VMAssumption DEF SpawnSkip, NextHeader
  <2> QED BY <2>1, <1>1, <1>12, StepElsewhere DEF SpawnSkip
<1>13. ASSUME NEW S \in SUBSET {va \in VAddrs : IsUser(va)}, SpawnSegment(S) PROVE VMInv'
  <2>1. left' \in 0 .. MaxPhnum
    BY <1>1, <1>13, VMAssumption DEF SpawnSegment, NextHeader
  <2>2. seg' \subseteq VAddrs
    BY <1>13 DEF SpawnSegment
  <2> QED BY <2>1, <2>2, <1>1, <1>13, StepElsewhere DEF SpawnSegment
<1>14. CASE SpawnLoaded
  BY <1>1, <1>14, StepElsewhere DEF SpawnLoaded
<1>15. CASE VMStopped
  BY <1>1, <1>15, StepElsewhere DEF VMStopped, vmVars
<1>16. CASE UNCHANGED vmVars
  BY <1>1, <1>16, StepElsewhere DEF vmVars
<1> QED BY <1>2, <1>3, <1>4, <1>5, <1>6, <1>7, <1>8, <1>9, <1>10, <1>11, <1>12, <1>13, <1>14,
           <1>15, <1>16 DEF VMNext, Kernel

LEMMA Invariance == VMSpec => []VMInv
<1>1. VMInit => VMInv
  BY InitOK
<1>2. VMInv /\ [VMNext]_vmVars => VMInv'
  BY StepOK
<1> QED BY <1>1, <1>2, PTL DEF VMSpec

-----------------------------------------------------------------------------
(* What the invariant says of the memory.                                  *)

LEMMA OwnedOnceHolds == VMInv => OwnedOnce
<1> SUFFICES ASSUME VMInv, mode # "vm_init"
             PROVE  /\ \A r, s \in Refs : r[3] = s[3] /\ r[3] \in Frames => r = s
                    /\ {r[3] : r \in Refs} \cap Frames = Frames \ (mem.free \cup {1})
                    /\ mem.twice = {}
                    /\ Running => mem.pgdir[UserSlot] \in ProcRoots \cup {0}
  BY DEF OwnedOnce
<1>1. Owned(mem, procs)
  BY DEF VMInv
<1>2. PICK lv, par, kern : Sound(mem.free, mem.tab, mem.pgdir, Roots(procs), lv, par, kern)
  BY <1>1 DEF Owned, Consistent
<1>3. ASSUME NEW r \in Refs, r[3] \in Frames
      PROVE  r = <<par[r[3]][1], par[r[3]][2], r[3]>> /\ lv[r[3]] \in 1 .. 4
  BY <1>1, <1>2, <1>3, RefPlace
<1>4. ASSUME NEW r \in Refs, NEW s \in Refs, r[3] = s[3], r[3] \in Frames PROVE r = s
  BY <1>3, <1>4
<1>5. ASSUME NEW f \in Frames, f \in {r[3] : r \in Refs} PROVE f \notin mem.free /\ f # 1
  <2>1. lv[f] \in 1 .. 4
    BY <1>3, <1>5
  <2> QED BY <2>1, <1>2 DEF Sound, Levelled
<1>6. ASSUME NEW f \in Frames, f \notin mem.free, f # 1 PROVE \E r \in Refs : r[3] = f
  <2>1. lv[f] \in 0 .. 5 /\ lv[f] # 0 /\ lv[f] # 5
    BY <1>2, <1>6 DEF Sound, Ghosts, Levelled
  <2>2. \/ \E i \in Shared : mem.pgdir[i] = f
        \/ \E p \in Pids : Roots(procs)[p] = f
        \/ \E t \in Frames, i \in Index : lv[t] \in 1 .. 3 /\ mem.tab[t][i] = f
    BY <2>1, <1>2 DEF Sound, OwnedOK
  <2>3. ASSUME NEW i \in Shared, mem.pgdir[i] = f PROVE \E r \in Refs : r[3] = f
    <3>1. <<0, i, mem.pgdir[i]>> \in Refs
      BY DEF Refs, Shared
    <3> QED BY <3>1, <2>3
  <2>4. ASSUME NEW p \in Pids, Roots(procs)[p] = f PROVE \E r \in Refs : r[3] = f
    <3>1. <<-1, p, procs[p].upml4>> \in Refs
      BY DEF Refs
    <3> QED BY <3>1, <2>4 DEF Roots
  <2>5. ASSUME NEW t \in Frames, NEW i \in Index, lv[t] \in 1 .. 3, mem.tab[t][i] = f
        PROVE  \E r \in Refs : r[3] = f
    <3>1. t \in Tables
      BY <2>5, <1>1, <1>2, TablesLevelled
    <3>2. <<t, i, mem.tab[t][i]>> \in Refs
      BY <3>1 DEF Refs
    <3> QED BY <3>2, <2>5
  <2> QED BY <2>2, <2>3, <2>4, <2>5
<1>7. mem.twice = {}
  BY DEF VMInv, Types
<1>8. ASSUME Running PROVE mem.pgdir[UserSlot] \in ProcRoots \cup {0}
  <2>1. mode \in {"uinit", "user", "ehdr", "phdr", "load", "spin"}
    BY TypeParts DEF VMInv
  <2>2. 1 \in Pids /\ 2 \in Pids
    BY DEF Pids
  <2>3. ASSUME NEW p \in Pids PROVE procs[p].upml4 \in ProcRoots \cup {0}
    BY DEF ProcRoots
  <2>4. \/ mem.pgdir[UserSlot] = 0
        \/ mem.pgdir[UserSlot] = procs[1].upml4
        \/ mem.pgdir[UserSlot] = procs[2].upml4
    BY <2>1, <1>8 DEF VMInv, Slot2
  <2> QED BY <2>2, <2>3, <2>4
<1> QED BY <1>4, <1>5, <1>6, <1>7, <1>8

LEMMA HalvesApartHolds == VMInv => HalvesApart
<1> SUFFICES ASSUME VMInv, Running, NEW va \in Addresses
             PROVE  IF IsUser(va) THEN Lookup(mem, va) # Direct ELSE Lookup(mem, va) \in {0, Direct}
  BY DEF HalvesApart, Addresses
<1>1. CASE mode = "vm_init"
  <2>1. va[1] \in L4
    BY DEF Addresses
  <2>2. mem.pgdir[va[1]] = 0
    BY <2>1, <1>1 DEF VMInv, Slot2
  <2> QED BY <2>2, FrameFacts DEF Lookup
<1>2. CASE mode # "vm_init"
  <2>1. mem \in Memory /\ Consistent(mem.free, mem.tab, mem.pgdir, Roots(procs))
    BY <1>2 DEF VMInv, Owned
  <2>2. mem.pgdir[UserSlot] # 0 => \E p \in Pids : mem.pgdir[UserSlot] = Roots(procs)[p]
    <3>1. CASE mode = "uinit"
      BY <3>1 DEF VMInv, Slot2
    <3>2. CASE mode # "uinit"
      <4>1. mode \in {"user", "ehdr", "phdr", "load", "spin"}
        BY <3>2, <1>2, TypeParts DEF VMInv
      <4> QED BY <4>1, ModeFacts DEF Mapped
    <3> QED BY <3>1, <3>2
  <2> QED BY <2>1, <2>2, LookupFacts
<1> QED BY <1>1, <1>2

-----------------------------------------------------------------------------
(* The theorems.                                                           *)

\* Page table entries are absent, a frame of the machine or the identity mapping, through
\* every walk of walk_pgdir(); PML4 slots and upml4 are absent or a frame; the TLB and
\* sys_spawn()'s state have their types.
THEOREM TypeCorrect == VMSpec => []VMTypeOK
<1>1. VMInv => VMTypeOK
  BY DEF VMInv, Types
<1> QED BY <1>1, Invariance, PTL

\* Every frame has one owner, for any number of frames and any addresses touched: below
\* 1.5T no two processes share a page or a table, no frame of a tree in use is free, no
\* frame is lost or given to pmfree() twice, and slot 2 is a process's while the kernel runs.
THEOREM FramesOwnedOnce == VMSpec => []OwnedOnce
BY Invariance, OwnedOnceHolds, PTL

\* The kernel's half maps only kernel addresses, to themselves; the user's half never
\* maps the kernel's memory.
THEOREM HalvesSeparate == VMSpec => []HalvesApart
BY Invariance, HalvesApartHolds, PTL

\* Ring 3, and everything after a system call, runs in the current process's address
\* space.
THEOREM CurrentProcessRestored == VMSpec => []CurprocRestored
<1>1. VMInv => CurprocRestored
  BY DEF VMInv, Slot2, CurprocRestored, curproc
<1> QED BY <1>1, Invariance, PTL
=============================================================================
