--------------------------- MODULE Lifecycle_proofs ---------------------------
(***************************************************************************)
(* A driver whose table follows the rules of DriverRules behaves: whatever *)
(* fails while it loads, and whatever runs meanwhile, Lifecycle keeps its  *)
(* four invariants.  The proofs never look into Drivers, so they hold for  *)
(* the table of any driver; that those of the repository follow the rules  *)
(* is TableFollowsRules, which TLC evaluates for each of them.             *)
(***************************************************************************)
EXTENDS Lifecycle, TLAPS

(* What is there or within reach of an open file, the driver itself apart. *)
InHand(T, H, o) == (H \cup (IF o THEN T.node ELSE {})) \ {"text", "live"}

(* What a table T says of a driver at step k that has H, has freed F, has  *)
(* armed P and is open if o, when R has been released since it failed or   *)
(* was taken down.  What may be there, and what surely is, alone or with   *)
(* something else; what was freed; what is armed.                          *)
Holds(T, k, H, F, P, o, R) ==
  /\ H \subseteq ({"text", "live"} \cup Possible(T, k)) \ R
  /\ "text" \notin R => "text" \in H
  /\ \A x \in Before(T, k) : Sure(T, x, k) /\ x \notin R => x \in H
  /\ InHand(T, H, o) \subseteq Before(T, k)
  /\ \A y \in InHand(T, H, o) : \A x \in Before(T, k) :
       SureWith(T, x, y, k) /\ x \notin R => x \in H
  /\ F \subseteq MayBeFreed(T, k) \cup R
  /\ P \subseteq Armed(T, k)

-----------------------------------------------------------------------------
(* What the table says of one step and of the next.                        *)

(* WellFormed, field by field.                                             *)
LEMMA WellFormedTable ==
  ASSUME NEW T, WellFormed(T)
  PROVE  /\ Len(T.init) \in Nat
         /\ \A k \in 1 .. Len(T.init) :
              /\ T.init[k].name \in STRING /\ T.init[k].fails \in BOOLEAN
              /\ T.init[k].undo \in Seq(STRING) /\ T.init[k].skip \in Nat
              /\ k + T.init[k].skip <= End(T)
              /\ T.init[k].name \notin {"text", "live"}
              /\ {"text", "live"} \cap ToSet(T.init[k].undo) = {}
         /\ \A w \in T.ways : w.steps \in Seq(STRING) /\ w.pinned \in BOOLEAN
         /\ {"text", "live"} \cap T.node = {}
         /\ T.module \in BOOLEAN
<1> DEFINE Steps == [name : STRING, fails : BOOLEAN, undo : Seq(STRING),
                     skip : Nat]
           list == T.init
<1>1. list \in Seq(Steps)
  BY Zenon DEF WellFormed
<1>2. \A s \in Steps : /\ s.name \in STRING /\ s.fails \in BOOLEAN
                      /\ s.undo \in Seq(STRING) /\ s.skip \in Nat
  OBVIOUS
<1> HIDE DEF Steps, list
<1>3. Len(list) \in Nat /\ \A k \in 1 .. Len(list) : list[k] \in Steps
  BY <1>1
<1>4. /\ Len(T.init) \in Nat
      /\ \A k \in 1 .. Len(T.init) :
           /\ T.init[k].name \in STRING /\ T.init[k].fails \in BOOLEAN
           /\ T.init[k].undo \in Seq(STRING) /\ T.init[k].skip \in Nat
  BY <1>2, <1>3, Zenon DEF list
<1> QED
  BY <1>4, Zenon DEF WellFormed

(* Only what was acquired is sure.                                         *)
LEMMA SureIsBefore ==
  ASSUME NEW T, NEW k, NEW x, Sure(T, x, k)
  PROVE  x \in Before(T, k)
BY Zenon DEF Sure, Before

(* Step k adds its name, and what it drops.                                *)
LEMMA BeforeNext ==
  ASSUME NEW T, NEW k \in Nat \ {0}
  PROVE  /\ Before(T, k + 1) = Before(T, k) \cup {T.init[k].name}
         /\ MayBeFreed(T, k + 1) = MayBeFreed(T, k) \cup Drops(T.init[k])
<1>1. 1 .. (k + 1) - 1 = (1 .. k - 1) \cup {k}
  OBVIOUS
<1> QED
  BY <1>1, Zenon DEF Before, MayBeFreed

(* What has happened by a step has happened by every later one.            *)
LEMMA BeforeLater ==
  ASSUME NEW T, NEW k \in Nat \ {0}, NEW m \in Nat, k <= m
  PROVE  /\ Before(T, k) \subseteq Before(T, m)
         /\ Loseable(T, k) \subseteq Loseable(T, m)
         /\ MayBeFreed(T, k) \subseteq MayBeFreed(T, m)
         /\ Armed(T, k) \subseteq Armed(T, m)
<1>1. 1 .. k - 1 \subseteq 1 .. m - 1
  OBVIOUS
<1>2. Before(T, k) \subseteq Before(T, m)
  BY <1>1, Zenon DEF Before
<1> QED
  BY <1>1, <1>2, Zenon DEF Loseable, MayBeFreed, Armed

(* What passes over a step passes over those before it.                    *)
LEMMA PassesOverLess ==
  ASSUME NEW T, NEW i \in Nat, NEW j \in Nat, NEW m \in Nat, m <= j,
         T.init[i].skip \in Nat, PassesOver(T, i, j)
  PROVE  PassesOver(T, i, m)
BY DEF PassesOver

(* What was acquired before k and is sure at a later step m is sure at k,  *)
(* and step k does not drop it.                                            *)
LEMMA SureEarlier ==
  ASSUME NEW T, WellFormed(T), NEW k \in 1 .. Len(T.init),
         NEW m \in k + 1 .. Len(T.init) + 1, NEW x,
         NEW j \in 1 .. k - 1, T.init[j].name = x,
         \A i \in 1 .. j : PassesOver(T, i, j) => PassesOver(T, i, m),
         Stays(T, x, j, m)
  PROVE  Sure(T, x, k) /\ x \notin Drops(T.init[k])
<1>0. Len(T.init) \in Nat
  BY WellFormedTable, Zenon
<1>1. /\ k \in Nat /\ m \in Nat /\ j \in Nat /\ k <= m
      /\ k \in j .. m - 1 /\ j .. k - 1 \subseteq j .. m - 1
  BY <1>0
<1>2. ASSUME NEW i \in 1 .. j, PassesOver(T, i, j)
      PROVE  PassesOver(T, i, k)
  <2>1. i \in Nat /\ i \in 1 .. Len(T.init)
    BY <1>0
  <2>2. T.init[i].skip \in Nat
    BY <2>1, WellFormedTable, Zenon
  <2>3. PassesOver(T, i, m)
    BY <1>2, Zenon
  <2> QED
    BY <1>1, <2>1, <2>2, <2>3, PassesOverLess, Zenon
<1>3. Stays(T, x, j, k) /\ x \notin Drops(T.init[k])
  BY <1>1, Zenon DEF Stays
<1> QED
  BY <1>2, <1>3, Zenon DEF Sure

(* So when step k succeeds ...                                             *)
LEMMA SureNext ==
  ASSUME NEW T, WellFormed(T), NEW k \in 1 .. Len(T.init), NEW x,
         Sure(T, x, k + 1)
  PROVE  (x = T.init[k].name \/ Sure(T, x, k)) /\ x \notin Drops(T.init[k])
<1>0. Len(T.init) \in Nat
  BY WellFormedTable, Zenon
<1>1. PICK j \in 1 .. (k + 1) - 1 :
        /\ T.init[j].name = x
        /\ \A i \in 1 .. j : PassesOver(T, i, j) => PassesOver(T, i, k + 1)
        /\ Stays(T, x, j, k + 1)
  BY Zenon DEF Sure
<1>2. j = k \/ j \in 1 .. k - 1
  BY <1>0
<1>3. k + 1 \in k + 1 .. Len(T.init) + 1 /\ k \in k .. (k + 1) - 1
  BY <1>0
<1>4. CASE j = k
  <2>1. x \notin Drops(T.init[k])
    BY <1>1, <1>3, <1>4, Zenon DEF Stays
  <2> QED
    BY <1>1, <1>4, <2>1, Zenon
<1>5. CASE j \in 1 .. k - 1
  BY <1>1, <1>3, <1>5, SureEarlier, Zenon
<1> QED
  BY <1>2, <1>4, <1>5, Zenon

(* ... and when it fails and the steps after it are passed over: what they *)
(* acquire is not sure beyond them.                                        *)
LEMMA SureAcross ==
  ASSUME NEW T, WellFormed(T), NEW k \in 1 .. Len(T.init), NEW x,
         CanJump(T.init[k]), Sure(T, x, k + T.init[k].skip)
  PROVE  Sure(T, x, k) /\ x \notin Drops(T.init[k])
<1> DEFINE m == k + T.init[k].skip
<1>0. /\ Len(T.init) \in Nat /\ T.init[k].skip \in Nat
      /\ k + T.init[k].skip <= Len(T.init) + 1
  BY WellFormedTable, Zenon DEF End
<1>1. m \in k + 1 .. Len(T.init) + 1
  BY <1>0 DEF CanJump
<1>2. PICK j \in 1 .. m - 1 :
        /\ T.init[j].name = x
        /\ \A i \in 1 .. j : PassesOver(T, i, j) => PassesOver(T, i, m)
        /\ Stays(T, x, j, m)
  BY Zenon DEF Sure
<1>3. j \in 1 .. k - 1
  <2>1. ~PassesOver(T, k, m)
    BY <1>0 DEF PassesOver
  <2>2. ASSUME k <= j PROVE FALSE
    <3>1. k \in 1 .. j /\ PassesOver(T, k, j)
      BY <1>0, <2>2 DEF PassesOver
    <3> QED
      BY <1>2, <2>1, <3>1, Zenon
  <2> QED
    BY <1>0, <2>2
<1> HIDE DEF m
<1>4. Sure(T, x, k) /\ x \notin Drops(T.init[k])
  BY <1>1, <1>2, <1>3, SureEarlier, Zenon
<1> QED
  BY <1>4, Zenon

(* What goes with y later goes with y now, if y is acquired before k.      *)
LEMMA SureWithEarlier ==
  ASSUME NEW T, WellFormed(T), NEW k \in 1 .. Len(T.init),
         NEW m \in k + 1 .. Len(T.init) + 1, NEW x,
         NEW y \in Before(T, k), SureWith(T, x, y, m)
  PROVE  SureWith(T, x, y, k) /\ x \notin Drops(T.init[k])
<1>0. Len(T.init) \in Nat
  BY WellFormedTable, Zenon
<1>1. \A j \in 1 .. k - 1 : /\ j \in 1 .. m - 1 /\ k \in j .. m - 1
                            /\ j .. k - 1 \subseteq j .. m - 1
  BY <1>0
<1>2. PICK j \in 1 .. k - 1 : T.init[j].name = y
  BY Zenon DEF Before
<1>3. x \notin Drops(T.init[k])
  BY <1>1, <1>2, Zenon DEF SureWith, Stays
<1>4. SureWith(T, x, y, k)
  BY <1>1, Zenon DEF SureWith, Stays
<1> QED
  BY <1>3, <1>4, Zenon

LEMMA SureWithIsBefore ==
  ASSUME NEW T, NEW k \in Nat, NEW x, NEW y \in Before(T, k),
         SureWith(T, x, y, k)
  PROVE  x \in Before(T, k)
<1>1. PICK j \in 1 .. k - 1 : T.init[j].name = y
  BY Zenon DEF Before
<1>2. Sure(T, x, j)
  BY <1>1, Zenon DEF SureWith
<1>3. PICK i \in 1 .. j - 1 : T.init[i].name = x
  BY <1>2, Zenon DEF Sure
<1>4. i \in 1 .. k - 1
  BY <1>1, <1>3
<1> QED
  BY <1>3, <1>4, Zenon DEF Before

(* What goes with what step k acquires was there before it.                *)
LEMMA SureWithStep ==
  ASSUME NEW T, NEW k \in Nat \ {0}, NEW x,
         SureWith(T, x, T.init[k].name, k + 1)
  PROVE  Sure(T, x, k) /\ x \notin Drops(T.init[k])
<1>1. k \in 1 .. (k + 1) - 1 /\ k \in k .. (k + 1) - 1
  OBVIOUS
<1> QED
  BY <1>1, Zenon DEF SureWith, Stays

(* What may be there, after step k and after what it passes over.          *)
LEMMA PossibleNext ==
  ASSUME NEW T, NEW k \in Nat \ {0}
  PROVE  (Possible(T, k) \cup {T.init[k].name}) \ GivenBy(T, k)
           \subseteq Possible(T, k + 1)
<1>1. /\ k \in 1 .. (k + 1) - 1 /\ k .. (k + 1) - 1 = {k}
      /\ \A j \in 1 .. k - 1 : /\ j \in 1 .. (k + 1) - 1
                               /\ j .. (k + 1) - 1 = (j .. k - 1) \cup {k}
  OBVIOUS
<1>2. ASSUME NEW x \in Possible(T, k), x \notin GivenBy(T, k)
      PROVE  x \in Possible(T, k + 1)
  <2>1. PICK j \in 1 .. k - 1 :
          /\ T.init[j].name = x
          /\ \A l \in j .. k - 1 : T.init[j].name \notin GivenBy(T, l)
    BY Zenon DEF Possible
  <2> QED
    BY <1>1, <1>2, <2>1, Zenon DEF Possible
<1>3. ASSUME T.init[k].name \notin GivenBy(T, k)
      PROVE  T.init[k].name \in Possible(T, k + 1)
  BY <1>1, <1>3, Zenon DEF Possible
<1> QED
  BY <1>2, <1>3, Zenon

LEMMA PossibleAcross ==
  ASSUME NEW T, WellFormed(T), NEW k \in 1 .. Len(T.init),
         CanJump(T.init[k])
  PROVE  Possible(T, k) \subseteq Possible(T, k + T.init[k].skip)
<1> DEFINE m == k + T.init[k].skip
<1>0. /\ Len(T.init) \in Nat /\ T.init[k].skip \in Nat
      /\ m <= Len(T.init) + 1
  BY WellFormedTable, Zenon DEF End
<1>1. \A j \in 1 .. k - 1 : j \in 1 .. m - 1
  BY <1>0
<1>2. ASSUME NEW l \in k .. m - 1 PROVE GivenBy(T, l) = {}
  <2>1. k \in 1 .. l /\ PassesOver(T, k, l)
    BY <1>0 DEF PassesOver
  <2> QED
    BY <2>1, Zenon DEF GivenBy
<1>3. \A j \in 1 .. k - 1 : \A l \in j .. m - 1 :
        l \in j .. k - 1 \/ l \in k .. m - 1
  BY <1>0
<1> HIDE DEF m
<1>4. Possible(T, k) \subseteq Possible(T, m)
  <2>1. ASSUME NEW x \in Possible(T, k) PROVE x \in Possible(T, m)
    <3>1. PICK j \in 1 .. k - 1 :
            /\ T.init[j].name = x
            /\ \A l \in j .. k - 1 : T.init[j].name \notin GivenBy(T, l)
      BY Zenon DEF Possible
    <3>2. \A l \in j .. m - 1 : T.init[j].name \notin GivenBy(T, l)
      BY <1>2, <1>3, <3>1, Zenon
    <3> QED
      BY <1>1, <3>1, <3>2, Zenon DEF Possible
  <2> QED
    BY <2>1, Zenon
<1> QED
  BY <1>4, Zenon DEF m

-----------------------------------------------------------------------------
(* So what the table says stays true when step k succeeds ...              *)
LEMMA HoldsStep ==
  ASSUME NEW T, WellFormed(T), NEW k \in 1 .. Len(T.init),
         NEW H, NEW F, NEW P, NEW o, Holds(T, k, H, F, P, o, {}),
         NEW given,
         given = IF T.init[k].fails THEN {} ELSE ToSet(T.init[k].undo)
  PROVE  Holds(T, k + 1, (H \cup {T.init[k].name}) \ given,
               (F \ {T.init[k].name}) \cup given,
               P \cup ({T.init[k].name} \cap {"timer"}), o, {})
<1> DEFINE name == T.init[k].name
           H2 == (H \cup {name}) \ given
           F2 == (F \ {name}) \cup given
           P2 == P \cup ({name} \cap {"timer"})
<1>0. /\ Len(T.init) \in Nat
      /\ T.init[k].fails \in BOOLEAN /\ name \notin {"text", "live"}
      /\ {"text", "live"} \cap ToSet(T.init[k].undo) = {}
  BY WellFormedTable, Zenon
<1>1. /\ k \in Nat \ {0} /\ k + 1 \in Nat /\ k <= k + 1
      /\ k + 1 \in k + 1 .. Len(T.init) + 1
  BY <1>0
<1>2. given \subseteq Drops(T.init[k]) /\ GivenBy(T, k) \subseteq given
  BY Zenon DEF Drops, Ends, GivenBy
<1>3. "text" \notin given /\ "live" \notin given
  BY <1>0, Zenon
<1>4. /\ Before(T, k + 1) = Before(T, k) \cup {name}
      /\ MayBeFreed(T, k + 1) = MayBeFreed(T, k) \cup Drops(T.init[k])
  BY <1>1, BeforeNext, Zenon
<1>5. /\ H \subseteq {"text", "live"} \cup Possible(T, k)
      /\ "text" \in H
      /\ \A x \in Before(T, k) : Sure(T, x, k) => x \in H
      /\ InHand(T, H, o) \subseteq Before(T, k)
      /\ \A y \in InHand(T, H, o) : \A x \in Before(T, k) :
           SureWith(T, x, y, k) => x \in H
      /\ F \subseteq MayBeFreed(T, k)
      /\ P \subseteq Armed(T, k)
  BY Zenon DEF Holds
<1>6. \A x : Sure(T, x, k) /\ x \notin Drops(T.init[k]) => x \in H2
  <2> TAKE x
  <2> HAVE Sure(T, x, k) /\ x \notin Drops(T.init[k])
  <2>1. x \in Before(T, k)
    BY SureIsBefore, Zenon
  <2> QED
    BY <1>2, <1>5, <2>1, Zenon
<1>7. H2 \subseteq {"text", "live"} \cup Possible(T, k + 1)
  <2>1. (Possible(T, k) \cup {name}) \ GivenBy(T, k) \subseteq Possible(T, k + 1)
    BY <1>1, PossibleNext, Zenon
  <2> QED
    BY <1>2, <1>5, <2>1, Zenon
<1>8. "text" \in H2
  BY <1>3, <1>5, Zenon
<1>9. ASSUME NEW x \in Before(T, k + 1), Sure(T, x, k + 1)
      PROVE  x \in H2
  <2>1. (x = name \/ Sure(T, x, k)) /\ x \notin Drops(T.init[k])
    BY <1>9, SureNext, Zenon
  <2> QED
    BY <1>2, <1>6, <2>1, Zenon
<1>10. InHand(T, H2, o) \subseteq InHand(T, H, o) \cup {name}
  BY Zenon DEF InHand
<1>11. InHand(T, H2, o) \subseteq Before(T, k + 1)
  BY <1>4, <1>5, <1>10, Zenon
<1>12. ASSUME NEW y \in InHand(T, H2, o), NEW x \in Before(T, k + 1),
              SureWith(T, x, y, k + 1)
       PROVE  x \in H2
  <2>1. CASE y = name
    <3>1. Sure(T, x, k) /\ x \notin Drops(T.init[k])
      BY <1>1, <1>12, <2>1, SureWithStep, Zenon
    <3> QED
      BY <1>6, <3>1, Zenon
  <2>2. CASE y # name
    <3>1. y \in InHand(T, H, o) /\ y \in Before(T, k)
      BY <1>5, <1>10, <1>12, <2>2, Zenon
    <3>2. SureWith(T, x, y, k) /\ x \notin Drops(T.init[k])
      BY <1>1, <1>12, <3>1, SureWithEarlier, Zenon
    <3>3. x \in Before(T, k)
      BY <1>1, <3>1, <3>2, SureWithIsBefore, Zenon
    <3> QED
      BY <1>2, <1>5, <3>1, <3>2, <3>3, Zenon
  <2> QED
    BY <2>1, <2>2, Zenon
<1>13. F2 \subseteq MayBeFreed(T, k + 1)
  BY <1>2, <1>4, <1>5, Zenon
<1>14. P2 \subseteq Armed(T, k + 1)
  <2>1. Armed(T, k) \subseteq Armed(T, k + 1)
    BY <1>1, BeforeLater, Zenon
  <2>2. {name} \cap {"timer"} \subseteq Armed(T, k + 1)
    BY <1>4, Zenon DEF Armed
  <2> QED
    BY <1>5, <2>1, <2>2, Zenon
<1> HIDE DEF H2, F2, P2, name
<1>15. Holds(T, k + 1, H2, F2, P2, o, {})
  BY <1>7, <1>8, <1>9, <1>11, <1>12, <1>13, <1>14, Zenon DEF Holds
<1> QED
  BY <1>15, Zenon DEF H2, F2, P2, name

(* ... when it fails and loading goes on, all of its list released, ...    *)
LEMMA HoldsAcross ==
  ASSUME NEW T, WellFormed(T), NEW k \in 1 .. Len(T.init),
         CanJump(T.init[k]), NEW H, NEW F, NEW P, NEW o,
         Holds(T, k, H, F, P, o, ToSet(T.init[k].undo))
  PROVE  Holds(T, k + T.init[k].skip, H, F, P, o, {})
<1> DEFINE m == k + T.init[k].skip
           R == ToSet(T.init[k].undo)
<1>0. /\ Len(T.init) \in Nat /\ T.init[k].skip \in Nat
      /\ m <= Len(T.init) + 1
      /\ {"text", "live"} \cap R = {}
  BY WellFormedTable, Zenon DEF End
<1>1. /\ m \in k + 1 .. Len(T.init) + 1 /\ m \in Nat /\ k <= m
      /\ k \in Nat \ {0}
  BY <1>0 DEF CanJump
<1>2. Drops(T.init[k]) = R
  <2>1. ~Ends(T.init[k])
    BY <1>0 DEF CanJump, Ends
  <2> QED
    BY <2>1, Zenon DEF Drops
<1>3. /\ H \subseteq ({"text", "live"} \cup Possible(T, k)) \ R
      /\ "text" \in H
      /\ \A x \in Before(T, k) : Sure(T, x, k) /\ x \notin R => x \in H
      /\ InHand(T, H, o) \subseteq Before(T, k)
      /\ \A y \in InHand(T, H, o) : \A x \in Before(T, k) :
           SureWith(T, x, y, k) /\ x \notin R => x \in H
      /\ F \subseteq MayBeFreed(T, k) \cup R
      /\ P \subseteq Armed(T, k)
  BY <1>0, Zenon DEF Holds
<1>4. H \subseteq {"text", "live"} \cup Possible(T, m)
  BY <1>3, PossibleAcross, Zenon
<1>5. ASSUME NEW x \in Before(T, m), Sure(T, x, m)
      PROVE  x \in H
  <2>1. Sure(T, x, k) /\ x \notin R
    BY <1>2, <1>5, SureAcross, Zenon
  <2> QED
    BY <1>3, <2>1, SureIsBefore, Zenon
<1> HIDE DEF m, R
<1>6. /\ Before(T, k) \subseteq Before(T, m)
      /\ MayBeFreed(T, k) \subseteq MayBeFreed(T, m)
      /\ Armed(T, k) \subseteq Armed(T, m)
  BY <1>1, BeforeLater, Zenon
<1>7. ASSUME NEW y \in InHand(T, H, o), NEW x \in Before(T, m),
             SureWith(T, x, y, m)
      PROVE  x \in H
  <2>1. y \in Before(T, k)
    BY <1>3, Zenon
  <2>2. SureWith(T, x, y, k) /\ x \notin R
    BY <1>1, <1>2, <1>7, <2>1, SureWithEarlier, Zenon
  <2>3. x \in Before(T, k)
    BY <1>1, <2>1, <2>2, SureWithIsBefore, Zenon
  <2> QED
    BY <1>3, <2>2, <2>3, Zenon
<1>8. F \subseteq MayBeFreed(T, m)
  <2>1. k \in 1 .. m - 1
    BY <1>1
  <2>2. R \subseteq MayBeFreed(T, m)
    BY <1>2, <2>1, Zenon DEF MayBeFreed
  <2> QED
    BY <1>3, <1>6, <2>2, Zenon
<1>9. Holds(T, m, H, F, P, o, {})
  BY <1>3, <1>4, <1>5, <1>6, <1>7, <1>8, Zenon DEF Holds
<1> QED
  BY <1>9, Zenon DEF m

(* ... and when more is released.                                          *)
LEMMA HoldsWithout ==
  ASSUME NEW T, NEW k, NEW H, NEW F, NEW P, NEW o, NEW R,
         Holds(T, k, H, F, P, o, R), NEW X, NEW Y \in SUBSET X
  PROVE  Holds(T, k, H \ X, F \cup Y, P, o, R \cup X)
<1>1. InHand(T, H \ X, o) \subseteq InHand(T, H, o)
  BY Zenon DEF InHand
<1> QED
  BY <1>1, Zenon DEF Holds

-----------------------------------------------------------------------------
(* The inductive invariant.  In each phase the table holds of the driver,  *)
(* with what has been released so far: nothing while it loads and serves,  *)
(* the first q of the list that is gone through on a failure and a         *)
(* removal, and all of it in the end.                                      *)

(* The first q of list are done and rest is left.                          *)
Left(rest, list, q) ==
  /\ rest \in Seq(STRING) /\ Len(rest) = Len(list) - q
  /\ \A i \in 1 .. Len(rest) : rest[i] = list[i + q]

HoldsNow(R) == Holds(D, at, has, freed, pend, opened, R)

(* A removal that waits for open files found none, and lets none in.       *)
Closed(w) == w.pinned => ~opened /\ "live" \notin has

Up ==
  /\ phase \in {"init", "in"} /\ at \in 1 .. End(D) /\ todo = <<>>
  /\ phase = "in" => at = End(D)
  /\ HoldsNow({})

Undoing ==
  /\ phase = "undo" /\ at \in 1 .. Len(D.init) /\ D.init[at].fails
  /\ \E q \in 0 .. Len(D.init[at].undo) :
       /\ Left(todo, D.init[at].undo, q)
       /\ HoldsNow(Upto(D.init[at].undo, q))
       /\ Upto(D.init[at].undo, q) \subseteq freed

Failed ==
  /\ phase = "failed" /\ at \in 1 .. Len(D.init) /\ Ends(D.init[at])
  /\ todo = <<>>
  /\ HoldsNow(ToSet(D.init[at].undo) \cup Unloads(D))

Leaving ==
  /\ phase = "exit" /\ at = End(D)
  /\ \E w \in D.ways : \E q \in 0 .. Len(w.steps) :
       /\ Closed(w)
       /\ Left(todo, w.steps, q)
       /\ HoldsNow(Upto(w.steps, q))

Gone ==
  /\ phase = "gone" /\ at = End(D) /\ todo = <<>>
  /\ \E w \in D.ways : Closed(w) /\ HoldsNow(ToSet(w.steps) \cup {"bound"})

Inv == /\ drv \in DOMAIN Drivers
       /\ Up \/ Undoing \/ Failed \/ Leaving \/ Gone

-----------------------------------------------------------------------------
(* Going through a list.                                                   *)
LEMMA UptoEnds ==
  ASSUME NEW list \in Seq(STRING)
  PROVE  Upto(list, 0) = {} /\ Upto(list, Len(list)) = ToSet(list)
<1>1. 1 .. 0 = {} /\ DOMAIN list = 1 .. Len(list)
  OBVIOUS
<1> QED
  BY <1>1, Zenon DEF Upto, ToSet

LEMMA UptoNext ==
  ASSUME NEW list, NEW q \in Nat
  PROVE  Upto(list, q + 1) = Upto(list, q) \cup {list[q + 1]}
<1>1. 1 .. q + 1 = (1 .. q) \cup {q + 1}
  OBVIOUS
<1> QED
  BY <1>1, Zenon DEF Upto

LEMMA UptoWithin ==
  ASSUME NEW list \in Seq(STRING), NEW q \in 0 .. Len(list)
  PROVE  Upto(list, q) \subseteq ToSet(list)
<1>1. 1 .. q \subseteq DOMAIN list
  OBVIOUS
<1> QED
  BY <1>1, Zenon DEF Upto, ToSet

LEMMA LeftStarts ==
  ASSUME NEW list \in Seq(STRING)
  PROVE  Left(list, list, 0) /\ 0 \in 0 .. Len(list)
BY DEF Left

LEMMA LeftNext ==
  ASSUME NEW list \in Seq(STRING), NEW q \in 0 .. Len(list), NEW rest,
         Left(rest, list, q), rest # <<>>
  PROVE  /\ q + 1 \in 0 .. Len(list) /\ Head(rest) = list[q + 1]
         /\ Left(Tail(rest), list, q + 1)
<1>1. /\ rest \in Seq(STRING) /\ Len(rest) = Len(list) - q
      /\ Len(list) \in Nat /\ Len(rest) \in Nat \ {0}
      /\ \A i \in 1 .. Len(rest) : rest[i] = list[i + q]
  BY DEF Left
<1>2. q + 1 \in 0 .. Len(list) /\ 1 \in 1 .. Len(rest)
  BY <1>1
<1>3. Head(rest) = rest[1] /\ 1 + q = q + 1
  BY <1>1
<1>4. /\ Tail(rest) \in Seq(STRING)
      /\ Len(Tail(rest)) = Len(rest) - 1
      /\ \A i \in 1 .. Len(rest) - 1 : Tail(rest)[i] = rest[i + 1]
  BY <1>1
<1>5. \A i \in 1 .. Len(rest) - 1 : i + 1 \in 1 .. Len(rest)
                                    /\ (i + 1) + q = i + (q + 1)
  BY <1>1
<1>6. Left(Tail(rest), list, q + 1)
  <2>1. Len(Tail(rest)) = Len(list) - (q + 1)
    BY <1>1, <1>4
  <2>2. \A i \in 1 .. Len(rest) - 1 : Tail(rest)[i] = list[i + (q + 1)]
    BY <1>1, <1>4, <1>5, Zenon
  <2> QED
    BY <1>4, <2>1, <2>2, Zenon DEF Left
<1>7. Head(rest) = list[q + 1]
  BY <1>1, <1>2, <1>3, Zenon
<1> QED
  BY <1>2, <1>6, <1>7, Zenon

LEMMA LeftDone ==
  ASSUME NEW list \in Seq(STRING), NEW q \in 0 .. Len(list),
         Left(<<>>, list, q)
  PROVE  q = Len(list)
BY DEF Left

-----------------------------------------------------------------------------
(* The invariant holds at first, and every action keeps it.                *)
LEMMA InvInit ==
  ASSUME \A d \in DOMAIN Drivers : WellFormed(Drivers[d]), Init
  PROVE  Inv
<1>1. /\ drv \in DOMAIN Drivers /\ phase = "init" /\ at = 1 /\ todo = <<>>
      /\ has = {"text", "live"} /\ freed = {} /\ opened = FALSE /\ pend = {}
  BY Zenon DEF Init
<1>2. Len(D.init) \in Nat
  BY <1>1, WellFormedTable, Zenon DEF D
<1>3. at \in 1 .. End(D) /\ 1 .. at - 1 = {}
  BY <1>1, <1>2 DEF End
<1>4. InHand(D, has, opened) = {}
  BY <1>1, Zenon DEF InHand
<1>5. Before(D, at) = {}
  BY <1>3, Zenon DEF Before
<1>6. HoldsNow({})
  BY <1>1, <1>4, <1>5, Zenon DEF HoldsNow, Holds
<1>7. Up
  BY <1>1, <1>3, <1>6 DEF Up
<1> QED
  BY <1>1, <1>7, Zenon DEF Inv

LEMMA AcquireKeeps ==
  ASSUME WellFormed(D), Inv, Acquire
  PROVE  Inv'
<1> DEFINE k == at
           s == D.init[at]
           given == IF s.fails THEN {} ELSE ToSet(s.undo)
<1>1. /\ phase = "init" /\ at <= Len(D.init)
      /\ has' = (has \cup {s.name}) \ given
      /\ freed' = (freed \ {s.name}) \cup given
      /\ pend' = pend \cup ({s.name} \cap {"timer"})
      /\ at' = at + 1
      /\ drv' = drv /\ phase' = phase /\ todo' = todo /\ opened' = opened
  BY Zenon DEF Acquire
<1>2. Up /\ drv \in DOMAIN Drivers
  BY <1>1 DEF Inv, Undoing, Failed, Leaving, Gone
<1>3. Len(D.init) \in Nat
  BY WellFormedTable, Zenon
<1>4. at \in 1 .. Len(D.init) /\ todo = <<>> /\ HoldsNow({})
  BY <1>1, <1>2, <1>3 DEF Up, End
<1>5. D' = D
  BY <1>1, Zenon DEF D
<1>6. Holds(D, at, has, freed, pend, opened, {})
  BY <1>4, Zenon DEF HoldsNow
<1> HIDE DEF given
<1>7. given = IF s.fails THEN {} ELSE ToSet(s.undo)
  BY Zenon DEF given
<1> HIDE DEF s
<1>8. Holds(D, at + 1, has', freed', pend', opened, {})
  BY <1>1, <1>4, <1>6, <1>7, HoldsStep, Zenon DEF s
<1>9. HoldsNow({})'
  BY <1>1, <1>5, <1>8, Zenon DEF HoldsNow
<1>10. at' \in 1 .. End(D)
  BY <1>1, <1>3, <1>4 DEF End
<1>11. phase' \in {"init", "in"} /\ phase' # "in" /\ todo' = <<>>
  BY <1>1, <1>4
<1>12. Up'
  BY <1>5, <1>9, <1>10, <1>11, Zenon DEF Up
<1> QED
  BY <1>1, <1>2, <1>12, Zenon DEF Inv

LEMMA FailKeeps ==
  ASSUME WellFormed(D), Inv, Fail
  PROVE  Inv'
<1> DEFINE undo == D.init[at].undo
<1>1. /\ phase = "init" /\ at <= Len(D.init) /\ D.init[at].fails
      /\ phase' = "undo" /\ todo' = undo
      /\ drv' = drv /\ at' = at /\ has' = has /\ freed' = freed
      /\ opened' = opened /\ pend' = pend
  BY Zenon DEF Fail
<1>2. Up /\ drv \in DOMAIN Drivers
  BY <1>1 DEF Inv, Undoing, Failed, Leaving, Gone
<1>3. Len(D.init) \in Nat
  BY WellFormedTable, Zenon
<1>4. at \in 1 .. Len(D.init) /\ HoldsNow({})
  BY <1>1, <1>2, <1>3 DEF Up, End
<1>5. D' = D
  BY <1>1, Zenon DEF D
<1>6. undo \in Seq(STRING)
  BY <1>4, WellFormedTable, Zenon
<1>7. undo' = undo
  BY <1>1, <1>5, Zenon
<1> HIDE DEF undo
<1>8. 0 \in 0 .. Len(undo) /\ Left(todo', undo, 0) /\ Upto(undo, 0) = {}
  BY <1>1, <1>6, LeftStarts, UptoEnds, Zenon
<1>9. HoldsNow(Upto(undo, 0))' /\ Upto(undo, 0) \subseteq freed'
  BY <1>1, <1>4, <1>5, <1>7, <1>8, Zenon DEF HoldsNow
<1>10. Undoing'
  BY <1>1, <1>4, <1>5, <1>7, <1>8, <1>9, Zenon DEF Undoing, undo
<1> QED
  BY <1>1, <1>2, <1>10, Zenon DEF Inv

LEMMA UndoneKeeps ==
  ASSUME WellFormed(D), Inv, Undone
  PROVE  Inv'
<1> DEFINE undo == D.init[at].undo
           skip == D.init[at].skip
<1>1. /\ phase = "undo" /\ todo = <<>> /\ drv' = drv /\ todo' = todo
      /\ freed' = freed /\ opened' = opened /\ pend' = pend
      /\ \/ skip > 0 /\ phase' = "init" /\ at' = at + skip /\ has' = has
         \/ /\ ~(skip > 0) /\ phase' = "failed" /\ at' = at
            /\ has' = IF D.module THEN has \ {"text"} ELSE has
  BY Zenon DEF Undone
<1>2. Undoing /\ drv \in DOMAIN Drivers
  BY <1>1 DEF Inv, Up, Failed, Leaving, Gone
<1>3. Len(D.init) \in Nat
  BY WellFormedTable, Zenon
<1>4. /\ at \in 1 .. Len(D.init) /\ D.init[at].fails
      /\ \E q \in 0 .. Len(undo) : /\ Left(todo, undo, q)
                                   /\ HoldsNow(Upto(undo, q))
  BY <1>2, Zenon DEF Undoing
<1>5. D' = D
  BY <1>1, Zenon DEF D
<1>6. /\ undo \in Seq(STRING) /\ skip \in Nat /\ at + skip <= End(D)
      /\ D.module \in BOOLEAN
  BY <1>4, WellFormedTable, Zenon
<1> HIDE DEF undo
<1>7. HoldsNow(ToSet(undo))
  <2>1. PICK q \in 0 .. Len(undo) : Left(<<>>, undo, q) /\ HoldsNow(Upto(undo, q))
    BY <1>1, <1>4, Zenon
  <2>2. q = Len(undo)
    BY <1>6, <2>1, LeftDone, Zenon
  <2> QED
    BY <1>6, <2>1, <2>2, UptoEnds, Zenon
<1>8. Holds(D, at, has, freed, pend, opened, ToSet(undo))
  BY <1>7, Zenon DEF HoldsNow
<1>9. CASE skip > 0 /\ phase' = "init" /\ at' = at + skip /\ has' = has
  <2>1. CanJump(D.init[at])
    BY <1>4, <1>9, Zenon DEF CanJump
  <2>2. Holds(D, at + skip, has, freed, pend, opened, {})
    BY <1>4, <1>8, <2>1, HoldsAcross, Zenon DEF undo
  <2>3. HoldsNow({})'
    BY <1>1, <1>5, <1>9, <2>2, Zenon DEF HoldsNow
  <2>4. at + skip \in 1 .. End(D)
    BY <1>3, <1>4, <1>6 DEF End
  <2>5. phase' \in {"init", "in"} /\ phase' # "in" /\ todo' = <<>>
    BY <1>1, <1>9
  <2>6. Up'
    BY <1>5, <1>9, <2>3, <2>4, <2>5, Zenon DEF Up
  <2> QED
    BY <1>1, <1>2, <2>6, Zenon DEF Inv
<1>10. CASE /\ ~(skip > 0) /\ phase' = "failed" /\ at' = at
            /\ has' = IF D.module THEN has \ {"text"} ELSE has
  <2> DEFINE X == Unloads(D)
  <2>1. Ends(D.init[at])
    <3>1. skip = 0
      BY <1>6, <1>10
    <3> QED
      BY <1>4, <3>1, Zenon DEF Ends
  <2>2. has' = has \ X
    BY <1>6, <1>10, Zenon DEF Unloads
  <2>3. {} \in SUBSET X /\ freed = freed \cup {}
    BY Zenon
  <2>4. Holds(D, at, has \ X, freed \cup {}, pend, opened, ToSet(undo) \cup X)
    BY <1>8, <2>3, HoldsWithout, Zenon
  <2>5. undo' = undo /\ X' = X
    BY <1>5, <1>10, Zenon DEF undo, Unloads
  <2>6. HoldsNow(ToSet(undo) \cup X)'
    BY <1>1, <1>5, <1>10, <2>2, <2>3, <2>4, <2>5, Zenon DEF HoldsNow
  <2>7. Failed'
    BY <1>1, <1>4, <1>5, <1>10, <2>1, <2>6, Zenon DEF Failed, undo
  <2> QED
    BY <1>1, <1>2, <2>7, Zenon DEF Inv
<1> QED
  BY <1>1, <1>9, <1>10, Zenon

LEMMA LoadedKeeps ==
  ASSUME WellFormed(D), Inv, Loaded
  PROVE  Inv'
<1>1. /\ phase = "init" /\ at > Len(D.init) /\ phase' = "in"
      /\ drv' = drv /\ at' = at /\ todo' = todo /\ has' = has
      /\ freed' = freed /\ opened' = opened /\ pend' = pend
  BY Zenon DEF Loaded
<1>2. Up /\ drv \in DOMAIN Drivers
  BY <1>1 DEF Inv, Undoing, Failed, Leaving, Gone
<1>3. at \in 1 .. End(D) /\ at = End(D)
  <2>1. Len(D.init) \in Nat
    BY WellFormedTable, Zenon
  <2> QED
    BY <1>1, <1>2, <2>1 DEF Up, End
<1>4. D' = D
  BY <1>1, Zenon DEF D
<1>5. HoldsNow({})'
  BY <1>1, <1>2, <1>4, Zenon DEF Up, HoldsNow
<1>6. todo' = <<>> /\ phase' \in {"init", "in"}
  BY <1>1, <1>2 DEF Up
<1>7. Up'
  BY <1>1, <1>3, <1>4, <1>5, <1>6, Zenon DEF Up
<1> QED
  BY <1>1, <1>2, <1>7, Zenon DEF Inv

(* Neither any step nor what an open needs is the code of the driver.      *)
LEMMA HoldsClosed ==
  ASSUME NEW T, NEW k, NEW H, NEW F, NEW P, NEW o, NEW R, WellFormed(T),
         NEW j \in Nat, k = j + 1, j <= Len(T.init),
         Holds(T, k, H, F, P, o, R)
  PROVE  Holds(T, k, H \ {"live"}, F, P, o, R)
<1>1. "live" \notin Before(T, k)
  <2>1. Len(T.init) \in Nat
    BY WellFormedTable, Zenon
  <2>2. \A i \in 1 .. k - 1 : i \in 1 .. Len(T.init)
    BY <2>1
  <2>3. \A i \in 1 .. k - 1 : T.init[i].name \notin {"text", "live"}
    BY <2>2, WellFormedTable, Zenon
  <2> QED
    BY <2>3, Zenon DEF Before
<1>2. InHand(T, H \ {"live"}, o) = InHand(T, H, o)
  BY Zenon DEF InHand
<1>3. "text" # "live"
  OBVIOUS
<1> QED
  BY <1>1, <1>2, <1>3, Zenon DEF Holds

LEMMA TakeDownKeeps ==
  ASSUME WellFormed(D), Inv, TakeDown
  PROVE  Inv'
<1>1. PICK w \in D.ways :
        /\ phase = "in" /\ phase' = "exit"
        /\ w.pinned => ~opened
        /\ has' = IF w.pinned THEN has \ {"live"} ELSE has
        /\ todo' = w.steps
        /\ drv' = drv /\ at' = at
        /\ freed' = freed /\ opened' = opened /\ pend' = pend
  BY Zenon DEF TakeDown
<1>2. Up /\ drv \in DOMAIN Drivers
  BY <1>1 DEF Inv, Undoing, Failed, Leaving, Gone
<1>3. at = End(D) /\ Holds(D, at, has, freed, pend, opened, {})
  BY <1>1, <1>2, Zenon DEF Up, HoldsNow
<1>4. w.steps \in Seq(STRING) /\ w.pinned \in BOOLEAN /\ Len(D.init) \in Nat
  BY WellFormedTable, Zenon
<1>5. D' = D
  BY <1>1, Zenon DEF D
<1>6. Left(todo', w.steps, 0) /\ 0 \in 0 .. Len(w.steps)
      /\ Upto(w.steps, 0) = {}
  BY <1>1, <1>4, LeftStarts, UptoEnds, Zenon
<1>7. Holds(D, at, has \ {"live"}, freed, pend, opened, {})
  <2>1. at = Len(D.init) + 1 /\ Len(D.init) <= Len(D.init)
    BY <1>3, <1>4 DEF End
  <2> QED
    BY <1>3, <1>4, <2>1, HoldsClosed, Zenon
<1>8. Holds(D, at, has', freed, pend, opened, {})
  BY <1>1, <1>3, <1>7, Zenon
<1>9. HoldsNow(Upto(w.steps, 0))'
  BY <1>1, <1>5, <1>6, <1>8, Zenon DEF HoldsNow
<1>10. Closed(w)'
  BY <1>1, Zenon DEF Closed
<1>11. Leaving'
  BY <1>1, <1>3, <1>5, <1>6, <1>9, <1>10, Zenon DEF Leaving
<1> QED
  BY <1>1, <1>2, <1>11, Zenon DEF Inv

LEMMA ReleaseKeeps ==
  ASSUME WellFormed(D), Inv, Release
  PROVE  Inv'
<1> DEFINE x == Head(todo)
<1>1. /\ todo # <<>> /\ has' = has \ {x} /\ freed' = freed \cup {x}
      /\ todo' = Tail(todo) /\ drv' = drv /\ phase' = phase /\ at' = at
      /\ opened' = opened /\ pend' = pend
  BY Zenon DEF Release
<1>2. (Undoing \/ Leaving) /\ drv \in DOMAIN Drivers
  BY <1>1, Zenon DEF Inv, Up, Failed, Gone
<1>3. D' = D
  BY <1>1, Zenon DEF D
<1> HIDE DEF x
<1>4. ASSUME NEW list \in Seq(STRING), NEW q \in 0 .. Len(list),
             Left(todo, list, q), HoldsNow(Upto(list, q))
      PROVE  /\ q + 1 \in 0 .. Len(list)
             /\ Left(todo', list, q + 1)
             /\ Holds(D', at', has', freed', pend', opened', Upto(list, q + 1))
             /\ Upto(list, q + 1) = Upto(list, q) \cup {x}
  <2>1. /\ q + 1 \in 0 .. Len(list) /\ x = list[q + 1]
        /\ Left(todo', list, q + 1)
    BY <1>1, <1>4, LeftNext, Zenon DEF x
  <2>2. Upto(list, q + 1) = Upto(list, q) \cup {x}
    <3>1. q \in Nat
      OBVIOUS
    <3> QED
      BY <2>1, <3>1, UptoNext, Zenon
  <2>3. Holds(D, at, has, freed, pend, opened, Upto(list, q))
    BY <1>4, Zenon DEF HoldsNow
  <2>4. {x} \in SUBSET {x}
    BY Zenon
  <2>5. Holds(D, at, has \ {x}, freed \cup {x}, pend, opened,
              Upto(list, q) \cup {x})
    BY <2>3, <2>4, HoldsWithout, Zenon
  <2>6. Holds(D', at', has', freed', pend', opened', Upto(list, q + 1))
    BY <1>1, <1>3, <2>2, <2>5, Zenon
  <2> QED
    BY <2>1, <2>2, <2>6, Zenon
<1>5. CASE Undoing
  <2> DEFINE undo == D.init[at].undo
  <2>1. /\ phase = "undo" /\ at \in 1 .. Len(D.init) /\ D.init[at].fails
        /\ \E q \in 0 .. Len(undo) : /\ Left(todo, undo, q)
                                     /\ HoldsNow(Upto(undo, q))
                                     /\ Upto(undo, q) \subseteq freed
    BY <1>5, Zenon DEF Undoing
  <2>2. undo \in Seq(STRING)
    BY <2>1, WellFormedTable, Zenon
  <2>3. undo' = undo
    BY <1>1, <1>3, Zenon
  <2> HIDE DEF undo
  <2>4. PICK q \in 0 .. Len(undo) : /\ Left(todo, undo, q)
                                    /\ HoldsNow(Upto(undo, q))
                                    /\ Upto(undo, q) \subseteq freed
    BY <2>1, Zenon
  <2>5. /\ q + 1 \in 0 .. Len(undo)
        /\ Left(todo', undo, q + 1)
        /\ Holds(D', at', has', freed', pend', opened', Upto(undo, q + 1))
        /\ Upto(undo, q + 1) = Upto(undo, q) \cup {x}
    BY <1>4, <2>2, <2>4, Zenon
  <2>6. Upto(undo, q + 1) \subseteq freed'
    BY <1>1, <2>4, <2>5, Zenon
  <2>7. Undoing'
    BY <1>1, <1>3, <2>1, <2>3, <2>5, <2>6, Zenon DEF Undoing, HoldsNow, undo
  <2> QED
    BY <1>1, <1>2, <2>7, Zenon DEF Inv
<1>6. CASE Leaving
  <2>1. phase = "exit" /\ at = End(D)
    BY <1>6, Zenon DEF Leaving
  <2>2. PICK w \in D.ways : \E q \in 0 .. Len(w.steps) :
          Closed(w) /\ Left(todo, w.steps, q) /\ HoldsNow(Upto(w.steps, q))
    BY <1>6, Zenon DEF Leaving
  <2>3. PICK q \in 0 .. Len(w.steps) :
          Closed(w) /\ Left(todo, w.steps, q) /\ HoldsNow(Upto(w.steps, q))
    BY <2>2, Zenon
  <2>4. w.steps \in Seq(STRING)
    BY WellFormedTable, Zenon
  <2>5. /\ q + 1 \in 0 .. Len(w.steps)
        /\ Left(todo', w.steps, q + 1)
        /\ Holds(D', at', has', freed', pend', opened', Upto(w.steps, q + 1))
    BY <1>4, <2>3, <2>4, Zenon
  <2>6. Closed(w)'
    BY <1>1, <2>3, Zenon DEF Closed
  <2>7. Leaving'
    BY <1>1, <1>3, <2>1, <2>5, <2>6, Zenon DEF Leaving, HoldsNow
  <2> QED
    BY <1>1, <1>2, <2>7, Zenon DEF Inv
<1> QED
  BY <1>2, <1>5, <1>6, Zenon

LEMMA RemovedKeeps ==
  ASSUME WellFormed(D), Inv, Removed
  PROVE  Inv'
<1>1. /\ phase = "exit" /\ todo = <<>> /\ phase' = "gone"
      /\ has' = has \ {"bound"} /\ drv' = drv /\ at' = at /\ todo' = todo
      /\ freed' = freed /\ opened' = opened /\ pend' = pend
  BY Zenon DEF Removed
<1>2. Leaving /\ drv \in DOMAIN Drivers
  BY <1>1 DEF Inv, Up, Undoing, Failed, Gone
<1>3. D' = D
  BY <1>1, Zenon DEF D
<1>4. PICK w \in D.ways : \E q \in 0 .. Len(w.steps) :
        Closed(w) /\ Left(todo, w.steps, q) /\ HoldsNow(Upto(w.steps, q))
  BY <1>2, Zenon DEF Leaving
<1>5. w.steps \in Seq(STRING)
  BY WellFormedTable, Zenon
<1>6. Closed(w) /\ HoldsNow(ToSet(w.steps))
  <2>1. PICK q \in 0 .. Len(w.steps) :
          Closed(w) /\ Left(<<>>, w.steps, q) /\ HoldsNow(Upto(w.steps, q))
    BY <1>1, <1>4, Zenon
  <2>2. q = Len(w.steps)
    BY <1>5, <2>1, LeftDone, Zenon
  <2> QED
    BY <1>5, <2>1, <2>2, UptoEnds, Zenon
<1>8. HoldsNow(ToSet(w.steps) \cup {"bound"})'
  <2>1. {} \in SUBSET {"bound"} /\ freed \cup {} = freed
    BY Zenon
  <2>2. Holds(D, at, has \ {"bound"}, freed \cup {}, pend, opened,
              ToSet(w.steps) \cup {"bound"})
    BY <1>6, <2>1, HoldsWithout, Zenon DEF HoldsNow
  <2> QED
    BY <1>1, <1>3, <2>1, <2>2, Zenon DEF HoldsNow
<1>9. Closed(w)'
  BY <1>1, <1>6, Zenon DEF Closed
<1>10. at = End(D)
  BY <1>2, Zenon DEF Leaving
<1>11. Gone'
  BY <1>1, <1>3, <1>8, <1>9, <1>10, Zenon DEF Gone
<1> QED
  BY <1>1, <1>2, <1>11, Zenon DEF Inv

(* What runs meanwhile moves neither the loading nor the removal.          *)
LEMMA MeanwhileKeeps ==
  ASSUME Inv, drv' = drv, phase' = phase, at' = at, todo' = todo,
         freed' = freed,
         \A R : HoldsNow(R) => HoldsNow(R)',
         \A w \in D.ways : Closed(w) => Closed(w)'
  PROVE  Inv'
<1>1. D' = D
  BY Zenon DEF D
<1>2. CASE Up
  <2>1. Up'
    BY <1>1, <1>2, Zenon DEF Up
  <2> QED
    BY <2>1, Zenon DEF Inv
<1>3. CASE Undoing
  <2>1. Undoing'
    BY <1>1, <1>3, Zenon DEF Undoing
  <2> QED
    BY <2>1, Zenon DEF Inv
<1>4. CASE Failed
  <2>1. (ToSet(D.init[at].undo) \cup Unloads(D))'
          = ToSet(D.init[at].undo) \cup Unloads(D)
    BY <1>1, Zenon DEF Unloads
  <2>2. Failed'
    BY <1>1, <1>4, <2>1, Zenon DEF Failed
  <2> QED
    BY <2>2, Zenon DEF Inv
<1>5. CASE Leaving
  <2>1. Leaving'
    BY <1>1, <1>5, Zenon DEF Leaving
  <2> QED
    BY <2>1, Zenon DEF Inv
<1>6. CASE Gone
  <2>1. Gone'
    BY <1>1, <1>6, Zenon DEF Gone
  <2> QED
    BY <2>1, Zenon DEF Inv
<1> QED
  BY <1>2, <1>3, <1>4, <1>5, <1>6, Zenon DEF Inv

(* An open, a close, an interrupt or a timer changes what is in hand or    *)
(* armed only within what the table knows of.                              *)
LEMMA HoldsMeanwhile ==
  ASSUME NEW T, NEW k, NEW H, NEW F, NEW P, NEW o, NEW R,
         Holds(T, k, H, F, P, o, R), NEW P2 \in SUBSET Armed(T, k), NEW o2,
         InHand(T, H, o2) \subseteq InHand(T, H, o)
  PROVE  Holds(T, k, H, F, P2, o2, R)
BY Zenon DEF Holds

LEMMA OpenKeeps ==
  ASSUME Inv, Open
  PROVE  Inv'
<1>1. /\ D.node \cup {"live"} \subseteq has /\ opened' = TRUE
      /\ drv' = drv /\ phase' = phase /\ at' = at /\ todo' = todo
      /\ has' = has /\ freed' = freed /\ pend' = pend
  BY Zenon DEF Open
<1>2. D' = D
  BY <1>1, Zenon DEF D
<1>3. InHand(D, has, TRUE) \subseteq InHand(D, has, opened)
  BY <1>1, Zenon DEF InHand
<1>4. ASSUME NEW R, HoldsNow(R) PROVE HoldsNow(R)'
  <2>1. Holds(D, at, has, freed, pend, opened, R)
    BY <1>4, Zenon DEF HoldsNow
  <2>2. pend \in SUBSET Armed(D, at)
    BY <2>1, Zenon DEF Holds
  <2>3. Holds(D, at, has, freed, pend, TRUE, R)
    BY <1>3, <2>1, <2>2, HoldsMeanwhile, Zenon
  <2> QED
    BY <1>1, <1>2, <2>3, Zenon DEF HoldsNow
<1>5. \A w \in D.ways : Closed(w) => Closed(w)'
  BY <1>1, Zenon DEF Closed
<1> QED
  BY <1>1, <1>4, <1>5, MeanwhileKeeps, Zenon

LEMMA CloseKeeps ==
  ASSUME Inv, Close
  PROVE  Inv'
<1>1. /\ opened' = FALSE
      /\ drv' = drv /\ phase' = phase /\ at' = at /\ todo' = todo
      /\ has' = has /\ freed' = freed /\ pend' = pend
  BY Zenon DEF Close
<1>2. D' = D
  BY <1>1, Zenon DEF D
<1>3. InHand(D, has, FALSE) \subseteq InHand(D, has, opened)
  BY Zenon DEF InHand
<1>4. ASSUME NEW R, HoldsNow(R) PROVE HoldsNow(R)'
  <2>1. Holds(D, at, has, freed, pend, opened, R)
    BY <1>4, Zenon DEF HoldsNow
  <2>2. pend \in SUBSET Armed(D, at)
    BY <2>1, Zenon DEF Holds
  <2>3. Holds(D, at, has, freed, pend, FALSE, R)
    BY <1>3, <2>1, <2>2, HoldsMeanwhile, Zenon
  <2> QED
    BY <1>1, <1>2, <2>3, Zenon DEF HoldsNow
<1>5. \A w \in D.ways : Closed(w) => Closed(w)'
  BY <1>1, Zenon DEF Closed
<1> QED
  BY <1>1, <1>4, <1>5, MeanwhileKeeps, Zenon

LEMMA DeferringKeeps ==
  ASSUME Inv, Interrupt \/ Deferred
  PROVE  Inv'
<1>1. /\ drv' = drv /\ phase' = phase /\ at' = at /\ todo' = todo
      /\ has' = has /\ freed' = freed /\ opened' = opened
      /\ \/ "irq" \in has /\ pend' = pend \cup D.kicks
         \/ pend' \subseteq pend
  BY Zenon DEF Interrupt, Deferred
<1>2. D' = D
  BY <1>1, Zenon DEF D
<1>3. ASSUME NEW R, HoldsNow(R) PROVE HoldsNow(R)'
  <2>1. Holds(D, at, has, freed, pend, opened, R)
    BY <1>3, Zenon DEF HoldsNow
  <2>2. pend \subseteq Armed(D, at) /\ InHand(D, has, opened) \subseteq Before(D, at)
    BY <2>1, Zenon DEF Holds
  <2>3. pend' \in SUBSET Armed(D, at)
    <3>1. CASE "irq" \in has /\ pend' = pend \cup D.kicks
      <4>1. "irq" # "text" /\ "irq" # "live"
        OBVIOUS
      <4>2. "irq" \in Before(D, at)
        BY <2>2, <3>1, <4>1, Zenon DEF InHand
      <4>3. D.kicks \subseteq Armed(D, at)
        BY <4>2, Zenon DEF Armed
      <4> QED
        BY <2>2, <3>1, <4>3, Zenon
    <3>2. CASE pend' \subseteq pend
      BY <2>2, <3>2, Zenon
    <3> QED
      BY <1>1, <3>1, <3>2, Zenon
  <2>4. Holds(D, at, has, freed, pend', opened, R)
    <3>1. InHand(D, has, opened) \subseteq InHand(D, has, opened)
      BY Zenon
    <3> QED
      BY <2>1, <2>3, <3>1, HoldsMeanwhile, Zenon
  <2> QED
    BY <1>1, <1>2, <2>4, Zenon DEF HoldsNow
<1>4. \A w \in D.ways : Closed(w) => Closed(w)'
  BY <1>1, Zenon DEF Closed
<1> QED
  BY <1>1, <1>3, <1>4, MeanwhileKeeps, Zenon

LEMMA StutterKeeps ==
  ASSUME Inv, UNCHANGED vars
  PROVE  Inv'
<1>1. /\ drv' = drv /\ phase' = phase /\ at' = at /\ todo' = todo
      /\ has' = has /\ freed' = freed /\ opened' = opened /\ pend' = pend
  BY Zenon DEF vars
<1>2. D' = D
  BY <1>1, Zenon DEF D
<1>3. ASSUME NEW R, HoldsNow(R) PROVE HoldsNow(R)'
  BY <1>1, <1>2, <1>3, Zenon DEF HoldsNow
<1>4. \A w \in D.ways : Closed(w) => Closed(w)'
  BY <1>1, Zenon DEF Closed
<1> QED
  BY <1>1, <1>3, <1>4, MeanwhileKeeps, Zenon

(* Whatever tables are well formed, the invariant holds throughout.        *)
THEOREM AlwaysInv ==
  ASSUME \A d \in DOMAIN Drivers : WellFormed(Drivers[d])
  PROVE  Spec => []Inv
<1>1. Init => Inv
  BY InvInit, Zenon
<1>2. Inv /\ [Next]_vars => Inv'
  <2> SUFFICES ASSUME Inv, [Next]_vars PROVE Inv'
    OBVIOUS
  <2>1. WellFormed(D)
    BY Zenon DEF Inv, D
  <2>2. CASE Acquire
    BY <2>1, <2>2, AcquireKeeps, Zenon
  <2>3. CASE Fail
    BY <2>1, <2>3, FailKeeps, Zenon
  <2>4. CASE Undone
    BY <2>1, <2>4, UndoneKeeps, Zenon
  <2>5. CASE Loaded
    BY <2>1, <2>5, LoadedKeeps, Zenon
  <2>6. CASE TakeDown
    BY <2>1, <2>6, TakeDownKeeps, Zenon
  <2>7. CASE Release
    BY <2>1, <2>7, ReleaseKeeps, Zenon
  <2>8. CASE Removed
    BY <2>1, <2>8, RemovedKeeps, Zenon
  <2>9. CASE Open
    BY <2>9, OpenKeeps, Zenon
  <2>10. CASE Close
    BY <2>10, CloseKeeps, Zenon
  <2>11. CASE Interrupt \/ Deferred
    BY <2>11, DeferringKeeps, Zenon
  <2>12. CASE UNCHANGED vars
    BY <2>12, StutterKeeps, Zenon
  <2> QED
    BY <2>2, <2>3, <2>4, <2>5, <2>6, <2>7, <2>8, <2>9, <2>10, <2>11, <2>12,
       Zenon DEF Next
<1> QED
  BY <1>1, <1>2, PTL DEF Spec

-----------------------------------------------------------------------------
(* What is firm for an entry that can run is there.                        *)
LEMMA FirmIsThere ==
  ASSUME NEW T, NEW k \in Nat, NEW H, NEW F, NEW P, NEW o, NEW R,
         Holds(T, k, H, F, P, o, R), NEW e,
         Guard(T, e) \subseteq InHand(T, H, o),
         NEW x, Firm(T, e, x, k), x \notin R
  PROVE  x \in H
<1>1. CASE Sure(T, x, k)
  BY <1>1, SureIsBefore, Zenon DEF Holds
<1>2. CASE \E y \in Guard(T, e) : SureWith(T, x, y, k)
  <2>1. PICK y \in InHand(T, H, o) : SureWith(T, x, y, k)
    BY <1>2, Zenon
  <2>2. y \in Before(T, k)
    BY Zenon DEF Holds
  <2>3. x \in Before(T, k)
    BY <2>1, <2>2, SureWithIsBefore, Zenon
  <2> QED
    BY <2>1, <2>3, Zenon DEF Holds
<1> QED
  BY <1>1, <1>2, Zenon DEF Firm

(* Lost, in terms of the table; and what had to be lost to be missing is.  *)
LEMMA LostIsLoseable ==
  Lost = Loseable(D, at) \ (has \cup freed)
<1>1. ASSUME NEW x
      PROVE  x \in Lost <=> x \in Loseable(D, at) /\ x \notin has \cup freed
  BY Zenon DEF Lost, Loseable
<1> QED
  BY <1>1, Zenon

LEMMA MissingIsLost ==
  ASSUME NEW R, HoldsNow(R), NEW x, LostIfMissing(D, x, at),
         x \notin R, x \notin has
  PROVE  x \in Lost
BY LostIsLoseable, Zenon DEF HoldsNow, Holds, LostIfMissing

(* What can run is what the table calls reachable.                         *)
LEMMA RunnableIsReachable ==
  ASSUME WellFormed(D), NEW R, HoldsNow(R), NEW e, e # "init", Runnable(e)
  PROVE  /\ Reachable(D, e, at)
         /\ Guard(D, e) \subseteq InHand(D, has, opened)
<1>1. /\ InHand(D, has, opened) \subseteq Before(D, at)
      /\ pend \subseteq Armed(D, at)
  BY Zenon DEF HoldsNow, Holds
<1>2. {"text", "live"} \cap D.node = {}
  BY WellFormedTable, Zenon
<1>3. CASE e = "open"
  <2>1. D.node \subseteq has
    BY <1>3 DEF Runnable
  <2>2. D.node \subseteq InHand(D, has, opened)
    BY <1>2, <2>1, Zenon DEF InHand
  <2>3. e \in {"open", "call"}
    BY <1>3, Zenon
  <2> QED
    BY <1>1, <2>2, <2>3 DEF Reachable, Guard
<1>4. CASE e = "call"
  <2>1. opened
    BY <1>4 DEF Runnable
  <2>2. D.node \subseteq InHand(D, has, opened)
    BY <1>2, <2>1, Zenon DEF InHand
  <2>3. e \in {"open", "call"}
    BY <1>4, Zenon
  <2> QED
    BY <1>1, <2>2, <2>3 DEF Reachable, Guard
<1>5. CASE e \in {"irq", "attr"}
  <2>1. e \in has /\ e \notin {"open", "call"} /\ e \notin {"text", "live"}
    BY <1>5 DEF Runnable
  <2>2. e \in InHand(D, has, opened)
    BY <2>1, Zenon DEF InHand
  <2> QED
    BY <1>1, <1>5, <2>1, <2>2 DEF Reachable, Guard
<1>6. CASE e \notin {"open", "call", "irq", "attr"}
  <2>1. e \in pend
    BY <1>6 DEF Runnable
  <2> QED
    BY <1>1, <1>6, <2>1 DEF Reachable, Guard
<1> QED
  BY <1>3, <1>4, <1>5, <1>6

(* What the invariant says before a removal or a failure that ends the     *)
(* attempt, ...                                                            *)
LEMMA WhileComing ==
  ASSUME WellFormed(D), Inv, Coming
  PROVE  \E R : /\ HoldsNow(R) /\ R \subseteq freed /\ "text" \notin R
                /\ at \in 1 .. End(D)
                /\ \A x \in R : /\ at < End(D) /\ CanJump(D.init[at])
                                /\ x \in ToSet(D.init[at].undo)
<1>1. Up \/ Undoing
  BY DEF Coming, Inv, Failed, Leaving, Gone
<1>2. CASE Up
  <2>1. HoldsNow({}) /\ at \in 1 .. End(D)
    BY <1>2, Zenon DEF Up
  <2> DEFINE None == {}
  <2>2. /\ None \subseteq freed /\ "text" \notin None
        /\ \A x \in None : /\ at < End(D) /\ CanJump(D.init[at])
                          /\ x \in ToSet(D.init[at].undo)
    BY Zenon
  <2>3. HoldsNow(None)
    BY <2>1, Zenon
  <2> HIDE DEF None
  <2> WITNESS None
  <2> QED
    BY <2>1, <2>2, <2>3, Zenon
<1>3. CASE Undoing
  <2> DEFINE undo == D.init[at].undo
  <2>1. /\ phase = "undo" /\ at \in 1 .. Len(D.init) /\ D.init[at].fails
        /\ D.init[at].skip > 0
    BY <1>3 DEF Undoing, Coming
  <2>2. PICK q \in 0 .. Len(undo) : HoldsNow(Upto(undo, q))
                                    /\ Upto(undo, q) \subseteq freed
    BY <1>3, Zenon DEF Undoing
  <2>3. /\ undo \in Seq(STRING) /\ {"text", "live"} \cap ToSet(undo) = {}
        /\ Len(D.init) \in Nat
    BY <2>1, WellFormedTable, Zenon
  <2> HIDE DEF undo
  <2>4. Upto(undo, q) \subseteq ToSet(undo)
    BY <2>3, UptoWithin, Zenon
  <2>5. CanJump(D.init[at])
    BY <2>1, Zenon DEF CanJump
  <2>6. at \in 1 .. End(D) /\ at < End(D)
    BY <2>1, <2>3 DEF End
  <2> QED
    BY <2>2, <2>3, <2>4, <2>5, <2>6, Zenon DEF undo
<1> QED
  BY <1>1, <1>2, <1>3, Zenon

(* ... and from then on.                                                   *)
LEMMA WhileGoing ==
  ASSUME WellFormed(D), Inv, ~Coming
  PROVE  /\ phase # "init" /\ at \in Nat
         /\ \E R : /\ HoldsNow(R)
                   /\ \/ /\ at \in 1 .. Len(D.init) /\ Ends(D.init[at])
                         /\ R \in Stages(D.init[at].undo, Unloads(D))
                      \/ /\ at = End(D)
                         /\ \E w \in D.ways :
                              Closed(w) /\ R \in Stages(w.steps, {"bound"})
<1>0. Len(D.init) \in Nat
  BY WellFormedTable, Zenon
<1>1. phase # "init" /\ ~Up
  BY DEF Coming, Up
<1>2. at \in Nat
  BY <1>0, <1>1 DEF Inv, Undoing, Failed, Leaving, Gone, End
<1>3. CASE Undoing
  <2>1. /\ at \in 1 .. Len(D.init) /\ D.init[at].fails /\ ~(D.init[at].skip > 0)
    BY <1>3 DEF Undoing, Coming
  <2>2. D.init[at].skip \in Nat
    BY <2>1, WellFormedTable, Zenon
  <2>3. D.init[at].skip = 0
    BY <2>1, <2>2
  <2>4. Ends(D.init[at])
    BY <2>1, <2>3, Zenon DEF Ends
  <2>5. PICK q \in 0 .. Len(D.init[at].undo) : HoldsNow(Upto(D.init[at].undo, q))
    BY <1>3, Zenon DEF Undoing
  <2>6. Upto(D.init[at].undo, q) \in Stages(D.init[at].undo, Unloads(D))
    BY Zenon DEF Stages
  <2> QED
    BY <1>1, <1>2, <2>1, <2>4, <2>5, <2>6, Zenon
<1>4. CASE Failed
  <2>1. ToSet(D.init[at].undo) \cup Unloads(D)
          \in Stages(D.init[at].undo, Unloads(D))
    BY Zenon DEF Stages
  <2> QED
    BY <1>1, <1>2, <1>4, <2>1, Zenon DEF Failed
<1>5. CASE Leaving
  <2>1. PICK w \in D.ways : \E q \in 0 .. Len(w.steps) :
          Closed(w) /\ HoldsNow(Upto(w.steps, q))
    BY <1>5, Zenon DEF Leaving
  <2>2. PICK q \in 0 .. Len(w.steps) : Closed(w) /\ HoldsNow(Upto(w.steps, q))
    BY <2>1, Zenon
  <2>3. Upto(w.steps, q) \in Stages(w.steps, {"bound"})
    BY Zenon DEF Stages
  <2> QED
    BY <1>1, <1>2, <1>5, <2>2, <2>3, Zenon DEF Leaving
<1>6. CASE Gone
  <2>1. PICK w \in D.ways :
          Closed(w) /\ HoldsNow(ToSet(w.steps) \cup {"bound"})
    BY <1>6, Zenon DEF Gone
  <2>2. ToSet(w.steps) \cup {"bound"} \in Stages(w.steps, {"bound"})
    BY Zenon DEF Stages
  <2> QED
    BY <1>1, <1>2, <1>6, <2>1, <2>2, Zenon DEF Gone
<1> QED
  BY <1>1, <1>3, <1>4, <1>5, <1>6, Zenon DEF Inv

LEMMA FaultIsMissing ==
  ASSUME NEW f \in Faults
  PROVE  \E e \in DOMAIN D.uses : \E x \in Missing(e) :
           Runnable(e) /\ f = <<e, x>>
BY Zenon DEF Faults

-----------------------------------------------------------------------------
(* If every entry is made reachable only after what it uses, or the table  *)
(* is known to do it too early, then nothing that runs while the driver    *)
(* comes up and serves misses what it uses, whatever failed before.        *)
THEOREM ReachableIsReady ==
  ASSUME \A d \in DOMAIN Drivers : WellFormed(Drivers[d]) /\ ReadyRule(d)
  PROVE  Spec => []ReadyWhenReachable
<1>1. Spec => []Inv
  BY AlwaysInv, Zenon
<1>2. Inv => ReadyWhenReachable
  <2> SUFFICES ASSUME Inv, Coming, NEW f \in Faults
               PROVE  f \in IF f[2] \in Lost THEN Unchecked(drv) ELSE Early(drv)
    BY Zenon DEF ReadyWhenReachable
  <2>1. WellFormed(D) /\ ReadyRule(drv)
    BY Zenon DEF Inv, D
  <2>2. PICK R : /\ HoldsNow(R) /\ R \subseteq freed /\ "text" \notin R
                 /\ at \in 1 .. End(D)
                 /\ \A x \in R : /\ at < End(D) /\ CanJump(D.init[at])
                                 /\ x \in ToSet(D.init[at].undo)
    BY <2>1, WhileComing, Zenon
  <2>3. Len(D.init) \in Nat
    BY <2>1, WellFormedTable, Zenon
  <2>4. /\ at \in Nat \ {0} /\ at <= End(D) /\ End(D) \in Nat
    BY <2>2, <2>3 DEF End
  <2>5. PICK e \in DOMAIN D.uses : \E x \in Missing(e) :
               Runnable(e) /\ f = <<e, x>>
    BY FaultIsMissing, Zenon
  <2>6. PICK x \in Missing(e) : Runnable(e) /\ f = <<e, x>>
    BY <2>5, Zenon
  <2>7. f[2] = x
    BY <2>6
  <2>8. Lost = Loseable(D, at) \ (has \cup freed)
    BY LostIsLoseable, Zenon
  <2>9. CASE e = "init"
    <3>1. x \in D.uses["init"] \cap Lost
      BY <2>9, Zenon DEF Missing
    <3>2. x \in Loseable(D, End(D))
      BY <2>4, <2>8, <3>1, BeforeLater, Zenon
    <3>3. <<"init", x>> \in Unchecked(drv)
      BY <2>1, <2>9, <3>1, <3>2, Zenon DEF ReadyRule, D
    <3> QED
      BY <2>6, <2>7, <2>9, <3>1, <3>3, Zenon
  <2>10. CASE e # "init"
    <3>1. e \in Entries(D)
      BY <2>10, Zenon DEF Entries
    <3>2. /\ Reachable(D, e, at)
          /\ Guard(D, e) \subseteq InHand(D, has, opened)
      BY <2>1, <2>2, <2>6, <2>10, RunnableIsReachable, Zenon
    <3>3. x \in D.uses[e] /\ x \notin has
      <4>1. "text" \in has
        BY <2>2, Zenon DEF HoldsNow, Holds
      <4> QED
        BY <2>10, <4>1, Zenon DEF Missing
    <3>4. /\ \/ Firm(D, e, x, at)
             \/ /\ x \in Loseable(D, at) => <<e, x>> \in Unchecked(drv)
                /\ <<e, x>> \in Early(drv) \/ LostIfMissing(D, x, at)
          /\ at < End(D) /\ CanJump(D.init[at]) /\ x \in ToSet(D.init[at].undo)
               => <<e, x>> \in Early(drv)
      BY <2>1, <2>2, <3>1, <3>2, <3>3, Zenon DEF ReadyRule, D
    <3>5. CASE x \in R
      <4>1. <<e, x>> \in Early(drv)
        BY <2>2, <3>4, <3>5, Zenon
      <4>2. x \notin Lost
        BY <2>2, <2>8, <3>5, Zenon
      <4> QED
        BY <2>6, <2>7, <4>1, <4>2, Zenon
    <3>6. CASE x \notin R
      <4>1. ~Firm(D, e, x, at)
        BY <2>2, <2>4, <3>2, <3>3, <3>6, FirmIsThere, Zenon DEF HoldsNow
      <4>2. CASE x \in Lost
        BY <2>6, <2>7, <2>8, <3>4, <4>1, <4>2, Zenon
      <4>3. CASE x \notin Lost
        <5>1. ~LostIfMissing(D, x, at)
          BY <2>2, <3>3, <3>6, <4>3, MissingIsLost, Zenon
        <5> QED
          BY <2>6, <2>7, <3>4, <4>1, <4>3, <5>1, Zenon
      <4> QED
        BY <4>2, <4>3, Zenon
    <3> QED
      BY <3>5, <3>6, Zenon
  <2> QED
    BY <2>9, <2>10, Zenon
<1> QED
  BY <1>1, <1>2, PTL

(* If a failure and a removal stop what runs before they release what it   *)
(* uses, but for the named exceptions, then afterwards nothing runs on     *)
(* what is not there, but for those.                                       *)
THEOREM GoneIsQuiet ==
  ASSUME \A d \in DOMAIN Drivers : WellFormed(Drivers[d]) /\ QuietRule(d)
  PROVE  Spec => []QuietWhenGone
<1>1. Spec => []Inv
  BY AlwaysInv, Zenon
<1>2. Inv => QuietWhenGone
  <2> SUFFICES ASSUME Inv, ~Coming, NEW f \in Faults
               PROVE  \/ f[2] \in Lost
                      \/ f \in IF at <= Len(D.init) THEN DanglingOnFailure(drv)
                                                    ELSE DanglingOnRemoval(drv)
    BY Zenon DEF QuietWhenGone
  <2>1. WellFormed(D) /\ QuietRule(drv)
    BY Zenon DEF Inv, D
  <2>2. phase # "init" /\ at \in Nat
    BY <2>1, WhileGoing, Zenon
  <2>3. PICK R :
          /\ HoldsNow(R)
          /\ \/ /\ at \in 1 .. Len(D.init) /\ Ends(D.init[at])
                /\ R \in Stages(D.init[at].undo, Unloads(D))
             \/ /\ at = End(D)
                /\ \E w \in D.ways : Closed(w) /\ R \in Stages(w.steps, {"bound"})
    BY <2>1, WhileGoing, Zenon
  <2>4. PICK e \in DOMAIN D.uses : \E x \in Missing(e) :
               Runnable(e) /\ f = <<e, x>>
    BY FaultIsMissing, Zenon
  <2>5. PICK x \in Missing(e) : Runnable(e) /\ f = <<e, x>>
    BY <2>4, Zenon
  <2>6. f[2] = x
    BY <2>5
  <2>7. e # "init"
    BY <2>2, <2>5 DEF Runnable
  <2>8. /\ e \in Entries(D) /\ x \in D.uses[e] \cup {"text"} /\ x \notin has
    BY <2>7, Zenon DEF Missing, Entries
  <2>9. /\ Reachable(D, e, at)
        /\ Guard(D, e) \subseteq InHand(D, has, opened)
    BY <2>1, <2>3, <2>5, <2>7, RunnableIsReachable, Zenon
  (* An entry that outlives x: it finds x, or x could not be had.          *)
  <2>10. ASSUME NEW stages, Outlives(D, e, x, stages, at), R \in stages
         PROVE  x \in Lost
    <3>1. has \cap R = {} /\ ("text" \notin R => "text" \in has)
      BY <2>3, Zenon DEF HoldsNow, Holds
    <3>2. e # "call" => Guard(D, e) \subseteq has
      BY <2>5 DEF Guard, Runnable
    <3>3. x \notin R
      BY <2>10, <3>1, <3>2, Zenon DEF Outlives
    <3>4. x # "text"
      BY <2>8, <3>1, <3>3, Zenon
    <3>5. ~Firm(D, e, x, at)
      BY <2>2, <2>3, <2>8, <2>9, <3>3, FirmIsThere, Zenon DEF HoldsNow
    <3>6. LostIfMissing(D, x, at)
      BY <2>10, <3>4, <3>5, Zenon DEF Outlives
    <3> QED
      BY <2>3, <2>8, <3>3, <3>6, MissingIsLost, Zenon
  <2>11. CASE /\ at \in 1 .. Len(D.init) /\ Ends(D.init[at])
              /\ R \in Stages(D.init[at].undo, Unloads(D))
    <3>1. \/ <<e, x>> \in DanglingOnFailure(drv)
          \/ Outlives(D, e, x, Stages(D.init[at].undo, Unloads(D)), at)
      BY <2>1, <2>8, <2>9, <2>11, Zenon DEF QuietRule, D
    <3>2. at <= Len(D.init)
      BY <2>11
    <3> QED
      BY <2>5, <2>6, <2>10, <2>11, <3>1, <3>2, Zenon
  <2>12. ASSUME NEW w \in D.ways, Closed(w), at = End(D),
                R \in Stages(w.steps, {"bound"})
         PROVE  x \in Lost \/ f \in DanglingOnRemoval(drv)
    <3>1. \/ <<e, x>> \in DanglingOnRemoval(drv)
          \/ w.pinned /\ e \in {"open", "call"}
          \/ Outlives(D, e, x, Stages(w.steps, {"bound"}), End(D))
      BY <2>1, <2>8, Zenon DEF QuietRule, D
    <3>2. ~(w.pinned /\ e \in {"open", "call"})
      <4>1. w.pinned => ~opened /\ "live" \notin has
        BY <2>12, Zenon DEF Closed
      <4>2. e = "open" => "live" \in has
        BY <2>5 DEF Runnable
      <4>3. e = "call" => opened
        BY <2>5 DEF Runnable
      <4> QED
        BY <4>1, <4>2, <4>3, Zenon
    <3> QED
      BY <2>5, <2>10, <2>12, <3>1, <3>2, Zenon
  <2>13. at = End(D) => ~(at <= Len(D.init))
    <3>1. Len(D.init) \in Nat
      BY <2>1, WellFormedTable, Zenon
    <3> QED
      BY <3>1 DEF End
  <2> QED
    BY <2>3, <2>6, <2>11, <2>12, <2>13, Zenon
<1> QED
  BY <1>1, <1>2, PTL

(* If the list of each failure that ends the attempt, and of each removal, *)
(* names all that may be there, then all of it is given back, whichever    *)
(* steps failed.                                                           *)
THEOREM AllIsGivenBack ==
  ASSUME \A d \in DOMAIN Drivers : WellFormed(Drivers[d]) /\ GiveBackRule(d)
  PROVE  Spec => []GivesBack
<1>1. Spec => []Inv
  BY AlwaysInv, Zenon
<1>2. Inv => GivesBack
  <2> SUFFICES ASSUME Inv PROVE GivesBack
    OBVIOUS
  <2>1. WellFormed(D) /\ GiveBackRule(drv)
    BY Zenon DEF Inv, D
  <2>2. {"text", "live"} \subseteq Inner
    BY Zenon DEF Inner
  <2>3. ASSUME NEW R, HoldsNow(R)
        PROVE  /\ has \subseteq ({"text", "live"} \cup Possible(D, at)) \ R
               /\ "text" \notin R => "text" \in has
    BY <2>3, Zenon DEF HoldsNow, Holds
  <2>4. ASSUME phase = "failed"
        PROVE  has \ Inner \subseteq LeftByFailure(drv, D.init[at].name)
    <3>1. Failed
      BY <2>4 DEF Inv, Up, Undoing, Leaving, Gone
    <3>2. /\ at \in 1 .. Len(D.init) /\ Ends(D.init[at])
          /\ HoldsNow(ToSet(D.init[at].undo) \cup Unloads(D))
      BY <3>1, Zenon DEF Failed
    <3>3. has \subseteq ({"text", "live"} \cup Possible(D, at))
                          \ ToSet(D.init[at].undo)
      BY <2>3, <3>2, Zenon
    <3>4. Possible(D, at) \ (ToSet(D.init[at].undo) \cup Inner)
            \subseteq LeftByFailure(drv, D.init[at].name)
      BY <2>1, <3>2, Zenon DEF GiveBackRule, D
    <3> QED
      BY <2>2, <3>3, <3>4, Zenon
  <2>5. ASSUME phase = "gone"
        PROVE  has \ Inner \subseteq LeftByRemoval(drv, "text" \in has)
    <3>1. Gone
      BY <2>5 DEF Inv, Up, Undoing, Leaving, Failed
    <3>2. at = End(D)
      BY <3>1, Zenon DEF Gone
    <3>3. PICK w \in D.ways : HoldsNow(ToSet(w.steps) \cup {"bound"})
      BY <3>1, Zenon DEF Gone
    <3>4. /\ has \subseteq ({"text", "live"} \cup Possible(D, at)) \ ToSet(w.steps)
          /\ "text" \notin ToSet(w.steps) \cup {"bound"} => "text" \in has
      BY <2>3, <3>3, Zenon
    <3>5. "text" \in has <=> "text" \notin ToSet(w.steps)
      <4>1. "text" # "bound"
        OBVIOUS
      <4> QED
        BY <3>4, <4>1, Zenon
    <3>6. Possible(D, End(D)) \ (ToSet(w.steps) \cup Inner)
            \subseteq LeftByRemoval(drv, "text" \notin ToSet(w.steps))
      BY <2>1, Zenon DEF GiveBackRule, D
    <3>7. ("text" \in has) = ("text" \notin ToSet(w.steps))
      BY <3>5
    <3>8. LeftByRemoval(drv, "text" \notin ToSet(w.steps))
            = LeftByRemoval(drv, "text" \in has)
      BY <3>7, Zenon
    <3> QED
      BY <2>2, <3>2, <3>4, <3>6, <3>8, Zenon
  <2> QED
    BY <2>4, <2>5, Zenon DEF GivesBack
<1> QED
  BY <1>1, <1>2, PTL

(* If the lists release what is sure to be there and not released before,  *)
(* then no release comes twice or of what was never there.                 *)
THEOREM NothingReleasedTwice ==
  ASSUME \A d \in DOMAIN Drivers : WellFormed(Drivers[d]) /\ ReleaseRule(d)
  PROVE  Spec => []ReleasedOnce
<1>1. Spec => []Inv
  BY AlwaysInv, Zenon
<1>2. Inv => ReleasedOnce
  <2> SUFFICES ASSUME Inv, todo # <<>>
               PROVE  \/ Head(todo) \in has
                      \/ Head(todo) \in NullSafe \ freed
                      \/ <<drv, Head(todo)>> \in Misreleased
    BY Zenon DEF ReleasedOnce
  <2>1. WellFormed(D) /\ ReleaseRule(drv)
    BY Zenon DEF Inv, D
  <2>2. Undoing \/ Leaving
    BY Zenon DEF Inv, Up, Failed, Gone
  <2>3. \E list \in Seq(STRING) : \E q \in 0 .. Len(list) :
          /\ Left(todo, list, q) /\ HoldsNow(Upto(list, q))
          /\ Releases(drv, list, at)
    <3>1. CASE Undoing
      <4>1. at \in 1 .. Len(D.init) /\ D.init[at].fails
        BY <3>1, Zenon DEF Undoing
      <4>2. D.init[at].undo \in Seq(STRING)
        BY <2>1, <4>1, WellFormedTable, Zenon
      <4>3. Releases(drv, D.init[at].undo, at)
        BY <2>1, <4>1, Zenon DEF ReleaseRule, D
      <4> QED
        BY <3>1, <4>2, <4>3, Zenon DEF Undoing
    <3>2. CASE Leaving
      <4>1. PICK w \in D.ways : \E q \in 0 .. Len(w.steps) :
              Left(todo, w.steps, q) /\ HoldsNow(Upto(w.steps, q))
        BY <3>2, Zenon DEF Leaving
      <4>2. w.steps \in Seq(STRING)
        BY <2>1, WellFormedTable, Zenon
      <4>3. Releases(drv, w.steps, at)
        BY <2>1, <3>2, Zenon DEF ReleaseRule, Leaving, D
      <4> QED
        BY <4>1, <4>2, <4>3, Zenon
    <3> QED
      BY <2>2, <3>1, <3>2, Zenon
  <2>4. PICK list \in Seq(STRING) : \E q \in 0 .. Len(list) :
          /\ Left(todo, list, q) /\ HoldsNow(Upto(list, q))
          /\ Releases(drv, list, at)
    BY <2>3, Zenon
  <2>5. PICK q \in 0 .. Len(list) :
          /\ Left(todo, list, q) /\ HoldsNow(Upto(list, q))
          /\ Releases(drv, list, at)
    BY <2>4, Zenon
  <2>6. q + 1 \in 0 .. Len(list) /\ Head(todo) = list[q + 1]
    BY <2>5, LeftNext, Zenon
  <2>7. q + 1 \in 1 .. Len(list) /\ (q + 1) - 1 = q
    BY <2>6
  <2>8. \/ <<drv, Head(todo)>> \in Misreleased
        \/ /\ Head(todo) \notin Upto(list, q)
           /\ \/ Head(todo) = "text" \/ Sure(D, Head(todo), at)
              \/ Head(todo) \in NullSafe \ MayBeFreed(D, at)
    BY <2>5, <2>6, <2>7, Zenon DEF Releases, D
  <2>9. ASSUME Head(todo) \notin Upto(list, q),
               Head(todo) = "text" \/ Sure(D, Head(todo), at)
        PROVE  Head(todo) \in has
    BY <2>5, <2>9, SureIsBefore, Zenon DEF HoldsNow, Holds
  <2>10. ASSUME Head(todo) \notin Upto(list, q),
                Head(todo) \notin MayBeFreed(D, at)
         PROVE  Head(todo) \notin freed
    BY <2>5, <2>10, Zenon DEF HoldsNow, Holds
  <2> QED
    BY <2>8, <2>9, <2>10, Zenon
<1> QED
  BY <1>1, <1>2, PTL
=============================================================================
