------------------------ MODULE PlanDeEstudiosProofs ------------------------
(***************************************************************************)
(* Theorems about PlanDeEstudios for every catalogue, whatever its plans   *)
(* and however often it changes.                                           *)
(***************************************************************************)
EXTENDS PlanDeEstudios, SequenceTheorems, WellFoundedInduction, TLAPS

(* The uid is one of the site's program, which is not "0".                 *)
OwnUid ==
    /\ site \in Numeric /\ site # Zero
    /\ \E v \in Versions \union {FirstVersion} : uid = UidOf(site, v)

(* What the check has established survives a change of the catalogue.      *)
SiteInv ==
    /\ catalogue \in Seq(Item)
    /\ stage = "checked" => OwnUid
    /\ stage = "page" => OwnUid /\ shown \in Item /\ generateUid(shown) = uid

(* While the catalogue stays as it was when the block was built, the link  *)
(* stands for an item that the check and the page find.                    *)
LinkInv ==
    /\ stage = "home" => clicked = NoItem
    /\ stage = "block" => clicked = NoItem /\ (moved \/ listed = filter_by_programa(site))
    /\ stage \in {"asked", "checked", "page", "denied", "front"} /\ clicked # NoItem /\ ~moved =>
          clicked \in filter_by_programa(site) /\ uid = generateUid(clicked)
    /\ stage = "block" => site \in Numeric
    /\ stage \in {"asked", "checked"} /\ clicked # NoItem => site \in Numeric
    /\ stage = "checked" /\ ~moved => HasPlan(uid)
    /\ stage = "page" /\ ~moved => HasPlan(uid) /\ shown = PlanOf(uid)
    /\ LinksOpen

IInv == SiteInv /\ LinkInv

-----------------------------------------------------------------------------
(* The backend                                                             *)

(* A uid starts with the name of the program and a dash.                   *)
LEMMA UidParts ==
    ASSUME NEW a \in Seq(Parts), NEW b \in Seq(Parts)
    PROVE  /\ a \o <<Dash>> \in Seq(Parts) /\ Len(a \o <<Dash>>) = Len(a) + 1
           /\ \A k \in 1 .. Len(a) : (a \o <<Dash>>)[k] = a[k]
           /\ (a \o <<Dash>>)[Len(a) + 1] = Dash
           /\ \A k \in 1 .. Len(a) + 1 : UidOf(a, b)[k] = (a \o <<Dash>>)[k]
<1> DEFINE d == <<Dash>>
           e == a \o d
<1>1. d \in Seq(Parts) /\ Len(d) = 1 /\ d[1] = Dash /\ Len(a) \in Nat /\ Len(b) \in Nat
    BY NameAssumption
<1> HIDE DEF d
<1>2. /\ e \in Seq(Parts) /\ Len(e) = Len(a) + Len(d)
      /\ \A k \in 1 .. Len(a) + Len(d) : e[k] = IF k <= Len(a) THEN a[k] ELSE d[k - Len(a)]
    BY <1>1, ConcatProperties
<1> HIDE DEF e
<1>3. Len(e) = Len(a) + 1 /\ \A k \in 1 .. Len(a) : e[k] = a[k]
    BY <1>1, <1>2
<1>4. e[Len(a) + 1] = Dash
    BY <1>1, <1>2
<1>5. \A k \in 1 .. Len(e) + Len(b) : (e \o b)[k] = IF k <= Len(e) THEN e[k] ELSE b[k - Len(e)]
    BY <1>1, <1>2, ConcatProperties
<1>6. \A k \in 1 .. Len(a) + 1 : (e \o b)[k] = e[k]
    BY <1>1, <1>3, <1>5
<1> QED
    BY <1>2, <1>3, <1>4, <1>6 DEF UidOf, d, e

(* Names that are written alike up to a dash: one goes on where the other  *)
(* ends.                                                                   *)
LEMMA ShorterContinues ==
    ASSUME NEW a \in Seq(Parts), NEW b \in Seq(Parts), NEW c \in Seq(Parts), NEW d \in Seq(Parts),
           UidOf(a, c) = UidOf(b, d), Len(a) < Len(b)
    PROVE  Continues(b, a)
<1> DEFINE n == Len(a) + 1
           r == a \o <<Dash>>
           e == b \o <<Dash>>
           s == SubSeq(b, 1, n)
<1>1. Len(a) \in Nat /\ Len(b) \in Nat /\ n \in Nat /\ n <= Len(b)
    OBVIOUS
<1>2. r \in Seq(Parts) /\ Len(r) = n /\ \A k \in 1 .. n : UidOf(a, c)[k] = r[k]
    BY UidParts
<1>3. /\ \A k \in 1 .. Len(b) : e[k] = b[k]
      /\ \A k \in 1 .. Len(b) + 1 : UidOf(b, d)[k] = e[k]
    BY UidParts
<1>4. s \in Seq(Parts) /\ Len(s) = n /\ \A k \in 1 .. n : s[k] = b[k]
    BY <1>1
<1> HIDE DEF n, r, e, s
<1>5. \A k \in 1 .. n : k \in 1 .. Len(b) /\ k \in 1 .. Len(b) + 1
    BY <1>1
<1>6. \A k \in 1 .. n : s[k] = r[k]
    BY <1>2, <1>3, <1>4, <1>5
<1>7. s = r
    BY <1>2, <1>4, <1>6, SeqEqual
<1> QED
    BY <1>7 DEF Continues, s, r, n

LEMMA UidNamesProgram ==
    ASSUME NEW p \in Seq(Parts), NEW q \in Seq(Parts),
           NEW v \in Seq(Parts), NEW w \in Seq(Parts), UidOf(p, v) = UidOf(q, w)
    PROVE  p = q \/ Continues(p, q) \/ Continues(q, p)
<1>1. Len(p) \in Nat /\ Len(q) \in Nat
    OBVIOUS
<1>2. CASE Len(p) = Len(q)
    <2> DEFINE r == p \o <<Dash>>
               s == q \o <<Dash>>
    <2>1. /\ \A k \in 1 .. Len(p) : r[k] = p[k]
          /\ \A k \in 1 .. Len(p) + 1 : UidOf(p, v)[k] = r[k]
        BY UidParts
    <2>2. /\ \A k \in 1 .. Len(q) : s[k] = q[k]
          /\ \A k \in 1 .. Len(q) + 1 : UidOf(q, w)[k] = s[k]
        BY UidParts
    <2> HIDE DEF r, s
    <2>3. \A k \in 1 .. Len(p) : k \in 1 .. Len(p) + 1
        BY <1>1
    <2>4. \A k \in 1 .. Len(p) : p[k] = q[k]
        BY <1>2, <2>1, <2>2, <2>3
    <2> QED
        BY <1>2, <2>4, SeqEqual
<1>3. CASE Len(p) < Len(q)
    BY <1>3, ShorterContinues
<1>4. CASE Len(q) < Len(p)
    BY <1>4, ShorterContinues
<1> QED
    BY <1>1, <1>2, <1>3, <1>4

(* get_plan_completo returns the first item of the catalogue with the uid. *)
LEMMA PlanIsFirst ==
    ASSUME catalogue \in Seq(Item), NEW u, HasPlan(u)
    PROVE  \E k \in 1 .. Len(catalogue) :
              /\ PlanOf(u) = catalogue[k]
              /\ generateUid(catalogue[k]) = u
              /\ \A j \in 1 .. k - 1 : generateUid(catalogue[j]) # u
<1> DEFINE S == {n \in 1 .. Len(catalogue) : generateUid(catalogue[n]) = u}
<1>1. Len(catalogue) \in Nat
    OBVIOUS
<1>2. PICK k : k \in S
    BY DEF HasPlan
<1>3. PICK m \in S : \A n \in S : m <= n
    <2> DEFINE R == OpToRel(<, Nat)
    <2>1. S \subseteq Nat
        BY <1>1
    <2>2. IsWellFoundedOn(R, Nat)
        BY NatLessThanWellFounded
    <2>3. \A x, y \in Nat : x < y => <<x, y>> \in R
        BY DEF OpToRel
    <2> HIDE DEF S, R
    <2>4. S # {}
        BY <1>2
    <2>5. PICK x \in S : \A y \in S : ~(<<y, x>> \in R)
        BY <2>1, <2>2, <2>4, WFMin, Zenon
    <2>6. \A y \in S : ~(y < x)
        BY <2>1, <2>3, <2>5
    <2>7. \A y \in S : x <= y
        BY <2>1, <2>6
    <2> QED
        BY <2>7
<1>4. \A j \in 1 .. m - 1 : generateUid(catalogue[j]) # u
    <2> SUFFICES ASSUME NEW j \in 1 .. m - 1, generateUid(catalogue[j]) = u PROVE FALSE
        OBVIOUS
    <2>1. j \in S
        BY <1>1, <1>3
    <2> QED
        BY <1>1, <1>3, <2>1
<1>5. m \in 1 .. Len(catalogue) /\ generateUid(catalogue[m]) = u
    BY <1>3
<1> HIDE DEF S
<1> QED
    BY <1>4, <1>5 DEF PlanOf

LEMMA FilterIsOfProgram ==
    ASSUME catalogue \in Seq(Item), NEW p, NEW i \in filter_by_programa(p)
    PROVE  /\ i \in Item
           /\ i.programa = p
           /\ \E k \in 1 .. Len(catalogue) : catalogue[k] = i
BY DEF filter_by_programa, Range

LEMMA ListedCanBeFetched ==
    ASSUME catalogue \in Seq(Item), NEW p, NEW i \in filter_by_programa(p)
    PROVE  HasPlan(generateUid(i))
BY FilterIsOfProgram DEF HasPlan

LEMMA ChangedIsSeq ==
    ASSUME catalogue \in Seq(Item), ChangeCatalogue
    PROVE  catalogue' \in Seq(Item)
<1>1. CASE \E i \in Item : catalogue' \in {<<i>> \o catalogue, catalogue \o <<i>>}
    <2>1. PICK i \in Item : catalogue' \in {<<i>> \o catalogue, catalogue \o <<i>>}
        BY <1>1
    <2>2. <<i>> \in Seq(Item)
        OBVIOUS
    <2>3. <<i>> \o catalogue \in Seq(Item) /\ catalogue \o <<i>> \in Seq(Item)
        BY <2>2, ConcatProperties
    <2> QED
        BY <2>1, <2>3
<1>2. CASE \E k \in 1 .. Len(catalogue) : catalogue' = RemoveAt(catalogue, k)
    <2>1. PICK k \in 1 .. Len(catalogue) : catalogue' = RemoveAt(catalogue, k)
        BY <1>2
    <2>2. Len(catalogue) \in Nat /\ k \in Int /\ k - 1 \in Int /\ k + 1 \in Int
        OBVIOUS
    <2>3. SubSeq(catalogue, 1, k - 1) \in Seq(Item)
        BY <2>2, SubSeqProperties
    <2>4. SubSeq(catalogue, k + 1, Len(catalogue)) \in Seq(Item)
        BY <2>2, SubSeqProperties
    <2> QED
        BY <2>1, <2>3, <2>4, ConcatProperties DEF RemoveAt
<1> QED
    BY <1>1, <1>2 DEF ChangeCatalogue

-----------------------------------------------------------------------------
(* The steps                                                               *)

LEMMA SiteStep ==
    ASSUME SiteInv, [Next]_vars
    PROVE  SiteInv'
<1>1. CASE UNCHANGED vars
    BY <1>1 DEF SiteInv, OwnUid, vars, visit
<1>2. CASE BuildBlock
    BY <1>2 DEF BuildBlock, SiteInv
<1>3. CASE FollowLink
    BY <1>3 DEF FollowLink, SiteInv
<1>4. CASE TypeAddress
    BY <1>4 DEF TypeAddress, SiteInv
<1>5. CASE CheckPlan
    <2>1. /\ UNCHANGED <<catalogue, site, uid, shown>>
          /\ stage' \in {"checked", "denied"}
          /\ stage' = "checked" =>
                CurrentProgram /\ \E i \in filter_by_programa(site) : generateUid(i) = uid
        BY <1>5 DEF CheckPlan
    <2>2. stage' = "checked" => OwnUid
        <3> SUFFICES ASSUME stage' = "checked" PROVE OwnUid
            OBVIOUS
        <3>1. PICK i \in filter_by_programa(site) : generateUid(i) = uid
            BY <2>1
        <3>2. i \in Item /\ i.programa = site
            BY <3>1, FilterIsOfProgram DEF SiteInv
        <3>3. site \in Numeric /\ site # Zero /\ site # NoProgram
            BY <2>1, SiteAssumption, NameAssumption DEF CurrentProgram
        <3>4. ProgramOf(i) = site /\ VersionOf(i) \in Versions \union {FirstVersion}
            BY <3>2, <3>3 DEF ProgramOf, VersionOf, Item
        <3> QED
            BY <3>1, <3>3, <3>4 DEF generateUid, OwnUid
    <2> QED
        BY <2>1, <2>2 DEF SiteInv, OwnUid
<1>6. CASE FetchPlan
    <2>1. UNCHANGED <<catalogue, site, uid>> /\ stage = "checked"
        BY <1>6 DEF FetchPlan
    <2>2. \/ stage' = "page" /\ shown' = PlanOf(uid) /\ HasPlan(uid)
          \/ stage' = "front"
        BY <1>6 DEF FetchPlan
    <2>3. HasPlan(uid) => PlanOf(uid) \in Item /\ generateUid(PlanOf(uid)) = uid
        BY PlanIsFirst DEF SiteInv
    <2>4. CASE stage' = "page"
        <3>1. shown' \in Item /\ generateUid(shown') = uid
            BY <2>2, <2>3, <2>4
        <3>2. generateUid(shown)' = generateUid(shown')
            BY DEF generateUid, ProgramOf, VersionOf
        <3> QED
            BY <2>1, <2>4, <3>1, <3>2 DEF SiteInv, OwnUid
    <2> QED
        BY <2>1, <2>2, <2>4 DEF SiteInv, OwnUid
<1>7. CASE Leave
    BY <1>7 DEF Leave, SiteInv
<1>8. CASE ChangeCatalogue
    <2>1. catalogue' \in Seq(Item)
        BY <1>8, ChangedIsSeq DEF SiteInv
    <2>2. UNCHANGED <<site, stage, uid, shown>>
        BY <1>8 DEF ChangeCatalogue, visit
    <2> QED
        BY <2>1, <2>2 DEF SiteInv, OwnUid, generateUid, ProgramOf, VersionOf
<1> QED
    BY <1>1, <1>2, <1>3, <1>4, <1>5, <1>6, <1>7, <1>8 DEF Next

LEMMA LinkStep ==
    ASSUME IInv, [Next]_vars
    PROVE  LinkInv'
<1>1. CASE UNCHANGED vars
    BY <1>1 DEF IInv, LinkInv, LinksOpen, filter_by_programa, HasPlan, PlanOf, vars, visit
<1>2. CASE BuildBlock
    BY <1>2 DEF BuildBlock, IInv, LinkInv, LinksOpen, filter_by_programa
<1>3. CASE FollowLink
    <2>1. PICK i \in listed : clicked' = i /\ uid' = generateUid(i)
        BY <1>3 DEF FollowLink
    <2>2. /\ stage = "block" /\ stage' = "asked"
          /\ UNCHANGED <<catalogue, site, moved>>
        BY <1>3 DEF FollowLink
    <2> QED
        BY <2>1, <2>2 DEF IInv, LinkInv, LinksOpen, filter_by_programa, generateUid
<1>4. CASE TypeAddress
    BY <1>4 DEF TypeAddress, IInv, LinkInv, LinksOpen
<1>5. CASE CheckPlan
    <2>1. /\ UNCHANGED <<catalogue, site, listed, clicked, uid, shown, moved>>
          /\ stage = "asked"
        BY <1>5 DEF CheckPlan
    <2>2. \/ /\ stage' = "checked"
             /\ \E i \in filter_by_programa(site) : generateUid(i) = uid
          \/ /\ stage' = "denied"
             /\ \/ ~CurrentProgram
                \/ trouble'
                \/ ~ \E i \in filter_by_programa(site) : generateUid(i) = uid
        BY <1>5 DEF CheckPlan
    <2>3. CASE stage' = "checked"
        <3>1. HasPlan(uid)
            BY <2>2, <2>3, ListedCanBeFetched DEF IInv, SiteInv
        <3> QED
            BY <2>1, <2>3, <3>1 DEF IInv, LinkInv, LinksOpen, filter_by_programa, HasPlan, generateUid, ProgramOf, VersionOf
    <2>4. CASE stage' = "denied"
        <3>1. clicked # NoItem /\ ~moved => trouble' \/ site = Zero
            BY <2>1, <2>2, <2>4 DEF IInv, LinkInv, CurrentProgram
        <3> QED
            BY <2>1, <2>4, <3>1 DEF IInv, LinkInv, LinksOpen, filter_by_programa, generateUid
    <2> QED
        BY <2>2, <2>3, <2>4
<1>6. CASE FetchPlan
    <2>1. /\ UNCHANGED <<catalogue, site, listed, clicked, uid, moved>>
          /\ stage = "checked"
        BY <1>6 DEF FetchPlan
    <2>2. \/ stage' = "page" /\ shown' = PlanOf(uid) /\ HasPlan(uid)
          \/ stage' = "front" /\ (trouble' \/ ~HasPlan(uid))
        BY <1>6 DEF FetchPlan
    <2>3. CASE stage' = "page"
        BY <2>1, <2>2, <2>3
        DEF IInv, LinkInv, LinksOpen, filter_by_programa, HasPlan, PlanOf, generateUid
    <2>4. CASE stage' = "front"
        BY <2>1, <2>2, <2>4 DEF IInv, LinkInv, LinksOpen, filter_by_programa, generateUid
    <2> QED
        BY <2>2, <2>3, <2>4
<1>7. CASE Leave
    BY <1>7 DEF Leave, IInv, LinkInv, LinksOpen
<1>8. CASE ChangeCatalogue
    BY <1>8 DEF ChangeCatalogue, visit, IInv, LinkInv, LinksOpen
<1> QED
    BY <1>1, <1>2, <1>3, <1>4, <1>5, <1>6, <1>7, <1>8 DEF Next

LEMMA Invariance == Spec => []IInv
<1>1. Init => IInv
    BY DEF Init, IInv, SiteInv, LinkInv, LinksOpen
<1>2. IInv /\ [Next]_vars => IInv'
    BY SiteStep, LinkStep DEF IInv
<1> QED
    BY <1>1, <1>2, PTL DEF Spec

(* A site shows the plan it has checked, and one of its own program unless *)
(* the names of two programs continue each other with a dash, whatever the *)
(* university publishes between the check and the page and whatever        *)
(* address is typed.                                                       *)
THEOREM SiteShowsItsPlans == Spec => []ShownIsOfThisSite
<1>1. IInv => ShownIsOfThisSite
    <2> SUFFICES ASSUME IInv, stage = "page"
                 PROVE  /\ generateUid(shown) = uid
                        /\ \E v \in Versions \union {FirstVersion} : uid = UidOf(site, v)
                        /\ \/ shown.programa = site
                           \/ Continues(ProgramOf(shown), site)
                           \/ Continues(site, ProgramOf(shown))
        BY DEF ShownIsOfThisSite
    <2>1. OwnUid /\ shown \in Item /\ generateUid(shown) = uid
        BY DEF IInv, SiteInv
    <2>2. PICK v \in Versions \union {FirstVersion} : uid = UidOf(site, v)
        BY <2>1 DEF OwnUid
    <2>3. site \in Seq(Parts) /\ v \in Seq(Parts) /\ site # Zero
        BY <2>1, <2>2, SiteAssumption, NameAssumption DEF OwnUid
    <2>4. ProgramOf(shown) \in Seq(Parts) /\ VersionOf(shown) \in Seq(Parts)
        BY <2>1, SiteAssumption, NameAssumption DEF ProgramOf, VersionOf, Item
    <2>5. \/ ProgramOf(shown) = site
          \/ Continues(ProgramOf(shown), site) \/ Continues(site, ProgramOf(shown))
        BY <2>1, <2>2, <2>3, <2>4, UidNamesProgram DEF generateUid
    <2>6. ProgramOf(shown) = site => shown.programa = site
        BY <2>3 DEF ProgramOf
    <2> QED
        BY <2>1, <2>2, <2>5, <2>6
<1> QED
    BY <1>1, Invariance, PTL

(* A link opens its plan or an earlier one of the same uid.                *)
THEOREM LinkShowsItsPlan == Spec => []ShownIsTheClicked
<1>1. IInv => ShownIsTheClicked
    <2> SUFFICES ASSUME IInv, stage = "page", clicked # NoItem, ~moved
                 PROVE  \/ shown = clicked
                        \/ \E j, k \in 1 .. Len(catalogue) :
                              /\ j < k /\ catalogue[j] = shown /\ catalogue[k] = clicked
                              /\ generateUid(shown) = generateUid(clicked)
        BY DEF ShownIsTheClicked
    <2>1. HasPlan(uid) /\ shown = PlanOf(uid)
        BY DEF IInv, LinkInv
    <2>2. uid = generateUid(clicked) /\ clicked \in filter_by_programa(site)
        BY DEF IInv, LinkInv
    <2>3. PICK j \in 1 .. Len(catalogue) :
              /\ shown = catalogue[j]
              /\ generateUid(catalogue[j]) = uid
              /\ \A m \in 1 .. j - 1 : generateUid(catalogue[m]) # uid
        BY <2>1, PlanIsFirst DEF IInv, SiteInv
    <2>4. PICK k \in 1 .. Len(catalogue) : catalogue[k] = clicked
        BY <2>2, FilterIsOfProgram DEF IInv, SiteInv
    <2>5. Len(catalogue) \in Nat
        BY DEF IInv, SiteInv
    <2>6. j <= k
        <3> SUFFICES ASSUME k < j PROVE FALSE
            BY <2>5
        <3>1. k \in 1 .. j - 1
            BY <2>5
        <3> QED
            BY <2>2, <2>3, <2>4, <3>1
    <2> QED
        BY <2>2, <2>3, <2>4, <2>5, <2>6
<1> QED
    BY <1>1, Invariance, PTL

(* A link of the block fails only with the backend, with a changed         *)
(* catalogue or on the site "0".                                           *)
THEOREM LinksLeadToPlans == Spec => []LinksOpen
<1>1. IInv => LinksOpen
    BY DEF IInv, LinkInv
<1> QED
    BY <1>1, Invariance, PTL

-----------------------------------------------------------------------------
(* Sums                                                                    *)

AddOp(e, sum, n) == Plus(sum, n)
SumIsInt(e, k, sum) == sum \in Int
Sums == INSTANCE FoldTheorems WITH Op <- AddOp, Inv <- SumIsInt

LEMMA ListOfNumbers ==
    ASSUME NEW n \in Nat, NEW a \in [1 .. n -> Int]
    PROVE  a \in Seq(Int) /\ Len(a) = n
OBVIOUS

(* A sum and its partial sums.                                             *)
LEMMA SumSteps ==
    ASSUME NEW n \in Nat, NEW a \in [1 .. n -> Int]
    PROVE  \E h \in [0 .. n -> Int] :
              /\ h[0] = 0 /\ SumOf(a) = h[n]
              /\ \A k \in 0 .. n - 1 : h[k + 1] = h[k] + a[k + 1]
<1>1. a \in Seq(Int) /\ Len(a) = n
  BY ListOfNumbers
<1>2. PICK g : Sums!IsFold(g, 0, 0, a) /\ Sums!Fold(0, 0, a) = g[n]
  BY <1>1, Sums!FoldSteps
<1>3. SumIsInt(0, 0, 0)
  BY DEF SumIsInt
<1>4. \A i \in 1 .. n : \A x : SumIsInt(0, i - 1, x) => SumIsInt(0, i, AddOp(0, x, a[i]))
  BY DEF SumIsInt, AddOp, Plus
<1>5. \A k \in 0 .. n : SumIsInt(0, k, g[k])
  BY <1>1, <1>2, <1>3, <1>4, Sums!StepsInvariant
<1>6. Sums!Fold(0, 0, a) = SumOf(a)
  BY DEF Sums!Fold, Sums!FoldLeft, Sums!MapThenFoldSet, Sums!Max,
         SumOf, FoldLeft, MapThenFoldSet, Max, AddOp, Plus
<1> DEFINE h == [k \in 0 .. n |-> g[k]]
<1>7. h \in [0 .. n -> Int]
  BY <1>5 DEF SumIsInt
<1>8. \A k \in 0 .. n - 1 : g[k + 1] = g[k] + a[k + 1]
  BY <1>1, <1>2 DEF Sums!IsFold, AddOp, Plus
<1>9. h[0] = 0 /\ h[n] = g[n]
  BY <1>2 DEF Sums!IsFold
<1>10. \A k \in 0 .. n - 1 : h[k + 1] = h[k] + a[k + 1]
  BY <1>8
<1>11. QED
  BY <1>2, <1>6, <1>7, <1>9, <1>10

LEMMA SumType ==
    ASSUME NEW n \in Nat, NEW a \in [1 .. n -> Int]
    PROVE  SumOf(a) \in Int
<1>1. PICK h \in [0 .. n -> Int] : SumOf(a) = h[n]
  BY SumSteps
<1>2. QED
  BY <1>1

LEMMA AddBoth ==
    ASSUME NEW x \in Int, NEW y \in Int, NEW z \in Int, NEW p \in Int, NEW q \in Int,
           x + (p + q) # (y + p) + (z + q)
    PROVE  x # y + z
OBVIOUS

(* Sums are added number by number.                                        *)
LEMMA SumsAdd ==
    ASSUME NEW n \in Nat, NEW a \in [1 .. n -> Int], NEW b \in [1 .. n -> Int],
           NEW c \in [1 .. n -> Int], \A i \in 1 .. n : c[i] = a[i] + b[i]
    PROVE  SumOf(c) = SumOf(a) + SumOf(b)
<1>1. PICK f \in [0 .. n -> Int] :
          /\ f[0] = 0 /\ SumOf(a) = f[n]
          /\ \A k \in 0 .. n - 1 : f[k + 1] = f[k] + a[k + 1]
  BY SumSteps
<1>2. PICK g \in [0 .. n -> Int] :
          /\ g[0] = 0 /\ SumOf(b) = g[n]
          /\ \A k \in 0 .. n - 1 : g[k + 1] = g[k] + b[k + 1]
  BY SumSteps
<1>3. PICK h \in [0 .. n -> Int] :
          /\ h[0] = 0 /\ SumOf(c) = h[n]
          /\ \A k \in 0 .. n - 1 : h[k + 1] = h[k] + c[k + 1]
  BY SumSteps
<1> DEFINE T == {k \in Nat : k <= n /\ h[k] # f[k] + g[k]}
<1>4. 0 \notin T
  BY <1>1, <1>2, <1>3
<1>5. ASSUME NEW k \in Nat, k + 1 \in T
      PROVE  k \in T
  <2>1. k \in 0 .. n - 1 /\ k + 1 \in 1 .. n /\ k \in 0 .. n
    BY <1>5
  <2>2. /\ f[k + 1] = f[k] + a[k + 1]
        /\ g[k + 1] = g[k] + b[k + 1]
        /\ h[k + 1] = h[k] + c[k + 1]
        /\ c[k + 1] = a[k + 1] + b[k + 1]
    BY <1>1, <1>2, <1>3, <2>1
  <2>3. a[k + 1] \in Int /\ b[k + 1] \in Int
    BY <2>1
  <2>4. h[k + 1] # f[k + 1] + g[k + 1]
    BY <1>5
  <2>5. h[k] # f[k] + g[k]
    <3>1. h[k] \in Int /\ f[k] \in Int /\ g[k] \in Int
      BY <2>1
    <3>2. h[k + 1] = h[k] + (a[k + 1] + b[k + 1])
      BY <2>2
    <3>3. h[k] + (a[k + 1] + b[k + 1]) # (f[k] + a[k + 1]) + (g[k] + b[k + 1])
      BY <2>2, <2>4, <3>2
    <3> DEFINE x == h[k]  y == f[k]  z == g[k]  p == a[k + 1]  q == b[k + 1]
    <3>4. x \in Int /\ y \in Int /\ z \in Int /\ p \in Int /\ q \in Int
      BY <2>3, <3>1
    <3>5. x + (p + q) # (y + p) + (z + q)
      BY <3>3
    <3> HIDE DEF x, y, z, p, q
    <3>6. x # y + z
      BY <3>4, <3>5, AddBoth
    <3>7. QED
      BY <3>6 DEF x, y, z
  <2>6. QED
    BY <2>1, <2>5
<1>6. T \in SUBSET Nat
  OBVIOUS
<1> HIDE DEF T
<1>7. T = {}
  BY <1>4, <1>5, <1>6, Sums!NoLeastElement
<1>8. h[n] = f[n] + g[n]
  <2>1. SUFFICES ASSUME h[n] # f[n] + g[n]
                 PROVE  n \in T
    BY <1>7
  <2>2. QED
    BY <2>1 DEF T
<1>9. QED
  BY <1>1, <1>2, <1>3, <1>8

LEMMA SumOfNothing ==
    ASSUME NEW n \in Nat, NEW a \in [1 .. n -> Int], \A i \in 1 .. n : a[i] = 0
    PROVE  SumOf(a) = 0
<1>1. SumOf(a) = SumOf(a) + SumOf(a)
  BY SumsAdd
<1>2. QED
  BY <1>1, SumType

(* What is added up by semesters, up to the last one, and beyond it.       *)
OfSem(n, sem, w, s) == [k \in 1 .. n |-> IF sem[k] = s THEN w[k] ELSE 0]
Later(n, sem, w, s) == [k \in 1 .. n |-> IF sem[k] > s THEN w[k] ELSE 0]

LEMMA SumBySemester ==
    ASSUME NEW n \in Nat, NEW sem \in [1 .. n -> Int], NEW w \in [1 .. n -> Int],
           \A k \in 1 .. n : sem[k] >= 1, NEW d \in Nat
    PROVE  SumOf(w) = SumOf([s \in 1 .. d |-> SumOf(OfSem(n, sem, w, s))])
                      + SumOf(Later(n, sem, w, d))
<1> DEFINE sums == [s \in 1 .. d |-> SumOf(OfSem(n, sem, w, s))]
<1>1. \A s \in Int : OfSem(n, sem, w, s) \in [1 .. n -> Int] /\ Later(n, sem, w, s) \in [1 .. n -> Int]
  BY DEF OfSem, Later
<1>2. \A s \in Int : SumOf(OfSem(n, sem, w, s)) \in Int /\ SumOf(Later(n, sem, w, s)) \in Int
  BY <1>1, SumType
<1>3. sums \in [1 .. d -> Int] /\ \A s \in 1 .. d : sums[s] = SumOf(OfSem(n, sem, w, s))
  BY <1>2
<1> HIDE DEF sums
<1>4. PICK h \in [0 .. d -> Int] :
          /\ h[0] = 0 /\ SumOf(sums) = h[d]
          /\ \A s \in 0 .. d - 1 : h[s + 1] = h[s] + sums[s + 1]
  BY <1>3, SumSteps
<1> DEFINE T == {s \in Nat : s <= d /\ SumOf(w) # h[s] + SumOf(Later(n, sem, w, s))}
<1>5. 0 \notin T
  <2>1. Later(n, sem, w, 0) = w
    BY DEF Later
  <2>2. QED
    BY <1>4, <2>1, SumType
<1>6. ASSUME NEW s \in Nat, s + 1 \in T
      PROVE  s \in T
  <2>1. s \in 0 .. d - 1 /\ s + 1 \in 1 .. d /\ s \in Int /\ s + 1 \in Int /\ s \in 0 .. d
    BY <1>6
  <2>2. h[s + 1] = h[s] + SumOf(OfSem(n, sem, w, s + 1)) /\ h[s] \in Int
    BY <1>3, <1>4, <2>1
  <2>3. \A k \in 1 .. n :
            Later(n, sem, w, s)[k] = OfSem(n, sem, w, s + 1)[k] + Later(n, sem, w, s + 1)[k]
    BY <2>1 DEF Later, OfSem
  <2>4. SumOf(Later(n, sem, w, s)) = SumOf(OfSem(n, sem, w, s + 1)) + SumOf(Later(n, sem, w, s + 1))
    BY <1>1, <2>1, <2>3, SumsAdd
  <2>5. SumOf(w) # h[s + 1] + SumOf(Later(n, sem, w, s + 1))
    BY <1>6
  <2>6. SumOf(w) # h[s] + SumOf(Later(n, sem, w, s))
    BY <1>2, <2>1, <2>2, <2>4, <2>5
  <2>7. QED
    BY <2>1, <2>6
<1>7. T \in SUBSET Nat
  OBVIOUS
<1> HIDE DEF T
<1>8. T = {}
  BY <1>5, <1>6, <1>7, Sums!NoLeastElement
<1>9. SumOf(w) = h[d] + SumOf(Later(n, sem, w, d))
  BY <1>8 DEF T
<1>10. QED
  BY <1>4, <1>9 DEF sums

-----------------------------------------------------------------------------
(* The semester of a course                                                *)

Letters == {"M", "D", "C", "L", "X", "V", "I"}
Keys == {entry \in Seq(Letters) \X Int : Len(entry[1]) \in {1, 2}}

Reading(state) == state.result \in Int /\ state.rest \in Seq(STRING)

LEMMA AtLeast ==
    ASSUME NEW w \in {1, 2}, NEW n \in Nat
    PROVE  w * n \in Nat /\ w * n >= n
<1>1. CASE w = 1
  BY <1>1
<1>2. CASE w = 2
  BY <1>2
<1>3. QED
  BY <1>1, <1>2

(* A key is taken off the front as often as it stands there: how often is  *)
(* well defined.                                                           *)
LEMMA StripReads ==
    ASSUME NEW state, Reading(state), NEW entry \in Keys
    PROVE  Reading(Strip(state, entry))
<1> DEFINE rest == state.rest
           key == entry[1]
           w == Len(key)
           Repeats(n) == /\ w * n <= Len(rest)
                         /\ \A i \in 1 .. w * n : rest[i] = key[((i - 1) % w) + 1]
           Takes(n) == Repeats(n) /\ ~Repeats(n + 1)
           count == CHOOSE n \in 0 .. Len(rest) : Takes(n)
<1>1. w \in {1, 2} /\ Len(rest) \in Nat /\ rest \in Seq(STRING)
  BY DEF Keys, Reading
<1>2. \A n \in Nat : w * n \in Nat /\ w * n >= n
  <2> HIDE DEF w
  <2>1. QED
    BY <1>1, AtLeast
<1>3. \E n \in 0 .. Len(rest) : Takes(n)
  <2>1. SUFFICES ASSUME \A n \in 0 .. Len(rest) : Repeats(n) => Repeats(n + 1)
                 PROVE  FALSE
    OBVIOUS
  <2> DEFINE T == {n \in Nat : ~Repeats(n)}
  <2>2. T \in SUBSET Nat /\ 0 \notin T
    <3>1. w * 0 = 0
      BY <1>1
    <3>2. QED
      BY <1>1, <3>1
  <2>3. ASSUME NEW n \in Nat, n + 1 \in T
        PROVE  n \in T
    <3>1. ~Repeats(n + 1)
      BY <2>3
    <3>2. CASE n <= Len(rest)
      <4>1. n \in 0 .. Len(rest)
        BY <1>1, <3>2
      <4>2. QED
        BY <2>1, <3>1, <4>1
    <3>3. CASE ~(n <= Len(rest))
      <4>1. ~(w * n <= Len(rest))
        <5>1. w * n \in Nat /\ w * n >= n
          BY <1>2
        <5> HIDE DEF w
        <5>2. QED
          BY <1>1, <3>3, <5>1
      <4>2. QED
        BY <4>1
    <3>4. QED
      BY <3>2, <3>3
  <2>4. Len(rest) + 1 \in T
    <3>1. Len(rest) + 1 \in Nat /\ w * (Len(rest) + 1) >= Len(rest) + 1
      <4>1. Len(rest) + 1 \in Nat
        BY <1>1
      <4> HIDE DEF w
      <4>2. QED
        BY <1>2, <4>1
    <3>2. ~(w * (Len(rest) + 1) <= Len(rest))
      <4>1. w * (Len(rest) + 1) \in Nat
        BY <1>2, <3>1
      <4> HIDE DEF w
      <4>2. QED
        BY <1>1, <3>1, <4>1
    <3>3. QED
      BY <3>1, <3>2
  <2> HIDE DEF T
  <2>5. T = {}
    BY <2>2, <2>3, Sums!NoLeastElement
  <2>6. QED
    BY <2>4, <2>5
<1>4. count \in 0 .. Len(rest)
  BY <1>3
<1>5. Strip(state, entry) = [result |-> state.result + count * entry[2],
                             rest |-> SubSeq(rest, w * count + 1, Len(rest))]
  BY DEF Strip
<1> HIDE DEF count, w, Repeats
<1>6. count \in Int /\ state.result + count * entry[2] \in Int
  BY <1>1, <1>4 DEF Reading, Keys
<1> DEFINE m == w * count + 1
<1>7. m \in Nat /\ m >= 1
  BY <1>1, <1>2, <1>4
<1> HIDE DEF m
<1>8. SubSeq(rest, m, Len(rest)) \in Seq(STRING)
  BY <1>1, <1>7
<1>9. QED
  BY <1>5, <1>6, <1>8 DEF Reading, m

LEMMA ShortList ==
    ASSUME NEW S, NEW x \in S, NEW y \in S
    PROVE  /\ <<x>> \in Seq(S) /\ Len(<<x>>) = 1
           /\ <<x, y>> \in Seq(S) /\ Len(<<x, y>>) = 2
OBVIOUS

LEMMA OneLetter ==
    ASSUME NEW x \in Letters, NEW v \in Int
    PROVE  <<<<x>>, v>> \in Keys
<1> DEFINE key == <<x>>
<1>1. key \in Seq(Letters) /\ Len(key) = 1
  BY ShortList
<1> HIDE DEF key
<1>2. <<key, v>> \in Keys
  BY <1>1 DEF Keys
<1>3. QED
  BY <1>2 DEF key

LEMMA TwoLetters ==
    ASSUME NEW x \in Letters, NEW y \in Letters, NEW v \in Int
    PROVE  <<<<x, y>>, v>> \in Keys
<1> DEFINE key == <<x, y>>
<1>1. key \in Seq(Letters) /\ Len(key) = 2
  BY ShortList
<1> HIDE DEF key
<1>2. <<key, v>> \in Keys
  BY <1>1 DEF Keys
<1>3. QED
  BY <1>2 DEF key

LEMMA ListOfThirteen ==
    ASSUME NEW S, NEW a \in S, NEW b \in S, NEW c \in S, NEW d \in S, NEW e \in S,
           NEW f \in S, NEW g \in S, NEW h \in S, NEW i \in S, NEW j \in S,
           NEW k \in S, NEW l \in S, NEW m \in S
    PROVE  <<a, b, c, d, e, f, g, h, i, j, k, l, m>> \in Seq(S)
OBVIOUS

LEMMA TableOfKeys == romans \in Seq(Keys)
<1>1. /\ <<<<"M">>, 1000>> \in Keys /\ <<<<"D">>, 500>> \in Keys
      /\ <<<<"C">>, 100>> \in Keys /\ <<<<"L">>, 50>> \in Keys
      /\ <<<<"X">>, 10>> \in Keys /\ <<<<"V">>, 5>> \in Keys
      /\ <<<<"I">>, 1>> \in Keys
  BY OneLetter DEF Letters
<1>2. /\ <<<<"C", "M">>, 900>> \in Keys /\ <<<<"C", "D">>, 400>> \in Keys
      /\ <<<<"X", "C">>, 90>> \in Keys /\ <<<<"X", "L">>, 40>> \in Keys
      /\ <<<<"I", "X">>, 9>> \in Keys /\ <<<<"I", "V">>, 4>> \in Keys
  BY TwoLetters DEF Letters
<1>3. QED
  BY <1>1, <1>2, ListOfThirteen DEF romans

StripOp(e, state, entry) == Strip(state, entry)
StillReading(e, k, state) == Reading(state)
Cycle == INSTANCE FoldTheorems WITH Op <- StripOp, Inv <- StillReading

(* Every cycle has a semester, if only 99.                                 *)
LEMMA SemesterOfCycle ==
    ASSUME NEW ciclo \in Seq(STRING)
    PROVE  mapCiclo(ciclo) \in Int /\ mapCiclo(ciclo) >= 1
<1> DEFINE base == [result |-> 0, rest |-> ciclo]
           read == FoldLeft(Strip, base, romans)
<1>1. StillReading(0, 0, base)
  BY DEF StillReading, Reading
<1>2. \A i \in 1 .. Len(romans) : \A x :
          StillReading(0, i - 1, x) => StillReading(0, i, StripOp(0, x, romans[i]))
  <2>1. \A i \in 1 .. Len(romans) : romans[i] \in Keys
    BY TableOfKeys
  <2>2. QED
    BY <2>1, StripReads DEF StillReading, StripOp
<1>3. romans \in Seq(Keys)
  BY TableOfKeys
<1> HIDE DEF base
<1>4. StillReading(0, Len(romans), Cycle!Fold(0, base, romans))
  BY <1>1, <1>2, <1>3, Cycle!FoldInvariant
<1>5. Cycle!Fold(0, base, romans) = read
  BY DEF Cycle!Fold, Cycle!FoldLeft, Cycle!MapThenFoldSet, Cycle!Max,
         FoldLeft, MapThenFoldSet, Max, StripOp
<1>6. read.result \in Int
  BY <1>4, <1>5 DEF StillReading, Reading
<1>7. mapCiclo(ciclo) = IF read.result > 0 THEN read.result ELSE 99
  BY DEF mapCiclo, SinCiclo, base
<1> HIDE DEF read
<1>8. QED
  BY <1>6, <1>7

-----------------------------------------------------------------------------
(* What the page adds up                                                   *)

(* The processed courses of an item.                                       *)
Cursos(item) == [k \in 1 .. Len(item.cursos) |-> process_curso(item.cursos[k])]

LEMMA CursosFacts ==
    ASSUME NEW item \in Item
    PROVE  /\ Len(item.cursos) \in Nat /\ item.duracion \in Nat
           /\ DOMAIN Cursos(item) = 1 .. Len(item.cursos)
           /\ \A k \in 1 .. Len(item.cursos) :
                 /\ Cursos(item)[k].creditos \in Int
                 /\ Cursos(item)[k].semestre \in Int /\ Cursos(item)[k].semestre >= 1
<1>1. item.cursos \in Seq(Curso) /\ item.duracion \in Nat
  BY CourseAssumption DEF Item
<1>2. ASSUME NEW k \in 1 .. Len(item.cursos)
      PROVE  /\ Cursos(item)[k].creditos \in Int
             /\ Cursos(item)[k].semestre \in Int /\ Cursos(item)[k].semestre >= 1
  <2>1. item.cursos[k] \in Curso
    BY <1>1
  <2>2. item.cursos[k].creditos \in Int /\ item.cursos[k].ciclo \in Seq(STRING)
    BY <2>1 DEF Curso
  <2>3. Cursos(item)[k] = process_curso(item.cursos[k])
    BY DEF Cursos
  <2>4. /\ Cursos(item)[k].creditos = item.cursos[k].creditos
        /\ Cursos(item)[k].semestre = mapCiclo(item.cursos[k].ciclo)
    BY <2>3 DEF process_curso
  <2>5. QED
    BY <2>2, <2>4, SemesterOfCycle
<1>3. QED
  <2>1. Len(item.cursos) \in Nat /\ item.duracion \in Nat
    BY <1>1
  <2>2. DOMAIN Cursos(item) = 1 .. Len(item.cursos)
    BY DEF Cursos
  <2>3. QED
    BY <1>2, <2>1, <2>2

(* Which of the numbers w of the courses a counter adds up.                *)
OfSemesterOnly(cursos, w, s) ==
    [k \in DOMAIN cursos |-> IF cursos[k].semestre = s THEN w[k] ELSE 0]
Beyond(cursos, w, d) ==
    [k \in DOMAIN cursos |-> IF cursos[k].semestre > d THEN w[k] ELSE 0]
OfArea(cursos, w, a) ==
    [k \in DOMAIN cursos |-> IF cursos[k].area = a THEN w[k] ELSE 0]
OfNoArea(cursos, w) ==
    [k \in DOMAIN cursos |-> IF cursos[k].area \notin Areas THEN w[k] ELSE 0]

(* Courses and credits are those of the semesters 1 .. d and those beyond. *)
LEMMA AddedBySemester ==
    ASSUME NEW n \in Nat, NEW cursos, DOMAIN cursos = 1 .. n, NEW d \in Nat,
           NEW w \in [1 .. n -> Int],
           \A k \in 1 .. n : cursos[k].semestre \in Int /\ cursos[k].semestre >= 1
    PROVE  SumOf(w) = SumOf([s \in 1 .. d |-> SumOf(OfSemesterOnly(cursos, w, s))])
                      + SumOf(Beyond(cursos, w, d))
<1> DEFINE sem == [k \in 1 .. n |-> cursos[k].semestre]
<1>1. sem \in [1 .. n -> Int] /\ \A k \in 1 .. n : sem[k] >= 1 /\ sem[k] = cursos[k].semestre
  OBVIOUS
<1> HIDE DEF sem
<1>2. \A s : OfSem(n, sem, w, s) = OfSemesterOnly(cursos, w, s)
  BY <1>1 DEF OfSem, OfSemesterOnly
<1>3. Later(n, sem, w, d) = Beyond(cursos, w, d)
  BY <1>1 DEF Later, Beyond
<1>4. SumOf(w) = SumOf([s \in 1 .. d |-> SumOf(OfSem(n, sem, w, s))])
                 + SumOf(Later(n, sem, w, d))
  BY <1>1, SumBySemester
<1>5. QED
  BY <1>2, <1>3, <1>4

(* The three counters of areas and the courses of other areas.             *)
LEMMA AddedByArea ==
    ASSUME NEW n \in Nat, NEW cursos, DOMAIN cursos = 1 .. n, NEW w \in [1 .. n -> Int]
    PROVE  SumOf(w) = SumOf(OfNoArea(cursos, w)) + SumOf(OfArea(cursos, w, "General"))
                      + SumOf(OfArea(cursos, w, "Especifico"))
                      + SumOf(OfArea(cursos, w, "Especialidad"))
<1> DEFINE other == OfNoArea(cursos, w)
           In(a) == OfArea(cursos, w, a)
           one == [k \in 1 .. n |-> other[k] + In("General")[k]]
           two == [k \in 1 .. n |-> one[k] + In("Especifico")[k]]
<1> USE DEF OfArea, OfNoArea
<1>1. /\ other \in [1 .. n -> Int] /\ In("General") \in [1 .. n -> Int]
      /\ In("Especifico") \in [1 .. n -> Int] /\ In("Especialidad") \in [1 .. n -> Int]
  OBVIOUS
<1>2. \A k \in 1 .. n : w[k] = two[k] + In("Especialidad")[k]
  <2>1. SUFFICES ASSUME NEW k \in 1 .. n
                 PROVE  w[k] = two[k] + In("Especialidad")[k]
    OBVIOUS
  <2>2. w[k] \in Int
    OBVIOUS
  <2>3. two[k] = (other[k] + In("General")[k]) + In("Especifico")[k]
    OBVIOUS
  <2>4. CASE cursos[k].area \notin Areas
    BY <2>2, <2>3, <2>4 DEF Areas
  <2>5. CASE cursos[k].area = "General"
    BY <2>2, <2>3, <2>5 DEF Areas
  <2>6. CASE cursos[k].area = "Especifico"
    BY <2>2, <2>3, <2>6 DEF Areas
  <2>7. CASE cursos[k].area = "Especialidad"
    BY <2>2, <2>3, <2>7 DEF Areas
  <2>8. QED
    BY <2>4, <2>5, <2>6, <2>7 DEF Areas
<1> HIDE DEF other, In, OfArea, OfNoArea
<1>3. one \in [1 .. n -> Int] /\ \A k \in 1 .. n : one[k] = other[k] + In("General")[k]
  BY <1>1
<1> HIDE DEF one
<1>4. two \in [1 .. n -> Int] /\ \A k \in 1 .. n : two[k] = one[k] + In("Especifico")[k]
  BY <1>1, <1>3
<1> HIDE DEF two
<1>5. /\ SumOf(one) = SumOf(other) + SumOf(In("General"))
      /\ SumOf(two) = SumOf(one) + SumOf(In("Especifico"))
      /\ SumOf(w) = SumOf(two) + SumOf(In("Especialidad"))
  BY <1>1, <1>2, <1>3, <1>4, SumsAdd
<1>6. SumOf(w) = SumOf(other) + SumOf(In("General")) + SumOf(In("Especifico"))
                 + SumOf(In("Especialidad"))
  BY <1>5
<1>7. QED
  BY <1>6 DEF other, In

(* The totals of an item and of what its page renders.                     *)
LEMMA TotalsOfItem ==
    ASSUME NEW item \in Item
    PROVE  LET cursos == Cursos(item)
               stats == calculate_stats(cursos)
               page == Render(cursos, item.duracion)
           IN  /\ stats.total_cursos =
                     page.rows + Number(cursos, LAMBDA c : c.semestre > item.duracion)
               /\ stats.total_creditos =
                     page.acumulado + Creditos(cursos, LAMBDA c : c.semestre > item.duracion)
               /\ stats.total_creditos =
                     Creditos(cursos, LAMBDA c : c.area \notin Areas)
                     + stats.creditos["General"] + stats.creditos["Especifico"]
                     + stats.creditos["Especialidad"]
<1> DEFINE cursos == Cursos(item)
           n == Len(item.cursos)
           d == item.duracion
           ones == [k \in 1 .. n |-> 1]
           credits == [k \in 1 .. n |-> cursos[k].creditos]
<1>1. /\ n \in Nat /\ d \in Nat /\ DOMAIN cursos = 1 .. n
      /\ \A k \in 1 .. n :
            /\ cursos[k].creditos \in Int
            /\ cursos[k].semestre \in Int /\ cursos[k].semestre >= 1
  BY CursosFacts
<1> HIDE DEF cursos, n, d
<1>2. ones \in [1 .. n -> Int] /\ \A k \in 1 .. n : ones[k] = 1
  OBVIOUS
<1>3. credits \in [1 .. n -> Int] /\ \A k \in 1 .. n : credits[k] = cursos[k].creditos
  BY <1>1
<1> HIDE DEF ones, credits
<1>4. /\ Number(cursos, LAMBDA c : TRUE) = SumOf(ones)
      /\ Creditos(cursos, LAMBDA c : TRUE) = SumOf(credits)
  BY <1>1 DEF Number, Creditos, ones, credits
<1>5. \A s : /\ OfSemester(cursos, s).rows = SumOf(OfSemesterOnly(cursos, ones, s))
             /\ OfSemester(cursos, s).creditos = SumOf(OfSemesterOnly(cursos, credits, s))
  <2>1. SUFFICES ASSUME NEW s
                 PROVE  /\ OfSemester(cursos, s).rows = SumOf(OfSemesterOnly(cursos, ones, s))
                        /\ OfSemester(cursos, s).creditos
                              = SumOf(OfSemesterOnly(cursos, credits, s))
    OBVIOUS
  <2>2. /\ OfSemesterOnly(cursos, ones, s)
              = [k \in 1 .. n |-> IF cursos[k].semestre = s THEN 1 ELSE 0]
        /\ OfSemesterOnly(cursos, credits, s)
              = [k \in 1 .. n |-> IF cursos[k].semestre = s THEN cursos[k].creditos ELSE 0]
    BY <1>1, <1>2, <1>3 DEF OfSemesterOnly
  <2>3. QED
    BY <1>1, <2>2 DEF OfSemester, Number, Creditos
<1>6. /\ Number(cursos, LAMBDA c : c.semestre > d) = SumOf(Beyond(cursos, ones, d))
      /\ Creditos(cursos, LAMBDA c : c.semestre > d) = SumOf(Beyond(cursos, credits, d))
  <2>1. /\ Beyond(cursos, ones, d)
              = [k \in 1 .. n |-> IF cursos[k].semestre > d THEN 1 ELSE 0]
        /\ Beyond(cursos, credits, d)
              = [k \in 1 .. n |-> IF cursos[k].semestre > d THEN cursos[k].creditos ELSE 0]
    BY <1>1, <1>2, <1>3 DEF Beyond
  <2>2. QED
    BY <1>1, <2>1 DEF Number, Creditos
<1>7. /\ Render(cursos, d).rows = SumOf([s \in 1 .. d |-> OfSemester(cursos, s).rows])
      /\ Render(cursos, d).acumulado = SumOf([s \in 1 .. d |-> OfSemester(cursos, s).creditos])
  BY DEF Render, Semesters
<1>8. /\ SumOf(ones) = Render(cursos, d).rows + Number(cursos, LAMBDA c : c.semestre > d)
      /\ SumOf(credits) = Render(cursos, d).acumulado
                          + Creditos(cursos, LAMBDA c : c.semestre > d)
  <2>1. SumOf(ones) = SumOf([s \in 1 .. d |-> SumOf(OfSemesterOnly(cursos, ones, s))])
                      + SumOf(Beyond(cursos, ones, d))
    BY <1>1, <1>2, AddedBySemester
  <2>2. SumOf(credits) = SumOf([s \in 1 .. d |-> SumOf(OfSemesterOnly(cursos, credits, s))])
                         + SumOf(Beyond(cursos, credits, d))
    BY <1>1, <1>3, AddedBySemester
  <2>3. /\ [s \in 1 .. d |-> OfSemester(cursos, s).rows]
              = [s \in 1 .. d |-> SumOf(OfSemesterOnly(cursos, ones, s))]
        /\ [s \in 1 .. d |-> OfSemester(cursos, s).creditos]
              = [s \in 1 .. d |-> SumOf(OfSemesterOnly(cursos, credits, s))]
    BY <1>5
  <2>4. QED
    BY <1>6, <1>7, <2>1, <2>2, <2>3
<1>9. \A a \in Areas :
         calculate_stats(cursos).creditos[a] = SumOf(OfArea(cursos, credits, a))
  <2>1. SUFFICES ASSUME NEW a \in Areas
                 PROVE  calculate_stats(cursos).creditos[a] = SumOf(OfArea(cursos, credits, a))
    OBVIOUS
  <2>2. OfArea(cursos, credits, a)
           = [k \in 1 .. n |-> IF cursos[k].area = a THEN cursos[k].creditos ELSE 0]
    BY <1>1, <1>3 DEF OfArea
  <2>3. calculate_stats(cursos).creditos[a] = Creditos(cursos, LAMBDA c : c.area = a)
    BY DEF calculate_stats
  <2>4. QED
    BY <1>1, <2>2, <2>3 DEF Creditos
<1>10. Creditos(cursos, LAMBDA c : c.area \notin Areas) = SumOf(OfNoArea(cursos, credits))
  <2>1. OfNoArea(cursos, credits)
           = [k \in 1 .. n |-> IF cursos[k].area \notin Areas THEN cursos[k].creditos ELSE 0]
    BY <1>1, <1>3 DEF OfNoArea
  <2>2. QED
    BY <1>1, <2>1 DEF Creditos
<1>11. /\ calculate_stats(cursos).total_cursos = SumOf(ones)
       /\ calculate_stats(cursos).total_creditos = SumOf(credits)
  BY <1>4 DEF calculate_stats
<1>12. SumOf(credits) =
          Creditos(cursos, LAMBDA c : c.area \notin Areas)
          + calculate_stats(cursos).creditos["General"]
          + calculate_stats(cursos).creditos["Especifico"]
          + calculate_stats(cursos).creditos["Especialidad"]
  <2>1. "General" \in Areas /\ "Especifico" \in Areas /\ "Especialidad" \in Areas
    BY DEF Areas
  <2>2. SumOf(credits) =
           SumOf(OfNoArea(cursos, credits)) + SumOf(OfArea(cursos, credits, "General"))
           + SumOf(OfArea(cursos, credits, "Especifico"))
           + SumOf(OfArea(cursos, credits, "Especialidad"))
    BY <1>1, <1>3, AddedByArea
  <2>3. QED
    BY <1>9, <1>10, <2>1, <2>2
<1>13. QED
  BY <1>8, <1>11, <1>12 DEF cursos, d

(* For every catalogue, the totals of a page are those of the tables it    *)
(* shows and of the semesters beyond the duration, and those of the three  *)
(* areas and of the courses without one (calculate_stats(), the loop over  *)
(* the semesters).                                                         *)
THEOREM TotalsAlwaysExplained == Spec => []TotalsExplained
<1>1. IInv => TotalsExplained
  <2>1. SUFFICES ASSUME IInv, stage = "page"
                 PROVE  TotalsExplained
    BY DEF TotalsExplained
  <2>2. shown \in Item
    BY <2>1 DEF IInv, SiteInv
  <2>3. QED
    BY <2>2, TotalsOfItem DEF TotalsExplained, Cursos
<1>2. QED
  BY <1>1, Invariance, PTL

=============================================================================
