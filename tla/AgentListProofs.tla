--------------------------- MODULE AgentListProofs ---------------------------
(***************************************************************************)
(* Lemmas about module AgentList: whatever order cards, catalogs and other *)
(* answers come in, entries stay apart and keep what was added by hand.    *)
(* The theorems are those of the page, in PageProofs.                      *)
(***************************************************************************)
EXTENDS AgentList, SetLemmas, SequenceTheorems

(* Lists: sequences of anything.                                           *)
LEMMA ListFacts ==
  ASSUME NEW s, IsList(s)
  PROVE  /\ Len(s) \in Nat /\ DOMAIN s = 1..Len(s)
         /\ s = [i \in 1..Len(s) |-> s[i]]
BY LenProperties DEF IsList

LEMMA ListIs ==
  ASSUME NEW n \in Nat, NEW s, DOMAIN s = 1..n, s = [i \in 1..n |-> s[i]]
  PROVE  IsList(s) /\ Len(s) = n
<1>1. s \in [1..n -> Range(s)] BY DEF Range
<1>2. s \in Seq(Range(s)) BY <1>1, SeqDef
<1> QED BY <1>1, <1>2, LenProperties DEF IsList

LEMMA ListAppend ==
  ASSUME NEW s, IsList(s), NEW e
  PROVE  /\ IsList(Append(s, e))
         /\ DOMAIN Append(s, e) = 1..(Len(s) + 1)
         /\ \A i \in DOMAIN s : Append(s, e)[i] = s[i]
         /\ Append(s, e)[Len(s) + 1] = e
<1> DEFINE S == Range(s) \cup {e}
<1>1. s \in Seq(S) BY SeqMonotonic DEF IsList
<1>2. e \in S OBVIOUS
<1>3. /\ Append(s, e) \in Seq(S)
      /\ Len(Append(s, e)) = Len(s) + 1
      /\ \A i \in 1..Len(s) : Append(s, e)[i] = s[i]
      /\ Append(s, e)[Len(s) + 1] = e
  BY <1>1, <1>2, AppendProperties
<1>4. DOMAIN Append(s, e) = 1..Len(Append(s, e)) BY <1>3, LenProperties
<1>5. Append(s, e) = [i \in 1..Len(Append(s, e)) |-> Append(s, e)[i]]
  BY <1>3, LenProperties
<1>6. DOMAIN s = 1..Len(s) /\ Len(s) \in Nat BY ListFacts
<1>7. Len(Append(s, e)) \in Nat BY <1>3, <1>6
<1>8. IsList(Append(s, e)) BY <1>4, <1>5, <1>7, ListIs
<1> QED BY <1>3, <1>4, <1>6, <1>8

LEMMA ListOfNone == IsList(<<>>) /\ DOMAIN <<>> = {}
BY EmptySeq DEF IsList

LEMMA ListConcat ==
  ASSUME NEW s, IsList(s), NEW t, IsList(t)
  PROVE  /\ IsList(s \o t) /\ DOMAIN (s \o t) = 1..(Len(s) + Len(t))
         /\ Len(s \o t) = Len(s) + Len(t)
         /\ \A i \in DOMAIN s : (s \o t)[i] = s[i]
<1> DEFINE S == Range(s) \cup Range(t)
           u == s \o t
<1>1. s \in Seq(S) /\ t \in Seq(S) BY SeqMonotonic DEF IsList
<1>2. /\ Len(s) \in Nat /\ DOMAIN s = 1..Len(s)
      /\ Len(t) \in Nat /\ DOMAIN t = 1..Len(t)
  BY ListFacts
<1>3. /\ u \in Seq(S) /\ Len(u) = Len(s) + Len(t)
      /\ \A i \in 1..(Len(s) + Len(t)) :
           u[i] = IF i <= Len(s) THEN s[i] ELSE t[i - Len(s)]
  BY <1>1, ConcatProperties
<1>4. DOMAIN u = 1..Len(u) /\ u = [i \in 1..Len(u) |-> u[i]]
  BY <1>3, LenProperties
<1> HIDE DEF u
<1>5. Len(u) \in Nat BY <1>2, <1>3
<1>6. IsList(u) BY <1>4, <1>5, ListIs
<1>7. \A i \in DOMAIN s : u[i] = s[i] BY <1>2, <1>3
<1> QED BY <1>3, <1>4, <1>6, <1>7 DEF u

LEMMA ListSecond ==
  ASSUME NEW s, IsList(s), NEW t, IsList(t), NEW i \in DOMAIN t
  PROVE  (s \o t)[Len(s) + i] = t[i]
<1> DEFINE S == Range(s) \cup Range(t)
<1>1. s \in Seq(S) /\ t \in Seq(S) BY SeqMonotonic DEF IsList
<1>2. /\ Len(s) \in Nat /\ Len(t) \in Nat /\ i \in Nat
      /\ 1 <= i /\ i <= Len(t)
  BY ListFacts
<1>3. \A k \in 1..(Len(s) + Len(t)) :
        (s \o t)[k] = IF k <= Len(s) THEN s[k] ELSE t[k - Len(s)]
  BY <1>1, ConcatProperties
<1>4. /\ Len(s) + i \in 1..(Len(s) + Len(t)) /\ ~ (Len(s) + i <= Len(s))
      /\ (Len(s) + i) - Len(s) = i
  BY <1>2
<1> QED BY <1>3, <1>4

LEMMA ListSplits ==
  ASSUME NEW s, IsList(s), NEW t, IsList(t), NEW i \in DOMAIN (s \o t)
  PROVE  i \in DOMAIN s \/ \E j \in DOMAIN t : i = Len(s) + j
<1>1. /\ Len(s) \in Nat /\ DOMAIN s = 1..Len(s)
      /\ Len(t) \in Nat /\ DOMAIN t = 1..Len(t)
  BY ListFacts
<1>2. DOMAIN (s \o t) = 1..(Len(s) + Len(t)) BY ListConcat
<1>3. i \in Nat /\ 1 <= i /\ i <= Len(s) + Len(t) BY <1>1, <1>2
<1>4. CASE i <= Len(s) BY <1>1, <1>3, <1>4
<1>5. CASE i > Len(s)
  <2>1. i - Len(s) \in 1..Len(t) /\ i = Len(s) + (i - Len(s))
    BY <1>1, <1>3, <1>5
  <2> QED BY <1>1, <2>1
<1> QED BY <1>1, <1>3, <1>4, <1>5

LEMMA ListRemoved ==
  ASSUME NEW s, IsList(s), NEW i \in DOMAIN s
  PROVE  /\ IsList(RemoveAt(s, i)) /\ DOMAIN RemoveAt(s, i) = 1..(Len(s) - 1)
         /\ Len(RemoveAt(s, i)) = Len(s) - 1
         /\ \A j \in 1..(Len(s) - 1) :
              RemoveAt(s, i)[j] = IF j < i THEN s[j] ELSE s[j + 1]
<1> DEFINE S == Range(s)
           l == SubSeq(s, 1, i - 1)
           r == SubSeq(s, i + 1, Len(s))
           u == RemoveAt(s, i)
<1>1. /\ Len(s) \in Nat /\ DOMAIN s = 1..Len(s) /\ i \in Nat
      /\ 1 <= i /\ i <= Len(s) /\ \A k \in 1..Len(s) : s[k] \in S
  BY ListFacts DEF Range
<1>2. /\ l \in Seq(S) /\ Len(l) = i - 1
      /\ \A k \in 1..(i - 1) : l[k] = s[k]
  <2>1. \A k \in 1..(i - 1) : s[k] \in S BY <1>1
  <2>2. 1 \in Int /\ i - 1 \in Int BY <1>1
  <2>3. /\ l \in Seq(S) /\ Len(l) = IF 1 <= i - 1 THEN (i - 1) - 1 + 1 ELSE 0
        /\ \A k \in 1..((i - 1) - 1 + 1) : l[k] = s[1 + k - 1]
    BY <2>1, <2>2, SubSeqProperties
  <2> QED BY <1>1, <2>3
<1>3. /\ r \in Seq(S) /\ Len(r) = Len(s) - i
      /\ \A k \in 1..(Len(s) - i) : r[k] = s[i + k]
  <2>1. \A k \in (i + 1)..Len(s) : s[k] \in S BY <1>1
  <2>2. i + 1 \in Int /\ Len(s) \in Int BY <1>1
  <2>3. /\ r \in Seq(S)
        /\ Len(r) = IF i + 1 <= Len(s) THEN Len(s) - (i + 1) + 1 ELSE 0
        /\ \A k \in 1..(Len(s) - (i + 1) + 1) : r[k] = s[(i + 1) + k - 1]
    BY <2>1, <2>2, SubSeqProperties
  <2> QED BY <1>1, <2>3
<1>4. u = l \o r BY DEF RemoveAt
<1> HIDE DEF l, r, u, S
<1>5. /\ u \in Seq(S) /\ Len(u) = Len(l) + Len(r)
      /\ \A k \in 1..(Len(l) + Len(r)) :
           u[k] = IF k <= Len(l) THEN l[k] ELSE r[k - Len(l)]
  BY <1>2, <1>3, <1>4, ConcatProperties
<1>6. Len(u) = Len(s) - 1 /\ Len(u) \in Nat BY <1>1, <1>2, <1>3, <1>5
<1>7. DOMAIN u = 1..Len(u) /\ u = [k \in 1..Len(u) |-> u[k]]
  BY <1>5, LenProperties
<1>8. IsList(u) BY <1>6, <1>7, ListIs
<1>9. ASSUME NEW j \in 1..(Len(s) - 1)
      PROVE  u[j] = IF j < i THEN s[j] ELSE s[j + 1]
  <2>1. j \in 1..(Len(l) + Len(r)) BY <1>1, <1>2, <1>3
  <2>2. CASE j < i
    <3>1. j <= Len(l) /\ j \in 1..(i - 1) BY <1>1, <1>2, <2>2
    <3> QED BY <1>2, <1>5, <2>1, <2>2, <3>1
  <2>3. CASE ~ (j < i)
    <3>1. /\ ~ (j <= Len(l)) /\ j - Len(l) \in 1..(Len(s) - i)
          /\ i + (j - Len(l)) = j + 1
      BY <1>1, <1>2, <2>3
    <3> QED BY <1>3, <1>5, <2>1, <2>3, <3>1
  <2> QED BY <2>2, <2>3
<1> QED BY <1>6, <1>7, <1>8, <1>9 DEF u
-----------------------------------------------------------------------------
LEMMA ListFinite ==
  ASSUME NEW l, IsList(l)
  PROVE  IsFiniteSet(DOMAIN l)
<1>1. Len(l) \in Int /\ 1 \in Int /\ DOMAIN l = 1..Len(l) BY ListFacts
<1>2. IsFiniteSet(1..Len(l)) BY <1>1, FS_Interval
<1> QED BY <1>1, <1>2

(* Entries picked in their order: every place is that of its rank.         *)
Rank(S, i) == Cardinality({j \in S : j <= i})

LEMMA RankRises ==
  ASSUME NEW S, IsFiniteSet(S), S \subseteq Nat, NEW i \in S, NEW k \in S, i < k
  PROVE  Rank(S, i) < Rank(S, k)
<1> DEFINE I == {j \in S : j <= i}
           K == {j \in S : j <= k}
<1>1. I \subseteq K /\ I # K /\ K \subseteq S
  <2>1. i \in Nat /\ k \in Nat /\ \A j \in S : j \in Nat OBVIOUS
  <2>2. k \in K /\ k \notin I BY <2>1
  <2>3. I \subseteq K
    <3>1. ASSUME NEW j \in S, j <= i PROVE j <= k
      <4>1. j \in Nat OBVIOUS
      <4> QED BY <2>1, <3>1, <4>1
    <3> QED BY <3>1
  <2> QED BY <2>2, <2>3
<1>2. IsFiniteSet(K) BY <1>1, FS_Subset
<1>3. /\ Cardinality(I) <= Cardinality(K)
      /\ Cardinality(I) = Cardinality(K) => I = K
  BY <1>1, <1>2, FS_Subset
<1>4. Cardinality(I) \in Nat /\ Cardinality(K) \in Nat
  BY <1>1, <1>2, FS_Subset, FS_CardinalityType
<1> HIDE DEF I, K
<1>5. Cardinality(I) < Cardinality(K) BY <1>1, <1>3, <1>4
<1> QED BY <1>5 DEF I, K, Rank

LEMMA RankIn ==
  ASSUME NEW S, IsFiniteSet(S), S \subseteq Nat, NEW i \in S
  PROVE  Rank(S, i) \in 1..Cardinality(S)
<1> DEFINE I == {j \in S : j <= i}
<1>1. I \subseteq S /\ i \in I OBVIOUS
<1>2. IsFiniteSet(I) /\ Cardinality(I) <= Cardinality(S) BY <1>1, FS_Subset
<1>3. Cardinality(I) \in Nat /\ Cardinality(I) # 0 /\ Cardinality(S) \in Nat
  BY <1>1, <1>2, FS_CardinalityType, FS_EmptySet
<1> HIDE DEF I
<1>4. Cardinality(I) \in 1..Cardinality(S) BY <1>2, <1>3
<1> QED BY <1>4 DEF I, Rank

LEMMA RankApart ==
  ASSUME NEW S, IsFiniteSet(S), S \subseteq Nat, NEW i \in S, NEW k \in S,
         Rank(S, i) = Rank(S, k)
  PROVE  i = k
<1>1. Rank(S, i) \in 1..Cardinality(S) /\ Rank(S, k) \in 1..Cardinality(S)
  BY RankIn
<1>2. Rank(S, i) \in Int BY <1>1
<1>3. ~ (i < k)
  <2>1. SUFFICES ASSUME i < k PROVE FALSE OBVIOUS
  <2>2. Rank(S, i) < Rank(S, k) BY <2>1, RankRises
  <2> QED BY <1>2, <2>2
<1>4. ~ (k < i)
  <2>1. SUFFICES ASSUME k < i PROVE FALSE OBVIOUS
  <2>2. Rank(S, k) < Rank(S, i) BY <2>1, RankRises
  <2> QED BY <1>2, <2>2
<1>5. i \in Nat /\ k \in Nat OBVIOUS
<1> QED BY <1>3, <1>4, <1>5

LEMMA PlaceOfRank ==
  ASSUME NEW S, IsFiniteSet(S), S \subseteq Nat, NEW i \in S
  PROVE  Place(S, Rank(S, i)) = i
<1> DEFINE p == Place(S, Rank(S, i))
<1>1. p \in S /\ Rank(S, p) = Rank(S, i) BY DEF Place, Rank
<1> HIDE DEF p
<1>2. p = i BY <1>1, RankApart
<1> QED BY <1>2 DEF p
-----------------------------------------------------------------------------
(* Entries picked from a list.                                             *)
LEMMA PlaceIn ==
  ASSUME NEW S, IsFiniteSet(S), S \subseteq Nat, NEW n \in 1..Cardinality(S)
  PROVE  Place(S, n) \in S /\ Rank(S, Place(S, n)) = n
<1> DEFINE k == Cardinality(S)
           f == [i \in S |-> Rank(S, i)]
<1>1. k \in Nat BY FS_CardinalityType
<1>2. IsFiniteSet(1..k) /\ Cardinality(1..k) = k
  <2>1. \A m \in Nat : IsFiniteSet(1..m) /\ Cardinality(1..m) = m
    <3>1. ASSUME NEW m \in Nat PROVE IsFiniteSet(1..m) /\ Cardinality(1..m) = m
      <4>1. m \in Int /\ 1 \in Int OBVIOUS
      <4>2. IsFiniteSet(1..m) /\ Cardinality(1..m) = IF 1 > m THEN 0 ELSE m - 1 + 1
        BY <4>1, FS_Interval
      <4> QED BY <4>2
    <3> QED BY <3>1
  <2> QED BY <1>1, <2>1
<1>3. f \in [S -> 1..k] BY RankIn
<1>4. \A i, j \in S : f[i] = f[j] => i = j BY RankApart
<1>5. f \in Injection(S, 1..k)
  <2> HIDE DEF f, k
  <2> QED BY <1>3, <1>4 DEF Injection, IsInjective
<1>6. f \in Surjection(S, 1..k)
  <2> HIDE DEF f
  <2>1. Cardinality(S) = Cardinality(1..k) BY <1>2
  <2> HIDE DEF k
  <2> QED BY <1>2, <1>5, <2>1, FS_Injection
<1>7. PICK i \in S : f[i] = n
  <2> HIDE DEF f
  <2>1. n \in 1..k OBVIOUS
  <2> HIDE DEF k
  <2> QED BY <1>6, <2>1 DEF Surjection
<1>8. Rank(S, i) = n BY <1>7
<1> QED BY <1>8, PlaceOfRank

LEMMA PickedList ==
  ASSUME NEW s, IsList(s), NEW P, P \subseteq DOMAIN s
  PROVE  /\ IsList(Picked(s, P)) /\ Len(Picked(s, P)) = Cardinality(P)
         /\ Cardinality(P) \in Nat /\ Cardinality(P) <= Len(s)
         /\ \A n \in DOMAIN Picked(s, P) :
              Place(P, n) \in P /\ Picked(s, P)[n] = s[Place(P, n)]
         /\ \A n, m \in DOMAIN Picked(s, P) :
              n # m => Place(P, n) # Place(P, m)
         /\ \A i \in P : \E n \in DOMAIN Picked(s, P) : Place(P, n) = i
<1> DEFINE k == Cardinality(P)
           t == Picked(s, P)
<1>1. /\ Len(s) \in Nat /\ DOMAIN s = 1..Len(s) /\ IsFiniteSet(DOMAIN s)
      /\ Cardinality(DOMAIN s) = Len(s)
  <2>1. Len(s) \in Nat /\ DOMAIN s = 1..Len(s) BY ListFacts
  <2>2. Len(s) \in Int /\ 1 \in Int BY <2>1
  <2>3. IsFiniteSet(1..Len(s))
        /\ Cardinality(1..Len(s)) = IF 1 > Len(s) THEN 0 ELSE Len(s) - 1 + 1
    BY <2>2, FS_Interval
  <2> QED BY <2>1, <2>3
<1>2. IsFiniteSet(P) /\ P \subseteq Nat BY <1>1, FS_Subset
<1>3. k \in Nat /\ k <= Len(s) BY <1>1, FS_Subset, FS_CardinalityType
<1>4. t = [n \in 1..k |-> s[Place(P, n)]] BY DEF Picked
<1>5. IsList(t) /\ Len(t) = k /\ DOMAIN t = 1..k
  <2> HIDE DEF t, k
  <2>1. DOMAIN t = 1..k /\ t = [n \in 1..k |-> t[n]] BY <1>4
  <2> QED BY <1>3, <2>1, ListIs
<1>6. \A n \in 1..k : Place(P, n) \in P /\ Rank(P, Place(P, n)) = n
  BY <1>2, PlaceIn
<1>7. ASSUME NEW i \in P PROVE \E n \in 1..k : Place(P, n) = i
  BY <1>2, RankIn, PlaceOfRank
<1>8. \A n \in 1..k : t[n] = s[Place(P, n)]
  <2> HIDE DEF t, k
  <2> QED BY <1>4
<1> HIDE DEF t, k
<1>9. \A n, m \in DOMAIN t : n # m => Place(P, n) # Place(P, m) BY <1>5, <1>6
<1> QED BY <1>3, <1>5, <1>6, <1>7, <1>8, <1>9 DEF t, k
-----------------------------------------------------------------------------
(* The list of agents: what an entry is, and how entries of a list differ. *)
ReadFields ==
  {"id", "kind", "url", "status", "card", "draft", "echo", "result", "error",
   "custom", "selected", "prefer"}

CardDrafts == [text : Cards, saved : Cards]

ByUrl(a) == a.kind = "card" /\ a.card = None /\ ~ IsEcho(a)

EntryTyped(a) ==
  /\ ReadFields \subseteq DOMAIN a /\ a.id \in Nat \ {0}
  /\ a.status \in {"idle", "loading", "done", "failed"}
  /\ a.kind \in {"card", "endpoint"} /\ a.error \in BOOLEAN
  /\ a.card \in Cards \cup {None} /\ a.result \in Results \cup {None}
  /\ a.draft \in CardDrafts \cup {None} /\ "id" \in DOMAIN a.echo
  /\ a.echo.id \in {0, a.id}
  /\ IsList(a.custom) /\ (a.prefer = None \/ IsList(a.prefer))

ResultFits(r) == r # None => r.default \in 0..Len(r.interfaces)

PickFits(a) == a.selected \in 0..Len(InterfacesOf(a))

(* A card with a URL was looked for by a reference.                        *)
Refers(a) ==
  (a.kind = "card" /\ a.card = None) \/ CardUrl(a) # None => a.url \in Refs

(* The status tells what is known of the card.                             *)
Tells(a) ==
  IF a.kind = "endpoint" THEN a.status # "idle"
  ELSE /\ a.status = "done" => a.result # None /\ a.result.ok /\ ~ a.error
       /\ a.status = "failed" =>
            a.error \/ (a.result # None /\ ~ a.result.ok)

EntryOK(a) ==
  EntryTyped(a) /\ ResultFits(a.result) /\ PickFits(a) /\ Refers(a) /\ Tells(a)

(* Two entries are not, and will not turn out to be, the same card.        *)
Apart(a, b) ==
  ByUrl(a) /\ ByUrl(b) =>
    /\ a.url # b.url /\ CardUrl(a) # b.url /\ CardUrl(b) # a.url
    /\ CardUrl(a) # None => CardUrl(a) # CardUrl(b)

ListOK(l, n) ==
  /\ IsList(l) /\ n \in Nat /\ Len(l) < n
  /\ \A i \in DOMAIN l : EntryOK(l[i]) /\ l[i].id < n
  /\ \A i, j \in DOMAIN l : i # j => l[i].id # l[j].id /\ Apart(l[i], l[j])

(* b is what became of a; and it still uses the custom interface in use.   *)
Alike(a, b) ==
  /\ b.id = a.id /\ b.url = a.url
  /\ ByUrl(b) => ByUrl(a) /\ CardUrl(b) = CardUrl(a)

InUse(a, b) ==
  a.selected > Len(CardInterfaces(a)) =>
    /\ b.selected > Len(CardInterfaces(b))
    /\ SelectedInterface(b) = SelectedInterface(a)

(* The entries of m with IDs below n are those of l.                       *)
Preserves(l, n, m) ==
  \A j \in DOMAIN m :
    m[j].id < n => \E i \in DOMAIN l : l[i].id = m[j].id /\ l[i].url = m[j].url

KeepsUsed(l, m) ==
  \A i \in DOMAIN l, j \in DOMAIN m : l[i].id = m[j].id => InUse(l[i], m[j])

LEMMA SameFields ==
  ASSUME NEW a, NEW b, EntryOK(a), ReadFields \subseteq DOMAIN b,
         b.id = a.id, b.kind = a.kind, b.url = a.url, b.status = a.status,
         b.card = a.card, b.result = a.result, b.error = a.error,
         b.custom = a.custom, b.selected = a.selected, b.prefer = a.prefer,
         b.draft \in CardDrafts \cup {None},
         "id" \in DOMAIN b.echo, b.echo.id = a.echo.id
  PROVE  EntryOK(b) /\ Alike(a, b) /\ InUse(a, b)
<1>1. /\ CardInterfaces(b) = CardInterfaces(a) /\ CardUrl(b) = CardUrl(a)
      /\ InterfacesOf(b) = InterfacesOf(a)
      /\ SelectedInterface(b) = SelectedInterface(a)
  BY DEF CardInterfaces, CardUrl, InterfacesOf, SelectedInterface
<1>2. ByUrl(b) <=> ByUrl(a) BY DEF ByUrl, IsEcho
<1>3. EntryTyped(b) BY DEF EntryOK, EntryTyped
<1>4. ResultFits(b.result) BY DEF EntryOK
<1>5. PickFits(b) BY <1>1 DEF EntryOK, PickFits
<1>6. Refers(b) BY <1>1, <1>2 DEF EntryOK, Refers
<1>7. Tells(b) BY DEF EntryOK, Tells
<1>8. EntryOK(b) BY <1>3, <1>4, <1>5, <1>6, <1>7 DEF EntryOK
<1> QED BY <1>1, <1>2, <1>8 DEF Alike, InUse

LEMMA ApartSame ==
  ASSUME NEW a, NEW b, Apart(a, b)
  PROVE  Apart(b, a)
BY DEF Apart

LEMMA ApartAlike ==
  ASSUME NEW a, NEW b, NEW c, NEW d, Apart(a, b), Alike(a, c), Alike(b, d)
  PROVE  Apart(c, d)
BY DEF Apart, Alike

LEMMA AlikeSelf ==
  ASSUME NEW a
  PROVE  Alike(a, a) /\ InUse(a, a)
BY DEF Alike, InUse

LEMMA ListMapped ==
  ASSUME NEW l, IsList(l), NEW m, m = [i \in DOMAIN l |-> m[i]]
  PROVE  IsList(m) /\ Len(m) = Len(l) /\ DOMAIN m = DOMAIN l
<1>1. Len(l) \in Nat /\ DOMAIN l = 1..Len(l) BY ListFacts
<1>2. DOMAIN m = 1..Len(l) /\ m = [i \in 1..Len(l) |-> m[i]] BY <1>1
<1> QED BY <1>1, <1>2, ListIs

(* The entries of m are those of l, changed.                               *)
Changed(l, n, m) ==
  /\ ListOK(m, n) /\ Preserves(l, n, m)
  /\ \A i \in DOMAIN l : Has(m, l[i].id)

(* Entries that change and stay what they are.                             *)
LEMMA EntriesChanged ==
  ASSUME NEW l, NEW n, ListOK(l, n), NEW m, m = [i \in DOMAIN l |-> m[i]],
         \A i \in DOMAIN l : EntryOK(m[i]) /\ Alike(l[i], m[i])
  PROVE  Changed(l, n, m)
<1>1. IsList(m) /\ Len(m) = Len(l) /\ DOMAIN m = DOMAIN l
  BY ListMapped DEF ListOK
<1>2. \A i \in DOMAIN l : m[i].id = l[i].id /\ m[i].url = l[i].url BY DEF Alike
<1>3. \A i, j \in DOMAIN l : i # j => Apart(m[i], m[j])
  BY ApartAlike DEF ListOK
<1>4. ListOK(m, n) BY <1>1, <1>2, <1>3 DEF ListOK
<1>5. Preserves(l, n, m) BY <1>1, <1>2 DEF Preserves
<1>6. \A i \in DOMAIN l : Has(m, l[i].id) BY <1>1, <1>2 DEF Has
<1> QED BY <1>4, <1>5, <1>6 DEF Changed

LEMMA EntriesUsed ==
  ASSUME NEW l, NEW n, ListOK(l, n), NEW m, m = [i \in DOMAIN l |-> m[i]],
         \A i \in DOMAIN l : InUse(l[i], m[i]) /\ m[i].id = l[i].id
  PROVE  KeepsUsed(l, m)
<1>1. DOMAIN m = DOMAIN l OBVIOUS
<1>2. \A i, j \in DOMAIN l : l[i].id = m[j].id => i = j BY DEF ListOK
<1> QED BY <1>1, <1>2 DEF KeepsUsed

LEMMA EntriesPicked ==
  ASSUME NEW l, NEW n, ListOK(l, n), NEW P, P \subseteq DOMAIN l
  PROVE  /\ ListOK(Picked(l, P), n) /\ Preserves(l, n, Picked(l, P))
         /\ KeepsUsed(l, Picked(l, P))
         /\ Len(Picked(l, P)) <= Len(l)
         /\ \A i \in P : \E k \in DOMAIN Picked(l, P) : Picked(l, P)[k] = l[i]
         /\ \A k \in DOMAIN Picked(l, P) : \E i \in P : Picked(l, P)[k] = l[i]
<1> DEFINE m == Picked(l, P)
           p(k) == Place(P, k)
<1>1. /\ IsList(m) /\ Len(m) \in Nat /\ Len(m) <= Len(l)
      /\ \A k \in DOMAIN m : p(k) \in P /\ m[k] = l[p(k)]
      /\ \A k, j \in DOMAIN m : k # j => p(k) # p(j)
      /\ \A i \in P : \E k \in DOMAIN m : p(k) = i
  <2>1. IsList(l) BY DEF ListOK
  <2> QED BY <2>1, PickedList
<1>2. Len(l) \in Nat /\ n \in Nat /\ Len(l) < n BY ListFacts DEF ListOK
<1> HIDE DEF m, p
<1>3. ListOK(m, n) BY <1>1, <1>2 DEF ListOK
<1>4. Preserves(l, n, m) BY <1>1 DEF Preserves
<1>5. KeepsUsed(l, m)
  <2>1. ASSUME NEW i \in DOMAIN l, NEW j \in DOMAIN m, l[i].id = m[j].id
        PROVE  l[i] = m[j]
    BY <1>1, <2>1 DEF ListOK
  <2> QED BY <2>1, AlikeSelf DEF KeepsUsed
<1> QED BY <1>1, <1>3, <1>4, <1>5 DEF m

(* An entry that is made.                                                  *)
New(e, n) == EntryOK(e) /\ e.id = n

ApartFromAll(l, e) == \A i \in DOMAIN l : Apart(l[i], e)

LEMMA EntryAdded ==
  ASSUME NEW l, NEW n, ListOK(l, n), NEW e, New(e, n), ApartFromAll(l, e)
  PROVE  /\ ListOK(Append(l, e), n + 1) /\ Preserves(l, n, Append(l, e))
         /\ KeepsUsed(l, Append(l, e))
         /\ Len(Append(l, e)) = Len(l) + 1
         /\ Append(l, e)[Len(l) + 1] = e
         /\ \A i \in DOMAIN l : i \in DOMAIN Append(l, e) /\ Append(l, e)[i] = l[i]
<1> DEFINE m == Append(l, e)
           k == Len(l)
<1>1. /\ k \in Nat /\ n \in Nat /\ k < n /\ DOMAIN l = 1..k
      /\ IsList(m) /\ Len(m) = k + 1 /\ DOMAIN m = 1..(k + 1)
      /\ m[k + 1] = e /\ \A i \in 1..k : m[i] = l[i]
  <2>1. IsList(l) /\ n \in Nat /\ k < n BY DEF ListOK
  <2>2. k \in Nat /\ DOMAIN l = 1..k BY <2>1, ListFacts
  <2>3. IsList(m) /\ Len(m) = k + 1 /\ m[k + 1] = e /\ \A i \in 1..k : m[i] = l[i]
    BY <2>1, ListAppend
  <2> HIDE DEF m, k
  <2>4. DOMAIN m = 1..(k + 1) BY <2>3, ListFacts
  <2> QED BY <2>1, <2>2, <2>3, <2>4
<1> HIDE DEF m, k
<1>2. /\ \A i \in 1..k : EntryOK(l[i]) /\ l[i].id < n /\ l[i].id \in Nat
      /\ \A i, j \in 1..k : i # j => l[i].id # l[j].id /\ Apart(l[i], l[j])
  BY <1>1 DEF ListOK, EntryOK, EntryTyped
<1>3. EntryOK(e) /\ e.id = n /\ \A i \in 1..k : Apart(l[i], e) /\ Apart(e, l[i])
  BY <1>1, ApartSame DEF New, ApartFromAll
<1>4. \A i \in 1..(k + 1) : EntryOK(m[i]) /\ m[i].id < n + 1
  <2>1. ASSUME NEW i \in 1..(k + 1) PROVE EntryOK(m[i]) /\ m[i].id < n + 1
    <3>1. CASE i = k + 1 BY <1>1, <1>3, <3>1
    <3>2. CASE i \in 1..k BY <1>1, <1>2, <3>2
    <3> QED BY <1>1, <3>1, <3>2
  <2> QED BY <2>1
<1>5. \A i, j \in 1..(k + 1) : i # j => m[i].id # m[j].id /\ Apart(m[i], m[j])
  <2>1. ASSUME NEW i \in 1..(k + 1), NEW j \in 1..(k + 1), i # j
        PROVE  m[i].id # m[j].id /\ Apart(m[i], m[j])
    <3>1. CASE i \in 1..k /\ j \in 1..k BY <1>1, <1>2, <2>1, <3>1
    <3>2. CASE i \in 1..k /\ j = k + 1 BY <1>1, <1>2, <1>3, <3>2
    <3>3. CASE i = k + 1 /\ j \in 1..k BY <1>1, <1>2, <1>3, <3>3
    <3> QED BY <1>1, <2>1, <3>1, <3>2, <3>3
  <2> QED BY <2>1
<1>6. ListOK(m, n + 1) BY <1>1, <1>4, <1>5 DEF ListOK
<1>7. Preserves(l, n, m)
  <2>1. ASSUME NEW j \in 1..(k + 1), m[j].id < n PROVE j \in 1..k
    BY <1>1, <1>3, <2>1
  <2> QED BY <1>1, <2>1 DEF Preserves
<1>8. KeepsUsed(l, m)
  <2>1. ASSUME NEW i \in 1..k, NEW j \in 1..(k + 1), l[i].id = m[j].id
        PROVE  InUse(l[i], m[j])
    <3>1. j \in 1..k BY <1>1, <1>2, <1>3, <2>1
    <3>2. i = j BY <1>1, <1>2, <2>1, <3>1
    <3> QED BY <1>1, <3>1, <3>2, AlikeSelf
  <2> QED BY <1>1, <2>1 DEF KeepsUsed
<1> QED BY <1>1, <1>6, <1>7, <1>8 DEF m, k

LEMMA PreservesSelf ==
  ASSUME NEW l, NEW n, ListOK(l, n)
  PROVE  Preserves(l, n, l) /\ KeepsUsed(l, l)
<1>1. \A i, j \in DOMAIN l : l[i].id = l[j].id => i = j BY DEF ListOK
<1> QED BY <1>1, AlikeSelf DEF Preserves, KeepsUsed

LEMMA ListLater ==
  ASSUME NEW l, NEW n, ListOK(l, n), NEW k \in Nat, n <= k
  PROVE  ListOK(l, k)
<1>1. Len(l) \in Nat BY ListFacts DEF ListOK
<1>2. \A i \in DOMAIN l : l[i].id \in Nat BY DEF ListOK, EntryOK, EntryTyped
<1> QED BY <1>1, <1>2 DEF ListOK

LEMMA PreservesBoth ==
  ASSUME NEW l, NEW m, NEW p, NEW n \in Nat, NEW k \in Nat, n <= k,
         Preserves(l, n, m), Preserves(m, k, p),
         \A j \in DOMAIN p : p[j].id \in Nat
  PROVE  Preserves(l, n, p)
<1>1. ASSUME NEW j \in DOMAIN p, p[j].id < n
      PROVE  \E i \in DOMAIN l : l[i].id = p[j].id /\ l[i].url = p[j].url
  <2>1. p[j].id < k BY <1>1
  <2>2. PICK i \in DOMAIN m : m[i].id = p[j].id /\ m[i].url = p[j].url
    BY <2>1 DEF Preserves
  <2> QED BY <1>1, <2>2 DEF Preserves
<1> QED BY <1>1 DEF Preserves

(* What may become of an entry that stays where it was found.              *)
LEMMA EntryLike ==
  ASSUME NEW a, NEW b, EntryOK(a), EntryTyped(b), PickFits(b), Tells(b),
         b.id = a.id, b.kind = a.kind, b.url = a.url, b.result = a.result,
         b.card = a.card \/ b.card # None, b.echo.id = a.echo.id
  PROVE  EntryOK(b) /\ Alike(a, b)
<1>1. CardUrl(b) = CardUrl(a) BY DEF CardUrl
<1>2. ByUrl(b) => ByUrl(a) BY DEF ByUrl, IsEcho
<1>3. ResultFits(b.result) BY DEF EntryOK
<1>4. Refers(b) BY <1>1, <1>2 DEF EntryOK, Refers
<1>5. EntryOK(b) BY <1>3, <1>4 DEF EntryOK
<1> QED BY <1>1, <1>2, <1>5 DEF Alike

LEMMA EntryPick ==
  ASSUME NEW a, NEW b, EntryOK(a),
         b.result = a.result, b.custom = a.custom, b.selected = a.selected
  PROVE  PickFits(b) /\ InUse(a, b)
<1>1. InterfacesOf(b) = InterfacesOf(a)
      /\ SelectedInterface(b) = SelectedInterface(a)
     /\ CardInterfaces(b) = CardInterfaces(a)
  BY DEF CardInterfaces, InterfacesOf, SelectedInterface
<1> QED BY <1>1 DEF EntryOK, PickFits, InUse

LEMMA EntryLoading ==
  ASSUME NEW a, EntryOK(a)
  PROVE  /\ EntryOK(Loading(a)) /\ Alike(a, Loading(a)) /\ InUse(a, Loading(a))
<1> DEFINE b == Loading(a)
<1>1. /\ b.id = a.id /\ b.kind = a.kind /\ b.url = a.url /\ b.result = a.result
      /\ b.card = a.card /\ b.echo = a.echo /\ b.custom = a.custom
      /\ b.selected = a.selected /\ b.status = "loading" /\ b.error = FALSE
      /\ b.draft = a.draft /\ b.prefer = a.prefer /\ DOMAIN b = DOMAIN a
  BY DEF EntryOK, EntryTyped, ReadFields, Loading
<1> HIDE DEF b
<1>2. EntryTyped(b) BY <1>1 DEF EntryOK, EntryTyped
<1>3. Tells(b) BY <1>1 DEF Tells
<1>4. PickFits(b) /\ InUse(a, b) BY <1>1, EntryPick
<1>5. EntryOK(b) /\ Alike(a, b) BY <1>1, <1>2, <1>3, <1>4, EntryLike
<1> QED BY <1>4, <1>5 DEF b

FailedEntry(a) == [a EXCEPT !.status = "failed", !.error = TRUE]

LEMMA EntryFailed ==
  ASSUME NEW a, EntryOK(a)
  PROVE  /\ EntryOK(FailedEntry(a)) /\ Alike(a, FailedEntry(a))
         /\ InUse(a, FailedEntry(a))
<1> DEFINE b == FailedEntry(a)
<1>1. /\ b.id = a.id /\ b.kind = a.kind /\ b.url = a.url /\ b.result = a.result
      /\ b.card = a.card /\ b.echo = a.echo /\ b.custom = a.custom
      /\ b.selected = a.selected /\ b.status = "failed" /\ b.error = TRUE
      /\ b.draft = a.draft /\ b.prefer = a.prefer /\ DOMAIN b = DOMAIN a
  BY DEF EntryOK, EntryTyped, ReadFields, FailedEntry
<1> HIDE DEF b
<1>2. EntryTyped(b) BY <1>1 DEF EntryOK, EntryTyped
<1>3. Tells(b) BY <1>1 DEF Tells
<1>4. PickFits(b) /\ InUse(a, b) BY <1>1, EntryPick
<1>5. EntryOK(b) /\ Alike(a, b) BY <1>1, <1>2, <1>3, <1>4, EntryLike
<1> QED BY <1>4, <1>5 DEF b

(* The list, changed in the entry of one ID.                               *)
LEMMA ListPatched ==
  ASSUME NEW l, NEW n, ListOK(l, n), NEW id, NEW m,
         m = [i \in DOMAIN l |-> m[i]],
         \A i \in DOMAIN l :
           IF l[i].id = id THEN EntryOK(m[i]) /\ Alike(l[i], m[i])
           ELSE m[i] = l[i]
  PROVE  Changed(l, n, m)
<1>1. \A i \in DOMAIN l : EntryOK(m[i]) /\ Alike(l[i], m[i])
  BY AlikeSelf DEF ListOK
<1> QED BY <1>1, EntriesChanged

LEMMA UsePatched ==
  ASSUME NEW l, NEW n, ListOK(l, n), NEW id, NEW m,
         m = [i \in DOMAIN l |-> m[i]],
         \A i \in DOMAIN l :
           IF l[i].id = id
           THEN EntryOK(m[i]) /\ Alike(l[i], m[i]) /\ InUse(l[i], m[i])
           ELSE m[i] = l[i]
  PROVE  Changed(l, n, m) /\ KeepsUsed(l, m)
<1>1. \A i \in DOMAIN l : InUse(l[i], m[i]) /\ m[i].id = l[i].id
  BY AlikeSelf DEF Alike
<1>2. KeepsUsed(l, m) BY <1>1, EntriesUsed
<1> QED BY <1>2, ListPatched

LEMMA ListEdited ==
  ASSUME NEW l, NEW n, ListOK(l, n), NEW id
  PROVE  Changed(l, n, Edit(l, id))
<1> DEFINE c(a) == IF a.card = None THEN a
                 ELSE [a EXCEPT !.draft =
                         IF @ = None THEN [text |-> a.card, saved |-> a.card]
                         ELSE @]
           m == Edit(l, id)
<1>1. m = [i \in DOMAIN l |-> IF l[i].id = id THEN c(l[i]) ELSE l[i]]
  BY DEF Edit, Patch
<1>2. ASSUME NEW a, EntryOK(a) PROVE EntryOK(c(a)) /\ Alike(a, c(a))
  <2>1. ReadFields \subseteq DOMAIN a /\ a.card \in Cards \cup {None}
        /\ a.draft \in CardDrafts \cup {None} /\ "id" \in DOMAIN a.echo
    BY <1>2 DEF EntryOK, EntryTyped
  <2>2. /\ c(a).id = a.id /\ c(a).kind = a.kind /\ c(a).url = a.url
        /\ c(a).status = a.status /\ c(a).card = a.card
        /\ c(a).result = a.result /\ c(a).error = a.error
        /\ c(a).custom = a.custom /\ c(a).selected = a.selected
        /\ c(a).prefer = a.prefer /\ c(a).echo = a.echo
        /\ DOMAIN c(a) = DOMAIN a
    BY <2>1 DEF ReadFields
  <2>3. c(a).draft \in CardDrafts \cup {None} BY <2>1 DEF ReadFields, CardDrafts
  <2> HIDE DEF c
  <2> QED BY <1>2, <2>1, <2>2, <2>3, SameFields
<1> HIDE DEF c, m
<1>3. /\ m = [i \in DOMAIN l |-> m[i]]
      /\ \A i \in DOMAIN l : m[i] = IF l[i].id = id THEN c(l[i]) ELSE l[i]
  BY <1>1
<1>4. \A i \in DOMAIN l : EntryOK(l[i]) BY DEF ListOK
<1>5. \A i \in DOMAIN l :
        IF l[i].id = id THEN EntryOK(m[i]) /\ Alike(l[i], m[i]) ELSE m[i] = l[i]
  BY <1>2, <1>3, <1>4
<1>6. Changed(l, n, m) BY <1>3, <1>5, ListPatched
<1> QED BY <1>6 DEF m

LEMMA ListDrafted ==
  ASSUME NEW l, NEW n, ListOK(l, n), NEW id, NEW t \in Cards
  PROVE  Changed(l, n, Draft(l, id, t))
<1> DEFINE c(a) == IF a.draft = None THEN a ELSE [a EXCEPT !.draft.text = t]
           m == Draft(l, id, t)
<1>1. m = [i \in DOMAIN l |-> IF l[i].id = id THEN c(l[i]) ELSE l[i]]
  BY DEF Draft, Patch
<1>2. ASSUME NEW a, EntryOK(a) PROVE EntryOK(c(a)) /\ Alike(a, c(a))
  <2>1. ReadFields \subseteq DOMAIN a /\ a.card \in Cards \cup {None}
        /\ a.draft \in CardDrafts \cup {None} /\ "id" \in DOMAIN a.echo
    BY <1>2 DEF EntryOK, EntryTyped
  <2>2. /\ c(a).id = a.id /\ c(a).kind = a.kind /\ c(a).url = a.url
        /\ c(a).status = a.status /\ c(a).card = a.card
        /\ c(a).result = a.result /\ c(a).error = a.error
        /\ c(a).custom = a.custom /\ c(a).selected = a.selected
        /\ c(a).prefer = a.prefer /\ c(a).echo = a.echo
        /\ DOMAIN c(a) = DOMAIN a
    BY <2>1 DEF ReadFields
  <2>3. c(a).draft \in CardDrafts \cup {None} BY <2>1 DEF ReadFields, CardDrafts
  <2> HIDE DEF c
  <2> QED BY <1>2, <2>1, <2>2, <2>3, SameFields
<1> HIDE DEF c, m
<1>3. /\ m = [i \in DOMAIN l |-> m[i]]
      /\ \A i \in DOMAIN l : m[i] = IF l[i].id = id THEN c(l[i]) ELSE l[i]
  BY <1>1
<1>4. \A i \in DOMAIN l : EntryOK(l[i]) BY DEF ListOK
<1>5. \A i \in DOMAIN l :
        IF l[i].id = id THEN EntryOK(m[i]) /\ Alike(l[i], m[i]) ELSE m[i] = l[i]
  BY <1>2, <1>3, <1>4
<1>6. Changed(l, n, m) BY <1>3, <1>5, ListPatched
<1> QED BY <1>6 DEF m

LEMMA ListDiscarded ==
  ASSUME NEW l, NEW n, ListOK(l, n), NEW id
  PROVE  Changed(l, n, DiscardDraft(l, id))
<1> DEFINE c(a) == IF a.draft = None THEN a
                 ELSE [a EXCEPT !.draft.text = a.draft.saved]
           m == DiscardDraft(l, id)
<1>1. m = [i \in DOMAIN l |-> IF l[i].id = id THEN c(l[i]) ELSE l[i]]
  BY DEF DiscardDraft, Patch
<1>2. ASSUME NEW a, EntryOK(a) PROVE EntryOK(c(a)) /\ Alike(a, c(a))
  <2>1. ReadFields \subseteq DOMAIN a /\ a.card \in Cards \cup {None}
        /\ a.draft \in CardDrafts \cup {None} /\ "id" \in DOMAIN a.echo
    BY <1>2 DEF EntryOK, EntryTyped
  <2>2. /\ c(a).id = a.id /\ c(a).kind = a.kind /\ c(a).url = a.url
        /\ c(a).status = a.status /\ c(a).card = a.card
        /\ c(a).result = a.result /\ c(a).error = a.error
        /\ c(a).custom = a.custom /\ c(a).selected = a.selected
        /\ c(a).prefer = a.prefer /\ c(a).echo = a.echo
        /\ DOMAIN c(a) = DOMAIN a
    BY <2>1 DEF ReadFields
  <2>3. c(a).draft \in CardDrafts \cup {None} BY <2>1 DEF ReadFields, CardDrafts
  <2> HIDE DEF c
  <2> QED BY <1>2, <2>1, <2>2, <2>3, SameFields
<1> HIDE DEF c, m
<1>3. /\ m = [i \in DOMAIN l |-> m[i]]
      /\ \A i \in DOMAIN l : m[i] = IF l[i].id = id THEN c(l[i]) ELSE l[i]
  BY <1>1
<1>4. \A i \in DOMAIN l : EntryOK(l[i]) BY DEF ListOK
<1>5. \A i \in DOMAIN l :
        IF l[i].id = id THEN EntryOK(m[i]) /\ Alike(l[i], m[i]) ELSE m[i] = l[i]
  BY <1>2, <1>3, <1>4
<1>6. Changed(l, n, m) BY <1>3, <1>5, ListPatched
<1> QED BY <1>6 DEF m

LEMMA ListClosed ==
  ASSUME NEW l, NEW n, ListOK(l, n), NEW id
  PROVE  Changed(l, n, CloseEditor(l, id))
<1> DEFINE c(a) == [a EXCEPT !.draft = None]
           m == CloseEditor(l, id)
<1>1. m = [i \in DOMAIN l |-> IF l[i].id = id THEN c(l[i]) ELSE l[i]]
  BY DEF CloseEditor, Patch
<1>2. ASSUME NEW a, EntryOK(a) PROVE EntryOK(c(a)) /\ Alike(a, c(a))
  <2>1. ReadFields \subseteq DOMAIN a /\ a.card \in Cards \cup {None}
        /\ a.draft \in CardDrafts \cup {None} /\ "id" \in DOMAIN a.echo
    BY <1>2 DEF EntryOK, EntryTyped
  <2>2. /\ c(a).id = a.id /\ c(a).kind = a.kind /\ c(a).url = a.url
        /\ c(a).status = a.status /\ c(a).card = a.card
        /\ c(a).result = a.result /\ c(a).error = a.error
        /\ c(a).custom = a.custom /\ c(a).selected = a.selected
        /\ c(a).prefer = a.prefer /\ c(a).echo = a.echo
        /\ DOMAIN c(a) = DOMAIN a
    BY <2>1 DEF ReadFields
  <2>3. c(a).draft \in CardDrafts \cup {None} BY <2>1 DEF ReadFields, CardDrafts
  <2> HIDE DEF c
  <2> QED BY <1>2, <2>1, <2>2, <2>3, SameFields
<1> HIDE DEF c, m
<1>3. /\ m = [i \in DOMAIN l |-> m[i]]
      /\ \A i \in DOMAIN l : m[i] = IF l[i].id = id THEN c(l[i]) ELSE l[i]
  BY <1>1
<1>4. \A i \in DOMAIN l : EntryOK(l[i]) BY DEF ListOK
<1>5. \A i \in DOMAIN l :
        IF l[i].id = id THEN EntryOK(m[i]) /\ Alike(l[i], m[i]) ELSE m[i] = l[i]
  BY <1>2, <1>3, <1>4
<1>6. Changed(l, n, m) BY <1>3, <1>5, ListPatched
<1> QED BY <1>6 DEF m

LEMMA ListRefreshed ==
  ASSUME NEW l, NEW n, ListOK(l, n), NEW id
  PROVE  /\ Changed(l, n, Patch(l, id, Loading))
         /\ KeepsUsed(l, Patch(l, id, Loading))
<1> DEFINE m == Patch(l, id, Loading)
<1>1. m = [i \in DOMAIN l |-> IF l[i].id = id THEN Loading(l[i]) ELSE l[i]]
  BY DEF Patch
<1> HIDE DEF m
<1>2. /\ m = [i \in DOMAIN l |-> m[i]]
      /\ \A i \in DOMAIN l : m[i] = IF l[i].id = id THEN Loading(l[i]) ELSE l[i]
  BY <1>1
<1>3. \A i \in DOMAIN l :
        /\ EntryOK(Loading(l[i])) /\ Alike(l[i], Loading(l[i]))
        /\ InUse(l[i], Loading(l[i])) /\ Loading(l[i]).id = l[i].id
  BY EntryLoading DEF ListOK, Alike
<1>4. \A i \in DOMAIN l :
        IF l[i].id = id
        THEN EntryOK(m[i]) /\ Alike(l[i], m[i]) /\ InUse(l[i], m[i])
        ELSE m[i] = l[i]
  BY <1>2, <1>3
<1>5. Changed(l, n, m) /\ KeepsUsed(l, m)
  BY <1>2, <1>4, UsePatched
<1> QED BY <1>5 DEF m

LEMMA ListFailed ==
  ASSUME NEW l, NEW n, ListOK(l, n), NEW id
  PROVE  /\ Changed(l, n, Failed(l, id))
         /\ KeepsUsed(l, Failed(l, id))
<1> DEFINE m == Failed(l, id)
<1>1. m = [i \in DOMAIN l |-> IF l[i].id = id THEN FailedEntry(l[i]) ELSE l[i]]
  BY DEF Failed, Patch, FailedEntry
<1> HIDE DEF m
<1>2. /\ m = [i \in DOMAIN l |-> m[i]]
      /\ \A i \in DOMAIN l :
           m[i] = IF l[i].id = id THEN FailedEntry(l[i]) ELSE l[i]
  BY <1>1
<1>3. \A i \in DOMAIN l :
        /\ EntryOK(FailedEntry(l[i])) /\ Alike(l[i], FailedEntry(l[i]))
        /\ InUse(l[i], FailedEntry(l[i])) /\ FailedEntry(l[i]).id = l[i].id
  BY EntryFailed DEF ListOK, Alike
<1>4. \A i \in DOMAIN l :
        IF l[i].id = id
        THEN EntryOK(m[i]) /\ Alike(l[i], m[i]) /\ InUse(l[i], m[i])
        ELSE m[i] = l[i]
  BY <1>2, <1>3
<1>5. Changed(l, n, m) /\ KeepsUsed(l, m)
  BY <1>2, <1>4, UsePatched
<1> QED BY <1>5 DEF m

LEMMA ListCardSaved ==
  ASSUME NEW l, NEW n, ListOK(l, n), NEW id, NEW t \in Cards
  PROVE  Changed(l, n, SaveCard(l, id, t))
<1> DEFINE s(d) == IF d = None THEN None ELSE [d EXCEPT !.saved = d.text]
           c(a) == [a EXCEPT !.card = t, !.draft = s(@)]
           m == SaveCard(l, id, t)
<1>1. m = [i \in DOMAIN l |-> IF l[i].id = id THEN c(l[i]) ELSE l[i]]
  BY DEF SaveCard, Patch
<1>2. ASSUME NEW a, EntryOK(a) PROVE EntryOK(c(a)) /\ Alike(a, c(a))
  <2>1. ReadFields \subseteq DOMAIN a /\ a.draft \in CardDrafts \cup {None}
        /\ t # None
    BY <1>2, ValuesAssumption DEF EntryOK, EntryTyped
  <2>2. /\ c(a).id = a.id /\ c(a).kind = a.kind /\ c(a).url = a.url
        /\ c(a).status = a.status /\ c(a).card = t
        /\ c(a).result = a.result /\ c(a).error = a.error
        /\ c(a).custom = a.custom /\ c(a).selected = a.selected
        /\ c(a).prefer = a.prefer /\ c(a).echo = a.echo
        /\ DOMAIN c(a) = DOMAIN a
    BY <2>1 DEF ReadFields
  <2>3. c(a).draft \in CardDrafts \cup {None}
    BY <2>1 DEF ReadFields, CardDrafts
  <2> HIDE DEF c
  <2>4. EntryTyped(c(a)) BY <1>2, <2>1, <2>2, <2>3 DEF EntryOK, EntryTyped
  <2>5. Tells(c(a)) BY <1>2, <2>2 DEF EntryOK, Tells
  <2>6. PickFits(c(a)) BY <1>2, <2>2, EntryPick
  <2> QED BY <1>2, <2>1, <2>2, <2>4, <2>5, <2>6, EntryLike
<1> HIDE DEF c, m
<1>3. /\ m = [i \in DOMAIN l |-> m[i]]
      /\ \A i \in DOMAIN l : m[i] = IF l[i].id = id THEN c(l[i]) ELSE l[i]
  BY <1>1
<1>4. \A i \in DOMAIN l : EntryOK(l[i]) BY DEF ListOK
<1>5. \A i \in DOMAIN l :
        IF l[i].id = id THEN EntryOK(m[i]) /\ Alike(l[i], m[i]) ELSE m[i] = l[i]
  BY <1>2, <1>3, <1>4
<1>6. Changed(l, n, m) BY <1>3, <1>5, ListPatched
<1> QED BY <1>6 DEF m

LEMMA ListReset ==
  ASSUME NEW l, NEW n, ListOK(l, n)
  PROVE  /\ Changed(l, n, SessionReset(l))
         /\ KeepsUsed(l, SessionReset(l))
<1> DEFINE m == SessionReset(l)
           c(a) == AfterSessionLoss(a)
<1>1. m = [i \in DOMAIN l |-> c(l[i])] BY DEF SessionReset
<1>2. ASSUME NEW a, EntryOK(a)
      PROVE  EntryOK(c(a)) /\ Alike(a, c(a)) /\ InUse(a, c(a))
  <2>1. ReadFields \subseteq DOMAIN a /\ a.draft \in CardDrafts \cup {None}
        /\ "id" \in DOMAIN a.echo
    BY <1>2 DEF EntryOK, EntryTyped
  <2> DEFINE w == WithoutConnection(a)
  <2>2. /\ w.id = a.id /\ w.kind = a.kind /\ w.url = a.url
        /\ w.status = a.status /\ w.card = a.card /\ w.draft = a.draft
        /\ w.result = a.result /\ w.error = a.error
        /\ w.custom = a.custom /\ w.selected = a.selected
        /\ w.prefer = a.prefer /\ w.echo = a.echo
        /\ DOMAIN w = DOMAIN a
    BY <2>1 DEF ReadFields, WithoutConnection
  <2> HIDE DEF w
  <2>3. c(a) = [w EXCEPT !.settings = SettingsAfterSessionLoss(a.settings)]
    BY DEF AfterSessionLoss, w
  <2> HIDE DEF c
  <2>4. /\ c(a).id = a.id /\ c(a).kind = a.kind /\ c(a).url = a.url
        /\ c(a).status = a.status /\ c(a).card = a.card /\ c(a).draft = a.draft
        /\ c(a).result = a.result /\ c(a).error = a.error
        /\ c(a).custom = a.custom /\ c(a).selected = a.selected
        /\ c(a).prefer = a.prefer /\ c(a).echo = a.echo
        /\ DOMAIN c(a) = DOMAIN a
    BY <2>1, <2>2, <2>3 DEF ReadFields
  <2> QED BY <1>2, <2>1, <2>4, SameFields
<1> HIDE DEF c, m
<1>3. m = [i \in DOMAIN l |-> m[i]] /\ \A i \in DOMAIN l : m[i] = c(l[i])
  BY <1>1
<1>4. \A i \in DOMAIN l : /\ EntryOK(m[i]) /\ Alike(l[i], m[i])
                          /\ InUse(l[i], m[i]) /\ m[i].id = l[i].id
  BY <1>2, <1>3 DEF ListOK, Alike
<1>5. Changed(l, n, m) BY <1>3, <1>4, EntriesChanged
<1>6. KeepsUsed(l, m) BY <1>3, <1>4, EntriesUsed
<1> QED BY <1>5, <1>6 DEF m

LEMMA ListExited ==
  ASSUME NEW l, NEW n, ListOK(l, n), NEW id, NEW e,
         \A i \in DOMAIN l :
           l[i].id = id => "id" \in DOMAIN e /\ e.id = l[i].echo.id
  PROVE  /\ Changed(l, n, EchoStatus(l, id, e))
         /\ KeepsUsed(l, EchoStatus(l, id, e))
<1> DEFINE m == EchoStatus(l, id, e)
           c(a) == [a EXCEPT !.echo = e]
<1>1. m = [i \in DOMAIN l |-> IF l[i].id = id THEN c(l[i]) ELSE l[i]]
  BY DEF EchoStatus, Patch
<1>2. ASSUME NEW a, EntryOK(a), "id" \in DOMAIN e, e.id = a.echo.id
      PROVE  EntryOK(c(a)) /\ Alike(a, c(a)) /\ InUse(a, c(a))
  <2>1. ReadFields \subseteq DOMAIN a /\ a.draft \in CardDrafts \cup {None}
    BY <1>2 DEF EntryOK, EntryTyped
  <2>2. /\ c(a).id = a.id /\ c(a).kind = a.kind /\ c(a).url = a.url
        /\ c(a).status = a.status /\ c(a).card = a.card /\ c(a).draft = a.draft
        /\ c(a).result = a.result /\ c(a).error = a.error
        /\ c(a).custom = a.custom /\ c(a).selected = a.selected
        /\ c(a).prefer = a.prefer /\ c(a).echo = e
        /\ DOMAIN c(a) = DOMAIN a
    BY <2>1 DEF ReadFields
  <2> HIDE DEF c
  <2> QED BY <1>2, <2>1, <2>2, SameFields
<1> HIDE DEF c, m
<1>3. /\ m = [i \in DOMAIN l |-> m[i]]
      /\ \A i \in DOMAIN l : m[i] = IF l[i].id = id THEN c(l[i]) ELSE l[i]
  BY <1>1
<1>4. \A i \in DOMAIN l : l[i].id = id =>
        /\ EntryOK(m[i]) /\ Alike(l[i], m[i])
        /\ InUse(l[i], m[i]) /\ m[i].id = l[i].id
  BY <1>2, <1>3 DEF ListOK, Alike
<1>5. \A i \in DOMAIN l :
        IF l[i].id = id
        THEN EntryOK(m[i]) /\ Alike(l[i], m[i]) /\ InUse(l[i], m[i])
        ELSE m[i] = l[i]
  BY <1>3, <1>4
<1>6. Changed(l, n, m) /\ KeepsUsed(l, m)
  BY <1>3, <1>5, UsePatched
<1> QED BY <1>6 DEF m

LEMMA EntryInterfaces ==
  ASSUME NEW a, EntryOK(a)
  PROVE  /\ IsList(CardInterfaces(a)) /\ IsList(a.custom) /\ IsList(InterfacesOf(a))
         /\ Len(CardInterfaces(a)) \in Nat /\ Len(a.custom) \in Nat
         /\ DOMAIN CardInterfaces(a) = 1..Len(CardInterfaces(a))
         /\ DOMAIN a.custom = 1..Len(a.custom)
         /\ DOMAIN InterfacesOf(a) = 1..(Len(CardInterfaces(a)) + Len(a.custom))
         /\ Len(InterfacesOf(a)) = Len(CardInterfaces(a)) + Len(a.custom)
<1>1. IsList(CardInterfaces(a))
  <2>1. CASE a.result = None BY <2>1, ListOfNone DEF CardInterfaces
  <2>2. CASE a.result # None
    <3>1. a.result.interfaces \in Offers \cup {<<>>}
      BY <2>2 DEF EntryOK, EntryTyped, Results
    <3> QED BY <2>2, <3>1, ListOfNone, ValuesAssumption DEF CardInterfaces
  <2> QED BY <2>1, <2>2
<1>2. IsList(a.custom) BY DEF EntryOK, EntryTyped
<1>3. /\ IsList(InterfacesOf(a))
      /\ DOMAIN InterfacesOf(a) = 1..(Len(CardInterfaces(a)) + Len(a.custom))
      /\ Len(InterfacesOf(a)) = Len(CardInterfaces(a)) + Len(a.custom)
  BY <1>1, <1>2, ListConcat DEF InterfacesOf
<1>4. /\ Len(CardInterfaces(a)) \in Nat /\ Len(a.custom) \in Nat
      /\ DOMAIN CardInterfaces(a) = 1..Len(CardInterfaces(a))
      /\ DOMAIN a.custom = 1..Len(a.custom)
  BY <1>1, <1>2, ListFacts
<1> QED BY <1>1, <1>2, <1>3, <1>4

LEMMA ListPickSet ==
  ASSUME NEW l, NEW n, ListOK(l, n), NEW id, NEW k,
         \A i \in DOMAIN l : l[i].id = id => k \in DOMAIN InterfacesOf(l[i])
  PROVE  Changed(l, n, SelectInterface(l, id, k))
<1> DEFINE c(a) == [a EXCEPT !.selected = k]
           m == SelectInterface(l, id, k)
<1>1. m = [i \in DOMAIN l |-> IF l[i].id = id THEN c(l[i]) ELSE l[i]]
  BY DEF SelectInterface, Patch
<1>2. ASSUME NEW a, EntryOK(a), k \in DOMAIN InterfacesOf(a)
      PROVE  EntryOK(c(a)) /\ Alike(a, c(a))
  <2>1. ReadFields \subseteq DOMAIN a BY <1>2 DEF EntryOK, EntryTyped
  <2>2. /\ c(a).id = a.id /\ c(a).kind = a.kind /\ c(a).url = a.url
        /\ c(a).status = a.status /\ c(a).card = a.card
        /\ c(a).result = a.result /\ c(a).error = a.error
        /\ c(a).custom = a.custom /\ c(a).selected = k
        /\ c(a).prefer = a.prefer /\ c(a).echo = a.echo
        /\ c(a).draft = a.draft /\ DOMAIN c(a) = DOMAIN a
    BY <2>1 DEF ReadFields
  <2> HIDE DEF c
  <2>3. EntryTyped(c(a)) BY <1>2, <2>1, <2>2 DEF EntryOK, EntryTyped
  <2>4. Tells(c(a)) BY <1>2, <2>2 DEF EntryOK, Tells
  <2>5. InterfacesOf(c(a)) = InterfacesOf(a)
    BY <2>2 DEF InterfacesOf, CardInterfaces
  <2>6. PickFits(c(a)) BY <1>2, <2>2, <2>5, EntryInterfaces DEF PickFits
  <2> QED BY <1>2, <2>2, <2>3, <2>4, <2>6, EntryLike
<1> HIDE DEF c, m
<1>3. /\ m = [i \in DOMAIN l |-> m[i]]
      /\ \A i \in DOMAIN l : m[i] = IF l[i].id = id THEN c(l[i]) ELSE l[i]
  BY <1>1
<1>4. \A i \in DOMAIN l : EntryOK(l[i]) BY DEF ListOK
<1>5. \A i \in DOMAIN l :
        IF l[i].id = id THEN EntryOK(m[i]) /\ Alike(l[i], m[i]) ELSE m[i] = l[i]
  BY <1>2, <1>3, <1>4
<1>6. Changed(l, n, m) BY <1>3, <1>5, ListPatched
<1> QED BY <1>6 DEF m

LEMMA ListInterfaceAdded ==
  ASSUME NEW l, NEW n, ListOK(l, n), NEW id, NEW f
  PROVE  Changed(l, n, AddInterface(l, id, f))
<1> DEFINE c(a) == [a EXCEPT !.custom = Append(@, f),
                             !.selected = Len(InterfacesOf(a)) + 1]
           m == AddInterface(l, id, f)
<1>1. m = [i \in DOMAIN l |-> IF l[i].id = id THEN c(l[i]) ELSE l[i]]
  BY DEF AddInterface, Patch
<1>2. ASSUME NEW a, EntryOK(a) PROVE EntryOK(c(a)) /\ Alike(a, c(a))
  <2>1. ReadFields \subseteq DOMAIN a BY <1>2 DEF EntryOK, EntryTyped
  <2> DEFINE u == Append(a.custom, f)
             k == Len(InterfacesOf(a)) + 1
  <2>2. /\ c(a).id = a.id /\ c(a).kind = a.kind /\ c(a).url = a.url
        /\ c(a).status = a.status /\ c(a).card = a.card
        /\ c(a).result = a.result /\ c(a).error = a.error
        /\ c(a).custom = u /\ c(a).selected = k
        /\ c(a).prefer = a.prefer /\ c(a).echo = a.echo
        /\ c(a).draft = a.draft /\ DOMAIN c(a) = DOMAIN a
    BY <2>1 DEF ReadFields
  <2>3. IsList(u) /\ Len(u) = Len(a.custom) + 1 BY <1>2, EntryInterfaces, ListAppend
  <2> HIDE DEF c, u
  <2>4. EntryTyped(c(a)) BY <1>2, <2>1, <2>2, <2>3 DEF EntryOK, EntryTyped
  <2>5. Tells(c(a)) BY <1>2, <2>2 DEF EntryOK, Tells
  <2>6. CardInterfaces(c(a)) = CardInterfaces(a) BY <2>2 DEF CardInterfaces
  <2>7. Len(InterfacesOf(c(a))) = k /\ k \in Nat
    <3>1. IsList(CardInterfaces(a)) BY <1>2, EntryInterfaces
    <3>2. Len(CardInterfaces(a) \o u) = Len(CardInterfaces(a)) + Len(u)
      BY <2>3, <3>1, ListConcat
    <3>3. InterfacesOf(c(a)) = CardInterfaces(a) \o u
      BY <2>2, <2>6 DEF InterfacesOf
    <3> QED BY <1>2, <2>3, <3>2, <3>3, EntryInterfaces
  <2> HIDE DEF k
  <2>8. PickFits(c(a)) BY <2>2, <2>7 DEF PickFits
  <2> QED BY <1>2, <2>2, <2>4, <2>5, <2>8, EntryLike
<1> HIDE DEF c, m
<1>3. /\ m = [i \in DOMAIN l |-> m[i]]
      /\ \A i \in DOMAIN l : m[i] = IF l[i].id = id THEN c(l[i]) ELSE l[i]
  BY <1>1
<1>4. \A i \in DOMAIN l : EntryOK(l[i]) BY DEF ListOK
<1>5. \A i \in DOMAIN l :
        IF l[i].id = id THEN EntryOK(m[i]) /\ Alike(l[i], m[i]) ELSE m[i] = l[i]
  BY <1>2, <1>3, <1>4
<1>6. Changed(l, n, m) BY <1>3, <1>5, ListPatched
<1> QED BY <1>6 DEF m

LEMMA ListInterfaceDropped ==
  ASSUME NEW l, NEW n, ListOK(l, n), NEW id, NEW k \in Nat,
         \A i \in DOMAIN l : l[i].id = id => k \in DOMAIN InterfacesOf(l[i])
         /\ k > Len(CardInterfaces(l[i]))
  PROVE  Changed(l, n, RemoveInterface(l, id, k))
<1> DEFINE o(a) == Len(CardInterfaces(a))
           d(a) == IF a.result = None THEN 0 ELSE a.result.default
           c(a) == [a EXCEPT
             !.custom = IF k - o(a) \in DOMAIN @ THEN RemoveAt(@, k - o(a)) ELSE @,
             !.selected = IF @ = k THEN d(a) ELSE IF @ > k THEN @ - 1 ELSE @]
           m == RemoveInterface(l, id, k)
<1>1. m = [i \in DOMAIN l |-> IF l[i].id = id THEN c(l[i]) ELSE l[i]]
  BY DEF RemoveInterface, Patch
<1>2. ASSUME NEW a, EntryOK(a), k \in DOMAIN InterfacesOf(a),
             k > Len(CardInterfaces(a))
      PROVE  EntryOK(c(a)) /\ Alike(a, c(a))
  <2>1. ReadFields \subseteq DOMAIN a BY <1>2 DEF EntryOK, EntryTyped
  <2> DEFINE u == RemoveAt(a.custom, k - o(a))
             s == IF a.selected = k THEN d(a)
                  ELSE IF a.selected > k THEN a.selected - 1 ELSE a.selected
  <2>2. /\ o(a) \in Nat /\ Len(a.custom) \in Nat /\ DOMAIN a.custom = 1..Len(a.custom)
        /\ k \in 1..(o(a) + Len(a.custom)) /\ k > o(a) /\ IsList(a.custom)
        /\ IsList(CardInterfaces(a))
        /\ a.selected \in 0..(o(a) + Len(a.custom))
    BY <1>2, EntryInterfaces DEF EntryOK, PickFits
  <2>3. k - o(a) \in DOMAIN a.custom BY <2>2
  <2>4. IsList(u) /\ Len(u) = Len(a.custom) - 1 BY <2>2, <2>3, ListRemoved
  <2>5. d(a) \in 0..o(a)
    BY <1>2 DEF EntryOK, ResultFits, CardInterfaces
  <2>6. /\ c(a).id = a.id /\ c(a).kind = a.kind /\ c(a).url = a.url
        /\ c(a).status = a.status /\ c(a).card = a.card
        /\ c(a).result = a.result /\ c(a).error = a.error
        /\ c(a).custom = u /\ c(a).selected = s
        /\ c(a).prefer = a.prefer /\ c(a).echo = a.echo
        /\ c(a).draft = a.draft /\ DOMAIN c(a) = DOMAIN a
    <3> HIDE DEF o, d
    <3> QED BY <2>1, <2>3 DEF ReadFields
  <2> HIDE DEF c, u
  <2>7. EntryTyped(c(a)) BY <1>2, <2>1, <2>4, <2>6 DEF EntryOK, EntryTyped
  <2>8. Tells(c(a)) BY <1>2, <2>6 DEF EntryOK, Tells
  <2>9. CardInterfaces(c(a)) = CardInterfaces(a) BY <2>6 DEF CardInterfaces
  <2>10. Len(InterfacesOf(c(a))) = o(a) + Len(u)
    <3>1. Len(CardInterfaces(a) \o u) = Len(CardInterfaces(a)) + Len(u)
      BY <2>2, <2>4, ListConcat
    <3>2. InterfacesOf(c(a)) = CardInterfaces(a) \o u
      BY <2>6, <2>9 DEF InterfacesOf
    <3> QED BY <3>1, <3>2
  <2>11. s \in 0..(o(a) + (Len(a.custom) - 1))
    <3> HIDE DEF o, d
    <3> QED BY <2>2, <2>5
  <2> HIDE DEF s, o, d
  <2>12. PickFits(c(a)) BY <2>4, <2>6, <2>10, <2>11 DEF PickFits
  <2> QED BY <1>2, <2>6, <2>7, <2>8, <2>12, EntryLike
<1> HIDE DEF c, m, o, d
<1>3. /\ m = [i \in DOMAIN l |-> m[i]]
      /\ \A i \in DOMAIN l : m[i] = IF l[i].id = id THEN c(l[i]) ELSE l[i]
  BY <1>1
<1>4. \A i \in DOMAIN l : EntryOK(l[i]) BY DEF ListOK
<1>5. \A i \in DOMAIN l :
        IF l[i].id = id THEN EntryOK(m[i]) /\ Alike(l[i], m[i]) ELSE m[i] = l[i]
  BY <1>2, <1>3, <1>4
<1>6. Changed(l, n, m) BY <1>3, <1>5, ListPatched
<1> QED BY <1>6 DEF m

LEMMA EntryMade ==
  ASSUME NEW e, EntryTyped(e), e.result = None, e.selected \in 0..Len(e.custom),
         e.kind = "card" /\ e.card = None => e.url \in Refs, e.error = FALSE,
         IF e.kind = "endpoint" THEN e.status # "idle"
         ELSE e.status \in {"idle", "loading"}
  PROVE  EntryOK(e) /\ CardUrl(e) = None
<1>1. CardUrl(e) = None /\ CardInterfaces(e) = <<>> BY DEF CardUrl, CardInterfaces
<1>2. Len(InterfacesOf(e)) = Len(e.custom)
  <2>1. IsList(<<>>) /\ IsList(e.custom) /\ Len(<<>>) = 0
    BY ListOfNone, EmptySeq DEF EntryTyped
  <2>2. Len(<<>> \o e.custom) = 0 + Len(e.custom) BY <2>1, ListConcat
  <2>3. Len(e.custom) \in Nat BY <2>1, ListFacts
  <2> QED BY <1>1, <2>2, <2>3 DEF InterfacesOf
<1>3. PickFits(e) BY <1>2 DEF PickFits
<1>4. Refers(e) BY <1>1 DEF Refers
<1>5. Tells(e) BY DEF Tells
<1>6. ResultFits(e.result) BY DEF ResultFits
<1> QED BY <1>1, <1>3, <1>4, <1>5, <1>6 DEF EntryOK

LEMMA ListOfOne ==
  ASSUME NEW x
  PROVE  IsList(<<x>>) /\ Len(<<x>>) = 1 /\ DOMAIN <<x>> = 1..1 /\ <<x>>[1] = x
<1>1. DOMAIN <<x>> = 1..1 /\ <<x>> = [i \in 1..1 |-> <<x>>[i]] /\ <<x>>[1] = x
  OBVIOUS
<1> QED BY <1>1, ListIs

BaseFields ==
  ReadFields \cup {"identifier", "savedInterface", "shared", "settings"}

(* An entry whose card was not fetched yet.                                *)
Unfetched(e, id, url) ==
  /\ BaseFields \subseteq DOMAIN e /\ e.id = id /\ e.kind = "card" /\ e.url = url
  /\ e.status = "idle" /\ e.card = None /\ e.draft = None /\ e.echo = NoEcho
  /\ e.result = None /\ e.error = FALSE /\ e.custom = <<>> /\ e.selected = 0
  /\ e.prefer = None

LEMMA CreateAgentIs ==
  ASSUME NEW id, NEW url
  PROVE  Unfetched(CreateAgent(id, url, "card"), id, url)
<1> DEFINE n == NewEntry(id, url, "card", DefaultSettings)
           e == CreateAgent(id, url, "card")
<1>1. /\ BaseFields \subseteq DOMAIN n /\ n.id = id /\ n.kind = "card"
      /\ n.url = url /\ n.card = None /\ n.draft = None
      /\ n.echo = NoEcho /\ n.result = None /\ n.error = FALSE
      /\ n.custom = <<>> /\ n.selected = 0 /\ n.prefer = None
  BY DEF NewEntry, BaseFields, ReadFields
<1>2. e = [n EXCEPT !.status = "idle"] BY DEF CreateAgent
<1> HIDE DEF n, e
<1>3. Unfetched(e, id, url) BY <1>1, <1>2 DEF Unfetched, BaseFields, ReadFields
<1> QED BY <1>3 DEF e

(* An entry for a reference, as Add makes it.                              *)
LEMMA EntryForRef ==
  ASSUME NEW id \in Nat \ {0}, NEW ref \in Refs, NEW w, NEW p,
         p = None \/ IsList(p)
  PROVE  LET e == [NewEntry(id, ref, "card", w) EXCEPT !.prefer = p]
         IN  New(e, id) /\ CardUrl(e) = None /\ e.url = ref /\ e.kind = "card"
             /\ e.card = None /\ ~ IsEcho(e)
<1> DEFINE n == NewEntry(id, ref, "card", w)
           e == [n EXCEPT !.prefer = p]
<1>1. /\ ReadFields \subseteq DOMAIN n /\ n.id = id /\ n.kind = "card"
      /\ n.url = ref /\ n.card = None /\ n.draft = None /\ n.status = "loading"
      /\ n.echo = NoEcho /\ n.result = None /\ n.error = FALSE
      /\ n.custom = <<>> /\ n.selected = 0
  BY DEF NewEntry, ReadFields
<1> HIDE DEF n
<1>2. /\ ReadFields \subseteq DOMAIN e /\ e.id = id /\ e.kind = "card"
      /\ e.url = ref /\ e.card = None /\ e.draft = None /\ e.status = "loading"
      /\ e.echo = NoEcho /\ e.result = None /\ e.error = FALSE
      /\ e.custom = <<>> /\ e.selected = 0 /\ e.prefer = p
  BY <1>1 DEF ReadFields
<1> HIDE DEF e
<1>3. NoEcho.id = 0 /\ "id" \in DOMAIN NoEcho BY DEF NoEcho
<1>4. EntryTyped(e) BY <1>2, <1>3, ListOfNone DEF EntryTyped
<1>5. e.selected \in 0..Len(e.custom) BY <1>2, EmptySeq
<1>6. EntryOK(e) /\ CardUrl(e) = None BY <1>2, <1>4, <1>5, EntryMade
<1> QED BY <1>2, <1>3, <1>6 DEF New, IsEcho, e, n

(* An entry for an interface, as AddEndpoint makes it.                     *)
LEMMA EntryForInterface ==
  ASSUME NEW id \in Nat \ {0}, NEW url, NEW w, NEW f
  PROVE  LET e == [NewEntry(id, url, "endpoint", w)
                     EXCEPT !.status = "done", !.custom = <<f>>, !.selected = 1]
         IN  New(e, id) /\ ~ ByUrl(e)
<1> DEFINE n == NewEntry(id, url, "endpoint", w)
           u == <<f>>
           e == [n EXCEPT !.status = "done", !.custom = u, !.selected = 1]
<1>1. /\ ReadFields \subseteq DOMAIN n /\ n.id = id /\ n.kind = "endpoint"
      /\ n.url = url /\ n.card = None /\ n.draft = None
      /\ n.echo = NoEcho /\ n.result = None /\ n.error = FALSE
      /\ n.prefer = None
  BY DEF NewEntry, ReadFields
<1>2. IsList(u) /\ Len(u) = 1 BY ListOfOne
<1> HIDE DEF n, u
<1>3. /\ ReadFields \subseteq DOMAIN e /\ e.id = id /\ e.kind = "endpoint"
      /\ e.url = url /\ e.card = None /\ e.draft = None /\ e.status = "done"
      /\ e.echo = NoEcho /\ e.result = None /\ e.error = FALSE
      /\ e.custom = u /\ e.selected = 1 /\ e.prefer = None
  BY <1>1 DEF ReadFields
<1> HIDE DEF e
<1>4. NoEcho.id = 0 /\ "id" \in DOMAIN NoEcho BY DEF NoEcho
<1>5. EntryTyped(e) BY <1>2, <1>3, <1>4 DEF EntryTyped
<1>6. e.selected \in 0..Len(e.custom) BY <1>2, <1>3, 1 \in 0..1
<1>7. ~ ByUrl(e) BY <1>3 DEF ByUrl
<1>8. EntryOK(e) BY <1>3, <1>5, <1>6, <1>7, EntryMade
<1> QED BY <1>3, <1>7, <1>8 DEF New, e, n, u

(* An entry for a card written in the editor.                              *)
LEMMA EntryForCard ==
  ASSUME NEW id \in Nat \ {0}, NEW u, NEW t \in Cards
  PROVE  LET e == [CreateAgent(id, None, "card") EXCEPT
                     !.identifier = u, !.card = t,
                     !.draft = [text |-> t, saved |-> t]]
         IN  New(e, id) /\ ~ ByUrl(e) /\ e.kind = "card"
<1> DEFINE n == CreateAgent(id, None, "card")
           d == [text |-> t, saved |-> t]
           e == [n EXCEPT !.identifier = u, !.card = t, !.draft = d]
<1>1. Unfetched(n, id, None) BY CreateAgentIs
<1>2. d \in CardDrafts BY DEF CardDrafts
<1> HIDE DEF n, d
<1>3. /\ ReadFields \subseteq DOMAIN e /\ e.id = id /\ e.kind = "card"
      /\ e.url = None /\ e.card = t /\ e.draft = d /\ e.status = "idle"
      /\ e.echo = NoEcho /\ e.result = None /\ e.error = FALSE
      /\ e.custom = <<>> /\ e.selected = 0 /\ e.prefer = None
  BY <1>1 DEF Unfetched, BaseFields, ReadFields
<1> HIDE DEF e
<1>4. NoEcho.id = 0 /\ "id" \in DOMAIN NoEcho BY DEF NoEcho
<1>5. EntryTyped(e) BY <1>2, <1>3, <1>4, ListOfNone DEF EntryTyped
<1>6. e.selected \in 0..Len(e.custom) BY <1>3, EmptySeq
<1>7. ~ ByUrl(e) BY <1>3, ValuesAssumption DEF ByUrl
<1>8. EntryOK(e) BY <1>3, <1>5, <1>6, <1>7, EntryMade, ValuesAssumption
<1> QED BY <1>3, <1>7, <1>8 DEF New, e, n, d

LEMMA EntryForEcho ==
  ASSUME NEW id \in Nat \ {0}, NEW source
  PROVE  LET e == EchoEntry(id, source)
         IN  New(e, id) /\ ~ ByUrl(e) /\ e.kind = "card" /\ e.echo.id = id
<1> DEFINE r == CHOOSE r \in Refs : Leads[r] = r
           n == CreateAgent(id, r, "card")
           x == [id |-> id, source |-> source, exited |-> FALSE]
           e == EchoEntry(id, source)
<1>1. Unfetched(n, id, r) BY CreateAgentIs
<1>2. e = [n EXCEPT !.echo = x] BY DEF EchoEntry
<1>0. r \in Refs
  <2>1. PICK q \in Refs : TRUE BY ValuesAssumption
  <2>2. Leads[q] \in Refs /\ Leads[Leads[q]] = Leads[q] BY <2>1, ListAssumption
  <2> QED BY <2>2
<1>3. x.id = id /\ "id" \in DOMAIN x OBVIOUS
<1> HIDE DEF n, x, e, r
<1>4. /\ ReadFields \subseteq DOMAIN e /\ e.id = id /\ e.kind = "card"
      /\ e.url = r /\ e.card = None /\ e.draft = None /\ e.status = "idle"
      /\ e.echo = x /\ e.result = None /\ e.error = FALSE
      /\ e.custom = <<>> /\ e.selected = 0 /\ e.prefer = None
  BY <1>1, <1>2 DEF Unfetched, BaseFields, ReadFields
<1>5. EntryTyped(e) BY <1>3, <1>4, ListOfNone DEF EntryTyped
<1>6. e.selected \in 0..Len(e.custom) BY <1>4, EmptySeq
<1>7. ~ ByUrl(e) BY <1>3, <1>4 DEF ByUrl, IsEcho
<1>8. EntryOK(e) BY <1>0, <1>4, <1>5, <1>6, EntryMade
<1> QED BY <1>3, <1>4, <1>7, <1>8 DEF New, e

(* What is read of a catalog.                                              *)
LEMMA SavedIs ==
  ASSUME NEW a, BaseFields \subseteq DOMAIN a, NEW s
  PROVE  LET b == ReadSaved(a, s)
         IN  /\ BaseFields \subseteq DOMAIN b /\ b.id = a.id /\ b.kind = a.kind
             /\ b.url = a.url /\ b.status = a.status /\ b.card = a.card
             /\ b.draft = a.draft /\ b.echo = a.echo /\ b.result = a.result
             /\ b.error = a.error /\ b.selected = a.selected
             /\ b.prefer = a.prefer /\ b.custom = s.custom
BY DEF ReadSaved, BaseFields, ReadFields

LEMMA EntryRead ==
  ASSUME NEW id \in Nat \ {0}, NEW e, EntryAllowed(e)
  PROVE  LET b == ReadEntry(id, e)
         IN  New(b, id) /\ CardUrl(b) = None /\ b.url = e.cardUrl
             /\ b.card = e.card /\ b.kind = "card" /\ ~ IsEcho(b)
<1> DEFINE n == CreateAgent(id, e.cardUrl, "card")
           a == [n EXCEPT !.identifier = e.identifier, !.card = e.card]
           b == ReadEntry(id, e)
<1>1. Unfetched(n, id, e.cardUrl) BY CreateAgentIs
<1>2. /\ e.card \in Cards \cup {None} /\ (e.card = None => e.cardUrl \in Refs)
      /\ e.saved = None \/ IsList(e.saved.custom)
  BY DEF EntryAllowed
<1>3. b = IF e.saved = None THEN a ELSE ReadSaved(a, e.saved) BY DEF ReadEntry
<1> HIDE DEF n, b
<1>4. /\ BaseFields \subseteq DOMAIN a /\ a.id = id /\ a.kind = "card"
      /\ a.url = e.cardUrl /\ a.card = e.card /\ a.draft = None
      /\ a.status = "idle" /\ a.echo = NoEcho /\ a.result = None
      /\ a.error = FALSE /\ a.custom = <<>> /\ a.selected = 0 /\ a.prefer = None
  BY <1>1 DEF Unfetched, BaseFields, ReadFields
<1> HIDE DEF a
<1>5. /\ BaseFields \subseteq DOMAIN b /\ b.id = id /\ b.kind = "card"
      /\ b.url = e.cardUrl /\ b.card = e.card /\ b.draft = None
      /\ b.status = "idle" /\ b.echo = NoEcho /\ b.result = None
      /\ b.error = FALSE /\ b.selected = 0 /\ b.prefer = None /\ IsList(b.custom)
  <2>1. CASE e.saved = None BY <1>3, <1>4, <2>1, ListOfNone
  <2>2. CASE e.saved # None
    <3>1. b = ReadSaved(a, e.saved) BY <1>3, <2>2
    <3> QED BY <1>2, <1>4, <2>2, <3>1, SavedIs
  <2> QED BY <2>1, <2>2
<1>6. NoEcho.id = 0 /\ "id" \in DOMAIN NoEcho BY DEF NoEcho
<1>7. EntryTyped(b) BY <1>2, <1>5, <1>6 DEF EntryTyped, BaseFields
<1>8. b.selected \in 0..Len(b.custom) BY <1>5, ListFacts
<1>9. b.card = None => b.url \in Refs BY <1>2, <1>5
<1>10. EntryOK(b) /\ CardUrl(b) = None BY <1>5, <1>7, <1>8, <1>9, EntryMade
<1> QED BY <1>5, <1>6, <1>10 DEF New, IsEcho, b

LEMMA EndpointRead ==
  ASSUME NEW id \in Nat \ {0}, NEW s, IsList(s.custom), s.custom # <<>>
  PROVE  New(ReadEndpoint(id, s), id) /\ ~ ByUrl(ReadEndpoint(id, s))
<1> DEFINE same == {i \in DOMAIN s.custom : SameInterface(s.custom[i], s.iface)}
           first == IF same = {} THEN 1 ELSE Min(same)
           n == CreateAgent(id, s.custom[1].key, "endpoint")
           a == [n EXCEPT !.status = "done", !.selected = first]
           b == ReadEndpoint(id, s)
<1>1. b = ReadSaved(a, s) BY DEF ReadEndpoint
<1>2. /\ BaseFields \subseteq DOMAIN n /\ n.id = id /\ n.kind = "endpoint"
      /\ n.card = None /\ n.draft = None
      /\ n.echo = NoEcho /\ n.result = None /\ n.error = FALSE
      /\ n.prefer = None
  <2> DEFINE w == NewEntry(id, s.custom[1].key, "endpoint", DefaultSettings)
  <2>1. /\ BaseFields \subseteq DOMAIN w /\ w.id = id /\ w.kind = "endpoint"
        /\ w.card = None /\ w.draft = None
        /\ w.echo = NoEcho /\ w.result = None /\ w.error = FALSE
        /\ w.prefer = None
    BY DEF NewEntry, BaseFields, ReadFields
  <2>2. n = [w EXCEPT !.status = "idle"] BY DEF CreateAgent
  <2> HIDE DEF w, n
  <2> QED BY <2>1, <2>2 DEF BaseFields, ReadFields
<1>3. /\ Len(s.custom) \in Nat /\ DOMAIN s.custom = 1..Len(s.custom)
      /\ Len(s.custom) # 0
  <2>1. Len(s.custom) \in Nat /\ DOMAIN s.custom = 1..Len(s.custom) BY ListFacts
  <2>2. s.custom \in Seq(Range(s.custom)) BY DEF IsList
  <2> QED BY <2>1, <2>2, EmptySeq
<1>4. first \in 1..Len(s.custom)
  <2>1. same \subseteq 1..Len(s.custom) BY <1>3
  <2>2. same \subseteq Nat BY <2>1
  <2> HIDE DEF same
  <2>3. CASE same = {} BY <1>3, <2>3
  <2>4. CASE same # {}
    <3>1. Min(same) \in same BY <2>2, <2>4, Least
    <3> QED BY <2>1, <2>4, <3>1
  <2> QED BY <2>3, <2>4
<1> HIDE DEF n, b, first
<1>5. /\ BaseFields \subseteq DOMAIN a /\ a.id = id /\ a.kind = "endpoint"
      /\ a.card = None /\ a.draft = None /\ a.status = "done"
      /\ a.echo = NoEcho /\ a.result = None /\ a.error = FALSE
      /\ a.selected = first /\ a.prefer = None
  BY <1>2 DEF BaseFields, ReadFields
<1> HIDE DEF a
<1>6. /\ BaseFields \subseteq DOMAIN b /\ b.id = id /\ b.kind = "endpoint"
      /\ b.card = None /\ b.draft = None /\ b.status = "done"
      /\ b.echo = NoEcho /\ b.result = None /\ b.error = FALSE
      /\ b.selected = first /\ b.prefer = None /\ b.custom = s.custom
  BY <1>1, <1>5, SavedIs
<1>7. NoEcho.id = 0 /\ "id" \in DOMAIN NoEcho BY DEF NoEcho
<1>8. EntryTyped(b) BY <1>6, <1>7 DEF EntryTyped, BaseFields
<1>9. b.selected \in 0..Len(b.custom) BY <1>3, <1>4, <1>6
<1>10. ~ ByUrl(b) BY <1>6 DEF ByUrl
<1>11. EntryOK(b) BY <1>6, <1>8, <1>9, <1>10, EntryMade
<1> QED BY <1>6, <1>10, <1>11 DEF New, b

Marked(a) == [a EXCEPT !.shared = TRUE]

LEMMA EntryMarked ==
  ASSUME NEW a, EntryOK(a)
  PROVE  /\ EntryOK(Marked(a)) /\ Alike(a, Marked(a)) /\ InUse(a, Marked(a))
         /\ CardUrl(Marked(a)) = CardUrl(a) /\ Marked(a).card = a.card
         /\ (ByUrl(a) => ByUrl(Marked(a)))
<1> DEFINE b == Marked(a)
<1>1. /\ ReadFields \subseteq DOMAIN a /\ a.draft \in CardDrafts \cup {None}
      /\ "id" \in DOMAIN a.echo
  BY DEF EntryOK, EntryTyped
<1>2. /\ b.id = a.id /\ b.kind = a.kind /\ b.url = a.url
      /\ b.status = a.status /\ b.card = a.card /\ b.draft = a.draft
      /\ b.result = a.result /\ b.error = a.error
      /\ b.custom = a.custom /\ b.selected = a.selected
      /\ b.prefer = a.prefer /\ b.echo = a.echo
      /\ DOMAIN b = DOMAIN a
  BY <1>1 DEF ReadFields, Marked
<1> HIDE DEF b
<1>3. EntryOK(b) /\ Alike(a, b) /\ InUse(a, b) BY <1>1, <1>2, SameFields
<1>4. CardUrl(b) = CardUrl(a) /\ (ByUrl(a) => ByUrl(b))
  BY <1>2 DEF CardUrl, ByUrl, IsEcho
<1> QED BY <1>2, <1>3, <1>4 DEF b
-----------------------------------------------------------------------------
(* Finding an entry: the least of the places where it is, or 0.            *)
LEMMA LeastOrNone ==
  ASSUME NEW l, IsList(l), NEW S, S \subseteq DOMAIN l
  PROVE  LET k == IF S = {} THEN 0 ELSE Min(S)
         IN  IF k = 0 THEN S = {} ELSE k \in S
<1>1. S \subseteq Nat /\ 0 \notin S BY ListFacts
<1>2. CASE S = {} BY <1>2
<1>3. CASE S # {}
  <2>1. Min(S) \in S BY <1>1, <1>3, Least
  <2> QED BY <1>1, <1>3, <2>1
<1> QED BY <1>2, <1>3

LEMMA SameAtIs ==
  ASSUME NEW l, IsList(l), NEW e
  PROVE  IF SameAt(l, e) = 0 THEN \A i \in DOMAIN l : ~ SameAgent(l[i], e)
         ELSE SameAt(l, e) \in DOMAIN l /\ SameAgent(l[SameAt(l, e)], e)
<1> DEFINE S == {i \in DOMAIN l : SameAgent(l[i], e)}
           k == SameAt(l, e)
<1>1. k = IF S = {} THEN 0 ELSE Min(S) BY DEF SameAt, FirstAt
<1>2. S \subseteq DOMAIN l OBVIOUS
<1> HIDE DEF k, S
<1>3. IF k = 0 THEN S = {} ELSE k \in S BY <1>1, <1>2, LeastOrNone
<1> QED BY <1>3 DEF k, S

LEMMA FoundAt ==
  ASSUME NEW l, IsList(l), NEW url
  PROVE  IF FindAgent(l, url) = 0 THEN \A i \in DOMAIN l : ~ FoundBy(l[i], url)
         ELSE FindAgent(l, url) \in DOMAIN l /\ FoundBy(l[FindAgent(l, url)], url)
<1> DEFINE S == {i \in DOMAIN l : FoundBy(l[i], url)}
           k == FindAgent(l, url)
<1>1. k = IF S = {} THEN 0 ELSE Min(S) BY DEF FindAgent, FirstAt
<1>2. S \subseteq DOMAIN l OBVIOUS
<1> HIDE DEF k, S
<1>3. IF k = 0 THEN S = {} ELSE k \in S BY <1>1, <1>2, LeastOrNone
<1> QED BY <1>3 DEF k, S

LEMMA EntryIs ==
  ASSUME NEW l, IsList(l), NEW id
  PROVE  IF Has(l, id) THEN \E i \in DOMAIN l : Entry(l, id) = l[i] /\ l[i].id = id
         ELSE Entry(l, id) = None
<1> DEFINE S == {i \in DOMAIN l : l[i].id = id}
           k == IF S = {} THEN 0 ELSE Min(S)
<1>1. Entry(l, id) = IF k = 0 THEN None ELSE l[k] BY DEF Entry, FirstAt
<1>2. S \subseteq DOMAIN l OBVIOUS
<1>3. IF k = 0 THEN S = {} ELSE k \in S
  <2> HIDE DEF S
  <2> QED BY <1>2, LeastOrNone
<1> HIDE DEF k
<1> QED BY <1>1, <1>3 DEF Has

(* What another agent is that is the card at a URL already.                *)
TwinOf(a, id, url) ==
  /\ a.id # id /\ ~ IsEcho(a) /\ a.kind = "card" /\ a.card = None
  /\ CardUrl(a) = url \/ a.url = url

LEMMA TwinIs ==
  ASSUME NEW l, IsList(l), NEW id, NEW url
  PROVE  IF Twin(l, id, url) = 0
         THEN url = None \/ IsEcho(Entry(l, id))
              \/ \A i \in DOMAIN l : ~ TwinOf(l[i], id, url)
         ELSE url # None /\ Twin(l, id, url) \in DOMAIN l
              /\ TwinOf(l[Twin(l, id, url)], id, url)
<1> DEFINE S == {i \in DOMAIN l : TwinOf(l[i], id, url)}
           k == Twin(l, id, url)
           f == IF S = {} THEN 0 ELSE Min(S)
<1>1. k = IF url = None \/ IsEcho(Entry(l, id)) THEN 0 ELSE f
  BY DEF Twin, FirstAt, TwinOf
<1>2. S \subseteq DOMAIN l OBVIOUS
<1>3. IF f = 0 THEN S = {} ELSE f \in S
  <2> HIDE DEF S
  <2> QED BY <1>2, LeastOrNone
<1> HIDE DEF k, f
<1> QED BY <1>1, <1>3 DEF k

LEMMA ApartUnfound ==
  ASSUME NEW a, EntryOK(a), NEW b, EntryOK(b), CardUrl(b) = None,
         ~ FoundBy(a, b.url)
  PROVE  Apart(a, b)
<1> SUFFICES ASSUME ByUrl(a), ByUrl(b) PROVE Apart(a, b)
  BY DEF Apart
<1>1. a.url \in Refs /\ b.url \in Refs BY DEF EntryOK, Refers, ByUrl
<1>2. a.url # None /\ b.url # None BY <1>1, ValuesAssumption
<1>3. a.url # b.url /\ CardUrl(a) # b.url BY <1>2 DEF FoundBy, ByUrl
<1> QED BY <1>2, <1>3 DEF Apart

LEMMA ApartUnlike ==
  ASSUME NEW a, EntryOK(a), NEW b, EntryOK(b), CardUrl(b) = None,
         ~ SameAgent(a, b)
  PROVE  Apart(a, b)
<1> SUFFICES ASSUME ByUrl(a), ByUrl(b) PROVE Apart(a, b)
  BY DEF Apart
<1>1. ~ FoundBy(a, b.url) BY DEF SameAgent, ByUrl
<1> QED BY <1>1, ApartUnfound

LEMMA ApartOther ==
  ASSUME NEW a, NEW b, ~ ByUrl(a) \/ ~ ByUrl(b)
  PROVE  Apart(a, b)
BY DEF Apart
-----------------------------------------------------------------------------
(* The card came.                                                          *)
LEMMA PreferredIs ==
  ASSUME NEW s, IsList(s), NEW p, IsList(p)
  PROVE  PreferredInterface(s, p) \in 0..Len(s)
<1> DEFINE C == {i \in DOMAIN s : s[i].supported}
           O(key) == {i \in C : s[i].key = key}
           F == {k \in DOMAIN p : O(p[k]) # {}}
<1>1. Len(s) \in Nat /\ DOMAIN s = 1..Len(s) BY ListFacts
<1>2. PreferredInterface(s, p) = IF F # {} THEN Min(O(p[Min(F)]))
                                 ELSE IF C = {} THEN 0 ELSE Min(C)
  BY DEF PreferredInterface
<1>3. C \subseteq 1..Len(s) /\ F \subseteq DOMAIN p /\ DOMAIN p \subseteq Nat
  BY <1>1, ListFacts
<1>4. \A k \in F : O(p[k]) # {} /\ O(p[k]) \subseteq 1..Len(s) BY <1>1
<1> HIDE DEF C, O, F
<1>5. C \subseteq Nat /\ F \subseteq Nat BY <1>3
<1>6. CASE F # {}
  <2>1. Min(F) \in F BY <1>5, <1>6, Least
  <2>2. O(p[Min(F)]) # {} /\ O(p[Min(F)]) \subseteq 1..Len(s) BY <1>4, <2>1
  <2> DEFINE S == O(p[Min(F)])
  <2>3. S # {} /\ S \subseteq Nat /\ S \subseteq 1..Len(s) BY <2>2
  <2>4. PreferredInterface(s, p) = Min(S) BY <1>2, <1>6
  <2> HIDE DEF S
  <2>5. Min(S) \in S BY <2>3, Least
  <2>6. Min(S) \in 1..Len(s) BY <2>3, <2>5
  <2> QED BY <1>1, <2>4, <2>6
<1>7. CASE F = {} /\ C # {}
  <2>1. Min(C) \in C BY <1>5, <1>7, Least
  <2>2. Min(C) \in 1..Len(s) BY <1>3, <2>1
  <2> QED BY <1>1, <1>2, <1>7, <2>2
<1>8. CASE F = {} /\ C = {} BY <1>1, <1>2, <1>8
<1> QED BY <1>6, <1>7, <1>8

LEMMA PickAfterIs ==
  ASSUME NEW a, EntryOK(a), NEW r \in Results, ResultFits(r)
  PROVE  /\ IsList(r.interfaces) /\ Len(r.interfaces) \in Nat
         /\ PickAfter(r, a) \in 0..(Len(r.interfaces) + Len(a.custom))
         /\ a.selected > Len(CardInterfaces(a)) =>
              PickAfter(r, a)
                = Len(r.interfaces) + (a.selected - Len(CardInterfaces(a)))
<1> DEFINE old == Len(CardInterfaces(a))
           new == r.interfaces
           all == new \o a.custom
           held == {i \in DOMAIN all : all[i].supported
                                          /\ SameInterface(all[i], a.savedInterface)}
           k == PickAfter(r, a)
<1>1. k = IF a.selected > old THEN Len(new) + (a.selected - old)
          ELSE IF a.selected \in DOMAIN new /\ new[a.selected].supported
          THEN a.selected
          ELSE IF held # {} THEN Min(held)
          ELSE IF a.prefer # None THEN PreferredInterface(new, a.prefer)
          ELSE r.default
  BY DEF PickAfter
<1>2. IsList(new)
  <2>1. new \in Offers \cup {<<>>} BY DEF Results
  <2> QED BY <2>1, ListOfNone, ValuesAssumption
<1>3. /\ old \in Nat /\ Len(a.custom) \in Nat /\ IsList(a.custom)
      /\ a.selected \in 0..(old + Len(a.custom))
  BY EntryInterfaces DEF EntryOK, PickFits
<1>4. Len(new) \in Nat /\ DOMAIN new = 1..Len(new) BY <1>2, ListFacts
<1>5. DOMAIN all = 1..(Len(new) + Len(a.custom)) BY <1>2, <1>3, ListConcat
<1>6. held \subseteq 1..(Len(new) + Len(a.custom))
  <2> HIDE DEF all, new
  <2> QED BY <1>5
<1> DEFINE p == Len(new)
           q == Len(a.custom)
<1>3a. /\ old \in Nat /\ q \in Nat /\ a.selected \in 0..(old + q)
       /\ p \in Nat /\ DOMAIN new = 1..p /\ held \subseteq 1..(p + q)
  BY <1>3, <1>4, <1>6
<1> HIDE DEF p, q
<1>7. held # {} => Min(held) \in held
  <2>1. held \subseteq Nat
    <3> HIDE DEF held, old, new
    <3> QED BY <1>3a
  <2> HIDE DEF held
  <2> QED BY <2>1, Least
<1>8. a.prefer # None => PreferredInterface(new, a.prefer) \in 0..p
  <2>1. a.prefer # None => IsList(a.prefer) BY DEF EntryOK, EntryTyped
  <2> HIDE DEF new
  <2> QED BY <1>2, <2>1, PreferredIs DEF p
<1>9. r.default \in 0..p
  <2>1. r # None BY ValuesAssumption
  <2> QED BY <2>1 DEF ResultFits, p
<1>9a. k = IF a.selected > old THEN p + (a.selected - old)
          ELSE IF a.selected \in DOMAIN new /\ new[a.selected].supported
          THEN a.selected
          ELSE IF held # {} THEN Min(held)
          ELSE IF a.prefer # None THEN PreferredInterface(new, a.prefer)
          ELSE r.default
  BY <1>1 DEF p
<1> HIDE DEF k, held, all, old, new
<1>10. k \in 0..(p + q)
  <2>1. CASE a.selected > old BY <1>9a, <1>3a, <2>1
  <2>2. CASE ~ (a.selected > old)
    <3>1. CASE a.selected \in DOMAIN new /\ new[a.selected].supported
      BY <1>9a, <1>3a, <2>2, <3>1
    <3>2. CASE ~ (a.selected \in DOMAIN new /\ new[a.selected].supported)
      <4>1. k = IF held # {} THEN Min(held)
                ELSE IF a.prefer # None THEN PreferredInterface(new, a.prefer)
                ELSE r.default
        BY <1>9a, <2>2, <3>2
      <4>2. \A x \in 0..p : x \in 0..(p + q)
        BY <1>3a
      <4>3. \A x \in 1..(p + q) :
              x \in 0..(p + q)
        BY <1>3a
      <4> QED BY <1>3a, <1>7, <1>8, <1>9, <4>1, <4>2, <4>3
    <3> QED BY <3>1, <3>2
  <2> QED BY <2>1, <2>2
<1> QED BY <1>1, <1>2, <1>4, <1>10 DEF k, old, new, p, q

LEMMA ResolvedIs ==
  ASSUME NEW a, EntryOK(a), NEW r \in Results, ResultFits(r),
         r.cardUrl # None => a.url \in Refs
  PROVE  LET b == ResolvedEntry(a, r)
         IN  /\ EntryOK(b) /\ b.id = a.id /\ b.url = a.url
             /\ CardUrl(b) = r.cardUrl /\ (ByUrl(b) => ByUrl(a)) /\ InUse(a, b)
<1> DEFINE b == ResolvedEntry(a, r)
           k == PickAfter(r, a)
           old == Len(CardInterfaces(a))
           new == r.interfaces
<1>1. ReadFields \subseteq DOMAIN a BY DEF EntryOK, EntryTyped
<1>2. r # None /\ r.ok \in BOOLEAN BY ValuesAssumption DEF Results
<1>3. /\ IsList(new) /\ Len(new) \in Nat /\ k \in 0..(Len(new) + Len(a.custom))
      /\ a.selected > old => k = Len(new) + (a.selected - old)
  BY PickAfterIs
<1>4. /\ old \in Nat /\ Len(a.custom) \in Nat /\ IsList(a.custom)
      /\ DOMAIN a.custom = 1..Len(a.custom) /\ IsList(CardInterfaces(a))
      /\ DOMAIN InterfacesOf(a) = 1..(old + Len(a.custom))
      /\ a.selected \in 0..(old + Len(a.custom))
  BY EntryInterfaces DEF EntryOK, PickFits
<1> HIDE DEF k
<1>5. /\ b.id = a.id /\ b.kind = a.kind /\ b.url = a.url
      /\ b.status = (IF r.ok THEN "done" ELSE "failed") /\ b.card = a.card
      /\ b.draft = a.draft /\ b.result = r /\ b.error = FALSE
      /\ b.custom = a.custom /\ b.selected = k
      /\ b.prefer = a.prefer /\ b.echo = a.echo
      /\ DOMAIN b = DOMAIN a
  BY <1>1 DEF ReadFields, ResolvedEntry, k
<1> HIDE DEF b
<1>6. /\ CardInterfaces(b) = new /\ CardUrl(b) = r.cardUrl
      /\ InterfacesOf(b) = new \o a.custom /\ (ByUrl(b) <=> ByUrl(a))
  BY <1>2, <1>5 DEF CardInterfaces, CardUrl, InterfacesOf, ByUrl, IsEcho
<1>7. EntryTyped(b) BY <1>1, <1>2, <1>5 DEF EntryOK, EntryTyped
<1>8. DOMAIN (new \o a.custom) = 1..(Len(new) + Len(a.custom))
      /\ Len(new \o a.custom) = Len(new) + Len(a.custom)
  BY <1>3, <1>4, ListConcat
<1>9. PickFits(b) BY <1>3, <1>5, <1>6, <1>8 DEF PickFits
<1>10. Refers(b) BY <1>5, <1>6 DEF EntryOK, Refers
<1>11. Tells(b) BY <1>2, <1>5 DEF Tells
<1>12. EntryOK(b) BY <1>5, <1>7, <1>9, <1>10, <1>11 DEF EntryOK
<1>13. InUse(a, b)
  <2> SUFFICES ASSUME a.selected > old
               PROVE  /\ b.selected > Len(new)
                      /\ SelectedInterface(b) = SelectedInterface(a)
    BY <1>6 DEF InUse
  <2> DEFINE i == a.selected - old
           p == Len(new)
           q == Len(a.custom)
  <2>1. /\ i \in DOMAIN a.custom /\ old + i = a.selected
        /\ k = Len(new) + i /\ k \in 1..(Len(new) + Len(a.custom))
        /\ a.selected \in 1..(old + Len(a.custom)) /\ k > Len(new)
    <3>1. /\ p \in Nat /\ q \in Nat /\ old \in Nat /\ a.selected \in 0..(old + q)
          /\ k = p + (a.selected - old) /\ DOMAIN a.custom = 1..q
      BY <1>3, <1>4
    <3>2. /\ i \in 1..q /\ old + i = a.selected /\ k = p + i
          /\ k \in 1..(p + q) /\ a.selected \in 1..(old + q) /\ k > p
      <4> HIDE DEF p, q, old, new
      <4> QED BY <3>1
    <3> QED BY <3>1, <3>2
  <2> HIDE DEF i, p, q
  <2>2. (CardInterfaces(a) \o a.custom)[old + i] = a.custom[i]
    BY <1>4, <2>1, ListSecond
  <2> HIDE DEF new
  <2>3. (new \o a.custom)[Len(new) + i] = a.custom[i]
    BY <1>3, <1>4, <2>1, ListSecond
  <2>4. SelectedInterface(a) = a.custom[i]
    BY <1>4, <2>1, <2>2 DEF SelectedInterface, InterfacesOf
  <2>5. SelectedInterface(b) = a.custom[i]
    BY <1>5, <1>6, <1>8, <2>1, <2>3 DEF SelectedInterface
  <2> QED BY <1>5, <2>1, <2>4, <2>5
<1> QED BY <1>5, <1>6, <1>12, <1>13 DEF b

LEMMA ApartResolved ==
  ASSUME NEW a, NEW b, NEW c, Apart(a, c), b.url = a.url, ByUrl(b) => ByUrl(a),
         NEW u, CardUrl(b) = u, EntryOK(c),
         ByUrl(a) /\ ByUrl(c) => u = None \/ (CardUrl(c) # u /\ c.url # u)
  PROVE  Apart(b, c)
<1> SUFFICES ASSUME ByUrl(b), ByUrl(c) PROVE Apart(b, c)
  BY DEF Apart
<1>1. ByUrl(a) OBVIOUS
<1>2. c.url # None BY ValuesAssumption DEF EntryOK, Refers, ByUrl
<1>3. a.url # c.url /\ CardUrl(c) # a.url BY <1>1 DEF Apart
<1> QED BY <1>1, <1>2, <1>3 DEF Apart

(* The card of an agent, when no other agent is that card.                 *)
(* The entry id may have the card, which no other entry has; and m is what *)
(* becomes of the list.                                                    *)
MayResolve(l, id, url) ==
  /\ \A i \in DOMAIN l : l[i].id = id /\ url # None => l[i].url \in Refs
  /\ \A i, j \in DOMAIN l :
       l[i].id = id /\ i # j /\ ByUrl(l[i]) /\ ByUrl(l[j]) =>
         url = None \/ (CardUrl(l[j]) # url /\ l[j].url # url)

ResolvesTo(l, id, r, m) ==
  /\ m = [i \in DOMAIN l |-> m[i]]
  /\ \A i \in DOMAIN l :
       m[i] = IF l[i].id = id THEN ResolvedEntry(l[i], r) ELSE l[i]

LEMMA ListResolvedIn ==
  ASSUME NEW l, NEW n, ListOK(l, n), NEW id, NEW r \in Results, ResultFits(r),
         MayResolve(l, id, r.cardUrl), NEW m, ResolvesTo(l, id, r, m)
  PROVE  ListOK(m, n) /\ Preserves(l, n, m) /\ KeepsUsed(l, m)
<1>1. IsList(m) /\ Len(m) = Len(l) /\ DOMAIN m = DOMAIN l
  BY ListMapped DEF ListOK, ResolvesTo
<1>2. \A i \in DOMAIN l : l[i].id = id =>
        /\ EntryOK(m[i]) /\ m[i].id = l[i].id /\ m[i].url = l[i].url
        /\ CardUrl(m[i]) = r.cardUrl /\ (ByUrl(m[i]) => ByUrl(l[i]))
        /\ InUse(l[i], m[i])
  <2>1. ASSUME NEW i \in DOMAIN l, l[i].id = id
        PROVE  /\ EntryOK(m[i]) /\ m[i].id = l[i].id /\ m[i].url = l[i].url
               /\ CardUrl(m[i]) = r.cardUrl /\ (ByUrl(m[i]) => ByUrl(l[i]))
               /\ InUse(l[i], m[i])
    <3>1. EntryOK(l[i]) BY DEF ListOK
    <3>2. r.cardUrl # None => l[i].url \in Refs BY <2>1 DEF MayResolve
    <3>3. m[i] = ResolvedEntry(l[i], r) BY <2>1 DEF ResolvesTo
    <3> QED BY <3>1, <3>2, <3>3, ResolvedIs
  <2> QED BY <2>1
<1>3. \A i \in DOMAIN l : m[i].id = l[i].id /\ m[i].url = l[i].url /\ EntryOK(m[i])
                          /\ InUse(l[i], m[i])
  <2>1. ASSUME NEW i \in DOMAIN l, l[i].id # id PROVE m[i] = l[i] /\ EntryOK(l[i])
    BY <2>1 DEF ResolvesTo, ListOK
  <2> QED BY <1>2, <2>1, AlikeSelf
<1>4. ASSUME NEW i \in DOMAIN l, NEW j \in DOMAIN l, i # j
      PROVE  Apart(m[i], m[j])
  <2>1. /\ Apart(l[i], l[j]) /\ Apart(l[j], l[i]) /\ l[i].id # l[j].id
        /\ EntryOK(l[i]) /\ EntryOK(l[j])
    BY <1>4 DEF ListOK
  <2>2. CASE l[i].id = id
    <3>1. m[j] = l[j] BY <2>1, <2>2 DEF ResolvesTo
    <3>2. ByUrl(l[i]) /\ ByUrl(l[j]) =>
            \/ r.cardUrl = None
            \/ CardUrl(l[j]) # r.cardUrl /\ l[j].url # r.cardUrl
      BY <1>4, <2>2 DEF MayResolve
    <3> QED BY <1>2, <2>1, <2>2, <3>1, <3>2, ApartResolved
  <2>3. CASE l[j].id = id
    <3>1. m[i] = l[i] BY <2>1, <2>3 DEF ResolvesTo
    <3>2. ByUrl(l[j]) /\ ByUrl(l[i]) =>
            \/ r.cardUrl = None
            \/ CardUrl(l[i]) # r.cardUrl /\ l[i].url # r.cardUrl
      BY <1>4, <2>3 DEF MayResolve
    <3>3. Apart(m[j], l[i]) BY <1>2, <2>1, <2>3, <3>2, ApartResolved
    <3> QED BY <3>1, <3>3, ApartSame
  <2>4. CASE l[i].id # id /\ l[j].id # id
    <3>1. m[i] = l[i] /\ m[j] = l[j] BY <2>4 DEF ResolvesTo
    <3> QED BY <2>1, <3>1
  <2> QED BY <2>2, <2>3, <2>4
<1>5. ListOK(m, n) BY <1>1, <1>3, <1>4 DEF ListOK
<1>6. Preserves(l, n, m) BY <1>1, <1>3 DEF Preserves
<1>7. KeepsUsed(l, m)
  <2>1. m = [i \in DOMAIN l |-> m[i]] BY DEF ResolvesTo
  <2> QED BY <1>3, <2>1, EntriesUsed
<1> QED BY <1>5, <1>6, <1>7

LEMMA KeepsPicked ==
  ASSUME NEW l, NEW n, ListOK(l, n), NEW w, NEW m, ListOK(m, n),
         \A k \in DOMAIN w : \E i \in DOMAIN l : w[k] = l[i],
         Preserves(w, n, m), KeepsUsed(w, m)
  PROVE  Preserves(l, n, m) /\ KeepsUsed(l, m)
<1>1. \A j \in DOMAIN m : m[j].id < n BY DEF ListOK
<1>2. ASSUME NEW j \in DOMAIN m
      PROVE  \E i \in DOMAIN l : /\ l[i].id = m[j].id /\ l[i].url = m[j].url
                                 /\ InUse(l[i], m[j])
  <2>1. PICK k \in DOMAIN w : w[k].id = m[j].id /\ w[k].url = m[j].url
    BY <1>1 DEF Preserves
  <2>2. InUse(w[k], m[j]) BY <2>1 DEF KeepsUsed
  <2> QED BY <2>1, <2>2
<1>3. Preserves(l, n, m) BY <1>2 DEF Preserves
<1>4. ASSUME NEW i \in DOMAIN l, NEW j \in DOMAIN m, l[i].id = m[j].id
      PROVE  InUse(l[i], m[j])
  <2>1. PICK h \in DOMAIN l : l[h].id = m[j].id /\ InUse(l[h], m[j]) BY <1>2
  <2>2. h = i BY <1>4, <2>1 DEF ListOK
  <2> QED BY <2>1, <2>2
<1> QED BY <1>3, <1>4 DEF KeepsUsed

Shows(s) == s.sel \in {None, HostId} \/ Has(s.agents, s.sel)

StoreOK(s, n) ==
  {"agents", "sel"} \subseteq DOMAIN s /\ ListOK(s.agents, n) /\ Shows(s)

(* The store, and with it the custom interfaces in use.                    *)
Stays(s, n, t, k) == StoreOK(t, k) /\ Preserves(s.agents, n, t.agents)

StaysUsed(s, n, t, k) == Stays(s, n, t, k) /\ KeepsUsed(s.agents, t.agents)

LEMMA StateIs ==
  ASSUME NEW l, NEW x
  PROVE  /\ State(l, x).agents = l /\ State(l, x).sel = x
         /\ {"agents", "sel"} \subseteq DOMAIN State(l, x)
BY DEF State

LEMMA HasKept ==
  ASSUME NEW l, NEW m, NEW id, Has(l, id), m = [i \in DOMAIN l |-> m[i]],
         \A i \in DOMAIN l : m[i].id = l[i].id
  PROVE  Has(m, id)
<1>1. DOMAIN m = DOMAIN l OBVIOUS
<1> QED BY <1>1 DEF Has

LEMMA StoreResolved ==
  ASSUME NEW s, NEW n, StoreOK(s, n), NEW id, NEW r \in Results, ResultFits(r),
         \A i \in DOMAIN s.agents :
           s.agents[i].id = id /\ r.cardUrl # None => s.agents[i].url \in Refs
  PROVE  StaysUsed(s, n, Resolved(s, id, r), n)
<1> DEFINE l == s.agents
           u == r.cardUrl
           k == Twin(l, id, u)
           t == l[k].id
           c(a) == ResolvedEntry(a, r)
           P == {i \in DOMAIN l : l[i].id # id}
           w == Without(l, id)
           m == [i \in DOMAIN l |-> IF l[i].id = id THEN c(l[i]) ELSE l[i]]
           v == [i \in DOMAIN w |-> IF w[i].id = t THEN c(w[i]) ELSE w[i]]
           x == Resolved(s, id, r)
<1>1. x = IF ~ Has(l, id) THEN s
          ELSE IF k = 0 THEN State(m, s.sel)
          ELSE State(v, IF s.sel = id THEN t ELSE s.sel)
  BY DEF Resolved, Patch
<1>2. ListOK(l, n) /\ IsList(l) BY DEF StoreOK, ListOK
<1>3. IF k = 0
      THEN u = None \/ IsEcho(Entry(l, id))
           \/ \A i \in DOMAIN l : ~ TwinOf(l[i], id, u)
      ELSE u # None /\ k \in DOMAIN l /\ TwinOf(l[k], id, u)
  BY <1>2, TwinIs
<1>4. \A i, j \in DOMAIN l : i # j => l[i].id # l[j].id BY <1>2 DEF ListOK
<1> HIDE DEF l, k, x
<1>5. CASE ~ Has(l, id)
  <2>1. x = s BY <1>1, <1>5
  <2>2. Preserves(l, n, l) /\ KeepsUsed(l, l) BY <1>2, PreservesSelf
  <2> QED BY <2>1, <2>2 DEF StaysUsed, Stays, l, x
<1>6. CASE Has(l, id) /\ k = 0
  <2>1. \A i, j \in DOMAIN l :
          l[i].id = id /\ i # j /\ ByUrl(l[i]) /\ ByUrl(l[j]) =>
            \/ u = None
            \/ CardUrl(l[j]) # u /\ l[j].url # u
    <3>1. ASSUME NEW i \in DOMAIN l, NEW j \in DOMAIN l, l[i].id = id, i # j,
                 ByUrl(l[i]), ByUrl(l[j]), u # None
          PROVE  CardUrl(l[j]) # u /\ l[j].url # u
      <4>1. PICK h \in DOMAIN l : Entry(l, id) = l[h] /\ l[h].id = id
        BY <1>2, <1>6, EntryIs
      <4>2. h = i BY <1>4, <3>1, <4>1
      <4>3. ~ IsEcho(Entry(l, id)) BY <3>1, <4>1, <4>2 DEF ByUrl
      <4>4. ~ TwinOf(l[j], id, u) BY <1>3, <1>6, <3>1, <4>3
      <4>5. l[j].id # id BY <1>4, <3>1
      <4> QED BY <3>1, <4>4, <4>5 DEF TwinOf, ByUrl
    <3> HIDE DEF u
    <3> QED BY <3>1
  <2>2. \A i \in DOMAIN l : l[i].id = id /\ u # None => l[i].url \in Refs
    BY DEF l
  <2>3. /\ m = [i \in DOMAIN l |-> m[i]]
        /\ \A i \in DOMAIN l :
             m[i] = IF l[i].id = id THEN ResolvedEntry(l[i], r) ELSE l[i]
    OBVIOUS
  <2> HIDE DEF m
  <2>a. MayResolve(l, id, u) BY <2>1, <2>2 DEF MayResolve
  <2>b. ResolvesTo(l, id, r, m) BY <2>3 DEF ResolvesTo
  <2>4. ListOK(m, n) /\ Preserves(l, n, m) /\ KeepsUsed(l, m)
    BY <1>2, <2>a, <2>b, ListResolvedIn
  <2>5. x = State(m, s.sel) BY <1>1, <1>6
  <2>6. /\ x.agents = m /\ x.sel = s.sel /\ {"agents", "sel"} \subseteq DOMAIN x
    BY <2>5, StateIs
  <2>7. \A i \in DOMAIN l : m[i].id = l[i].id
    BY <2>3, ResolvedIs, <1>2, <2>2 DEF ListOK
  <2>8. \A y : Has(l, y) => Has(m, y) BY <2>3, <2>7, HasKept
  <2>9. Shows(x) BY <2>6, <2>8 DEF StoreOK, Shows, l
  <2> QED BY <2>4, <2>6, <2>9 DEF StaysUsed, Stays, StoreOK, l, x
<1>7. CASE Has(l, id) /\ k # 0
  <2>1. u # None /\ k \in DOMAIN l /\ TwinOf(l[k], id, u) BY <1>3, <1>7
  <2>2. w = Picked(l, P) /\ P \subseteq DOMAIN l BY DEF Without
  <2>3. k \in P /\ t # id BY <2>1 DEF TwinOf
  <2> HIDE DEF w, P
  <2>4. /\ ListOK(w, n)
        /\ \A i \in P : \E j \in DOMAIN w : w[j] = l[i]
        /\ \A j \in DOMAIN w : \E i \in P : w[j] = l[i]
    BY <1>2, <2>2, EntriesPicked
  <2>5. \A j \in DOMAIN w : \E i \in DOMAIN l : w[j] = l[i] BY <2>2, <2>4
  <2>6. \A j \in DOMAIN w : w[j].id = t => w[j] = l[k] BY <1>4, <2>1, <2>5
  <2>7. ByUrl(l[k]) /\ (CardUrl(l[k]) = u \/ l[k].url = u)
    BY <2>1 DEF TwinOf, ByUrl
  <2>8. l[k].url \in Refs BY <1>2, <2>1, <2>7 DEF ListOK, EntryOK, Refers, ByUrl
  <2>9. \A i, j \in DOMAIN w :
          w[i].id = t /\ i # j /\ ByUrl(w[i]) /\ ByUrl(w[j]) =>
            \/ u = None
            \/ CardUrl(w[j]) # u /\ w[j].url # u
    <3>1. ASSUME NEW i \in DOMAIN w, NEW j \in DOMAIN w, w[i].id = t, i # j,
                 ByUrl(w[i]), ByUrl(w[j])
          PROVE  CardUrl(w[j]) # u /\ w[j].url # u
      <4>1. w[i] = l[k] BY <2>6, <3>1
      <4>2. Apart(l[k], w[j]) BY <2>4, <3>1, <4>1 DEF ListOK
      <4>3. /\ l[k].url # w[j].url /\ CardUrl(l[k]) # w[j].url
            /\ CardUrl(w[j]) # l[k].url
            /\ CardUrl(l[k]) # None => CardUrl(l[k]) # CardUrl(w[j])
        BY <2>7, <3>1, <4>2 DEF Apart
      <4> QED BY <2>1, <2>7, <4>3
    <3> HIDE DEF t
    <3> QED BY <3>1
  <2>10. \A i \in DOMAIN w : w[i].id = t /\ u # None => w[i].url \in Refs
    BY <2>6, <2>8
  <2>11. /\ v = [i \in DOMAIN w |-> v[i]]
         /\ \A i \in DOMAIN w :
              v[i] = IF w[i].id = t THEN ResolvedEntry(w[i], r) ELSE w[i]
    OBVIOUS
  <2> HIDE DEF v, t
  <2>a. MayResolve(w, t, u) BY <2>9, <2>10 DEF MayResolve
  <2>b. ResolvesTo(w, t, r, v) BY <2>11 DEF ResolvesTo
  <2>12. ListOK(v, n) /\ Preserves(w, n, v) /\ KeepsUsed(w, v)
    BY <2>4, <2>a, <2>b, ListResolvedIn
  <2>13. Preserves(l, n, v) /\ KeepsUsed(l, v)
    BY <1>2, <2>5, <2>12, KeepsPicked
  <2> DEFINE y == IF s.sel = id THEN t ELSE s.sel
  <2>14. x = State(v, y) BY <1>1, <1>7
  <2>15. /\ x.agents = v /\ x.sel = y /\ {"agents", "sel"} \subseteq DOMAIN x
    BY <2>14, StateIs
  <2>16. \A i \in DOMAIN w : v[i].id = w[i].id
    BY <2>11, ResolvedIs, <2>4, <2>10 DEF ListOK
  <2>17. \A z : Has(w, z) => Has(v, z) BY <2>11, <2>16, HasKept
  <2>18. \A z : Has(l, z) /\ z # id => Has(w, z)
    <3>1. ASSUME NEW z, Has(l, z), z # id PROVE Has(w, z)
      <4>1. PICK i \in DOMAIN l : l[i].id = z BY <3>1 DEF Has
      <4>2. i \in P BY <3>1, <4>1 DEF P
      <4> QED BY <2>4, <4>1, <4>2 DEF Has
    <3> QED BY <3>1
  <2>19. Has(v, t)
    <3>1. Has(l, t) BY <2>1 DEF Has, t
    <3> QED BY <2>3, <2>17, <2>18, <3>1
  <2>20. Shows(x)
    <3>1. s.sel \in {None, HostId} \/ Has(l, s.sel) BY DEF StoreOK, Shows, l
    <3> QED BY <2>15, <2>17, <2>18, <2>19, <3>1 DEF Shows
  <2> QED BY <2>12, <2>13, <2>15, <2>20 DEF StaysUsed, Stays, StoreOK, l, x
<1> QED BY <1>5, <1>6, <1>7
-----------------------------------------------------------------------------
(* The store, after each of its actions.                                   *)
LEMMA StoreChanged ==
  ASSUME NEW s, NEW n, StoreOK(s, n), NEW m, Changed(s.agents, n, m)
  PROVE  LET t == [s EXCEPT !.agents = m]
         IN  /\ Stays(s, n, t, n) /\ t.agents = m
             /\ (KeepsUsed(s.agents, m) => StaysUsed(s, n, t, n))
<1> DEFINE t == [s EXCEPT !.agents = m]
<1>1. t.agents = m /\ t.sel = s.sel /\ {"agents", "sel"} \subseteq DOMAIN t
  BY DEF StoreOK
<1> HIDE DEF t
<1>2. \A y : Has(s.agents, y) => Has(m, y) BY DEF Has, Changed
<1>3. Shows(t) BY <1>1, <1>2 DEF StoreOK, Shows
<1>4. Stays(s, n, t, n) BY <1>1, <1>3 DEF Stays, StoreOK, Changed
<1> QED BY <1>1, <1>4 DEF StaysUsed, t

LEMMA StoreShowing ==
  ASSUME NEW s, NEW n, StoreOK(s, n), NEW m, Changed(s.agents, n, m), NEW x,
         x \in {None, HostId} \/ Has(s.agents, x)
  PROVE  /\ Stays(s, n, State(m, x), n)
         /\ (KeepsUsed(s.agents, m) => StaysUsed(s, n, State(m, x), n))
<1> DEFINE t == State(m, x)
<1>1. t.agents = m /\ t.sel = x /\ {"agents", "sel"} \subseteq DOMAIN t
  BY StateIs
<1> HIDE DEF t
<1>2. \A y : Has(s.agents, y) => Has(m, y) BY DEF Has, Changed
<1>3. Shows(t) BY <1>1, <1>2 DEF Shows
<1>4. Stays(s, n, t, n) BY <1>1, <1>3 DEF Stays, StoreOK, Changed
<1> QED BY <1>1, <1>4 DEF StaysUsed, t

LEMMA ChangedSelf ==
  ASSUME NEW l, NEW n, ListOK(l, n)
  PROVE  Changed(l, n, l) /\ KeepsUsed(l, l)
BY PreservesSelf DEF Changed, Has

LEMMA StoreSelf ==
  ASSUME NEW s, NEW n, StoreOK(s, n)
  PROVE  StaysUsed(s, n, s, n)
BY PreservesSelf DEF StaysUsed, Stays, StoreOK

LEMMA StoreSelected ==
  ASSUME NEW s, NEW n, StoreOK(s, n), NEW id, Has(s.agents, id)
  PROVE  StaysUsed(s, n, Select(s, id), n)
<1>1. Changed(s.agents, n, s.agents) /\ KeepsUsed(s.agents, s.agents)
  BY ChangedSelf DEF StoreOK
<1> QED BY <1>1, StoreShowing DEF Select

LEMMA StoreRefreshed ==
  ASSUME NEW s, NEW n, StoreOK(s, n), NEW id, Has(s.agents, id)
  PROVE  StaysUsed(s, n, Refresh(s, id, TRUE), n)
<1> DEFINE m == Patch(s.agents, id, Loading)
<1>1. Changed(s.agents, n, m) /\ KeepsUsed(s.agents, m)
  BY ListRefreshed DEF StoreOK
<1>2. Refresh(s, id, TRUE) = State(m, id) BY DEF Refresh
<1> HIDE DEF m
<1> QED BY <1>1, <1>2, StoreShowing

LEMMA StoreRemoved ==
  ASSUME NEW s, NEW n, StoreOK(s, n), NEW ids
  PROVE  StaysUsed(s, n, RemoveEntries(s, ids), n)
<1> DEFINE l == s.agents
           P == {i \in DOMAIN l : l[i].id \notin ids \/ l[i].shared}
           m == Picked(l, P)
           x == IF s.sel \in ids /\ ~ Has(m, s.sel) THEN None ELSE s.sel
           t == RemoveEntries(s, ids)
<1>1. t = State(m, x) BY DEF RemoveEntries
<1>2. ListOK(l, n) /\ P \subseteq DOMAIN l BY DEF StoreOK
<1> HIDE DEF l, P, t
<1>3. /\ ListOK(m, n) /\ Preserves(l, n, m) /\ KeepsUsed(l, m)
      /\ \A i \in P : \E k \in DOMAIN m : m[k] = l[i]
  BY <1>2, EntriesPicked
<1> HIDE DEF m
<1>4. ASSUME NEW y, Has(l, y), y \notin ids PROVE Has(m, y)
  <2>1. PICK i \in DOMAIN l : l[i].id = y BY <1>4 DEF Has
  <2>2. i \in P BY <1>4, <2>1 DEF P
  <2> QED BY <1>3, <2>1, <2>2 DEF Has
<1>5. t.agents = m /\ t.sel = x /\ {"agents", "sel"} \subseteq DOMAIN t
  BY <1>1, StateIs
<1>6. s.sel \in {None, HostId} \/ Has(l, s.sel) BY DEF StoreOK, Shows, l
<1>7. x \in {None, HostId} \/ Has(m, x) BY <1>4, <1>6
<1>8. Shows(t) BY <1>5, <1>7 DEF Shows
<1> QED BY <1>3, <1>5, <1>8 DEF StaysUsed, Stays, StoreOK, l, t

LEMMA StoreGains ==
  ASSUME NEW s, NEW n, StoreOK(s, n), NEW e, New(e, n), ApartFromAll(s.agents, e),
         NEW x, x \in {None, HostId} \/ Has(s.agents, x) \/ x = n
  PROVE  /\ StaysUsed(s, n, State(Append(s.agents, e), x), n + 1)
         /\ Has(Append(s.agents, e), n)
         /\ \A i \in DOMAIN Append(s.agents, e) :
              Append(s.agents, e)[i].id = n => Append(s.agents, e)[i] = e
<1> DEFINE l == s.agents
           m == Append(l, e)
           t == State(m, x)
<1>1. ListOK(l, n) BY DEF StoreOK
<1>2. /\ ListOK(m, n + 1) /\ Preserves(l, n, m) /\ KeepsUsed(l, m)
      /\ Len(m) = Len(l) + 1 /\ m[Len(l) + 1] = e
      /\ \A i \in DOMAIN l : i \in DOMAIN m /\ m[i] = l[i]
  <2>1. ApartFromAll(l, e) OBVIOUS
  <2> HIDE DEF l, t
  <2> QED BY <1>1, <2>1, EntryAdded
<1>3. t.agents = m /\ t.sel = x /\ {"agents", "sel"} \subseteq DOMAIN t
  BY StateIs
<1> HIDE DEF l, m, t
<1>4. Len(l) + 1 \in DOMAIN m
  <2>1. Len(l) \in Nat /\ DOMAIN m = 1..Len(m)
    BY <1>1, <1>2, ListFacts DEF ListOK
  <2> QED BY <1>2, <2>1
<1>5. Has(m, n) BY <1>2, <1>4 DEF Has, New
<1>6. \A y : Has(l, y) => Has(m, y) BY <1>2 DEF Has
<1>7. Shows(t) BY <1>3, <1>5, <1>6 DEF Shows, l
<1>8. \A i \in DOMAIN m : m[i].id = n => m[i] = e
  BY <1>2, <1>4 DEF New, ListOK
<1> QED BY <1>2, <1>3, <1>5, <1>7, <1>8 DEF StaysUsed, Stays, StoreOK, l, m, t

LEMMA NextIsPositive ==
  ASSUME NEW s, NEW n, StoreOK(s, n)
  PROVE  n \in Nat \ {0}
BY ListFacts DEF StoreOK, ListOK

LEMMA StoreAdded ==
  ASSUME NEW s, NEW n, StoreOK(s, n), NEW ref \in Refs, NEW w, NEW p,
         p = None \/ IsList(p), FindAgent(s.agents, ref) = 0
  PROVE  LET t == Add(s, n, ref, w, p)
         IN  /\ StaysUsed(s, n, t, n + 1) /\ Has(t.agents, n)
             /\ \A i \in DOMAIN t.agents :
                  t.agents[i].id = n => t.agents[i].url = ref
<1> DEFINE e == [NewEntry(n, ref, "card", w) EXCEPT !.prefer = p]
           t == Add(s, n, ref, w, p)
<1>1. t = State(Append(s.agents, e), n) BY DEF Add
<1>2. New(e, n) /\ CardUrl(e) = None /\ e.url = ref
  BY NextIsPositive, EntryForRef
<1> HIDE DEF e, t
<1>3. ApartFromAll(s.agents, e)
  <2>1. \A i \in DOMAIN s.agents : ~ FoundBy(s.agents[i], e.url)
    BY <1>2, FoundAt DEF StoreOK, ListOK
  <2> QED BY <1>2, <2>1, ApartUnfound DEF ApartFromAll, New, StoreOK, ListOK
<1> DEFINE m == Append(s.agents, e)
<1>4. /\ StaysUsed(s, n, t, n + 1) /\ Has(m, n)
      /\ \A i \in DOMAIN m : m[i].id = n => m[i] = e
  BY <1>1, <1>2, <1>3, StoreGains
<1>5. t.agents = m BY <1>1, StateIs
<1> HIDE DEF m
<1> QED BY <1>2, <1>4, <1>5 DEF t

LEMMA StoreEndpoint ==
  ASSUME NEW s, NEW n, StoreOK(s, n), NEW f
  PROVE  StoreOK(AddEndpoint(s, n, f, None), n + 1)
<1> DEFINE e == [NewEntry(n, f.key, "endpoint", DefaultSettings)
                   EXCEPT !.status = "done", !.custom = <<f>>, !.selected = 1]
           l == s.agents
           k == SameAt(l, e)
           m == [i \in DOMAIN l |-> IF l[i].id = l[k].id THEN l[i] ELSE l[i]]
           t == AddEndpoint(s, n, f, None)
<1>1. t = IF k = 0 THEN State(Append(l, e), n) ELSE State(m, l[k].id)
  BY DEF AddEndpoint, Patch
<1>2. New(e, n) /\ ~ ByUrl(e) BY NextIsPositive, EntryForInterface
<1>3. ListOK(l, n) /\ IsList(l) BY DEF StoreOK, ListOK
<1> HIDE DEF e, t, k, l
<1>4. CASE k = 0
  <2>1. ApartFromAll(l, e) BY <1>2, ApartOther DEF ApartFromAll
  <2> DEFINE u == State(Append(s.agents, e), n)
  <2>2. StaysUsed(s, n, u, n + 1) BY <1>2, <2>1, StoreGains DEF l
  <2>3. t = u BY <1>1, <1>4 DEF l
  <2> HIDE DEF u
  <2> QED BY <2>2, <2>3 DEF t, StaysUsed, Stays
<1>5. CASE k # 0
  <2>1. k \in DOMAIN l BY <1>3, <1>5, SameAtIs DEF k
  <2>2. m = [i \in DOMAIN l |-> m[i]]
        /\ \A i \in DOMAIN l : EntryOK(m[i]) /\ Alike(l[i], m[i])
    BY <1>3, AlikeSelf DEF ListOK
  <2> HIDE DEF m
  <2>3. Changed(l, n, m) BY <1>3, <2>2, EntriesChanged
  <2>4. Has(l, l[k].id) BY <2>1 DEF Has
  <2>5. Stays(s, n, State(m, l[k].id), n) BY <2>3, <2>4, StoreShowing DEF l
  <2>6. StoreOK(t, n) BY <1>1, <1>5, <2>5 DEF Stays
  <2>7. n \in Nat BY <1>3 DEF ListOK
  <2> QED BY <2>6, <2>7, ListLater DEF StoreOK, t
<1> QED BY <1>4, <1>5

LEMMA StoreNewCard ==
  ASSUME NEW s, NEW n, StoreOK(s, n), NEW u, NEW c \in Cards
  PROVE  LET t == NewCard(s, n, u, c)
         IN  /\ StaysUsed(s, n, t, n + 1) /\ Has(t.agents, n)
             /\ \A i \in DOMAIN t.agents :
                  t.agents[i].id = n => t.agents[i].kind = "card"
<1> DEFINE e == [CreateAgent(n, None, "card") EXCEPT
                   !.identifier = u, !.card = c,
                   !.draft = [text |-> c, saved |-> c]]
           t == NewCard(s, n, u, c)
<1>1. t = State(Append(s.agents, e), n) BY DEF NewCard
<1>2. New(e, n) /\ ~ ByUrl(e) /\ e.kind = "card" BY NextIsPositive, EntryForCard
<1> HIDE DEF e, t
<1>3. ApartFromAll(s.agents, e) BY <1>2, ApartOther DEF ApartFromAll
<1> DEFINE m == Append(s.agents, e)
<1>4. /\ StaysUsed(s, n, t, n + 1) /\ Has(m, n)
      /\ \A i \in DOMAIN m : m[i].id = n => m[i] = e
  BY <1>1, <1>2, <1>3, StoreGains
<1>5. t.agents = m BY <1>1, StateIs
<1> HIDE DEF m
<1> QED BY <1>2, <1>4, <1>5 DEF t
-----------------------------------------------------------------------------
(* Several entries are added, one after the other.                         *)
Extends(l, m) ==
  Len(l) <= Len(m) /\ \A i \in DOMAIN l : i \in DOMAIN m /\ m[i] = l[i]

LEMMA ExtendsUsed ==
  ASSUME NEW l, NEW m, NEW n, ListOK(m, n), Extends(l, m)
  PROVE  KeepsUsed(l, m) /\ \A x : Has(l, x) => Has(m, x)
<1>1. ASSUME NEW i \in DOMAIN l, NEW j \in DOMAIN m, l[i].id = m[j].id
      PROVE  InUse(l[i], m[j])
  <2>1. i \in DOMAIN m /\ m[i] = l[i] BY DEF Extends
  <2>2. i = j BY <1>1, <2>1 DEF ListOK
  <2> QED BY <2>1, <2>2, AlikeSelf
<1> QED BY <1>1 DEF KeepsUsed, Extends, Has

LEMMA ExtendsBoth ==
  ASSUME NEW l, NEW m, NEW p, Extends(l, m), Extends(m, p), Len(l) \in Nat,
         Len(m) \in Nat, Len(p) \in Nat
  PROVE  Extends(l, p)
<1>1. Len(l) <= Len(p) BY DEF Extends
<1> QED BY <1>1 DEF Extends

LEMMA StoreEntry ==
  ASSUME NEW s, NEW n, StoreOK(s, n), NEW e, New(e, n),
         CardUrl(e) = None \/ ~ ByUrl(e), NEW x
  PROVE  LET t == AddEntry(s, e, x)
         IN  /\ StoreOK(t, n + 1) /\ Preserves(s.agents, n, t.agents)
             /\ Extends(s.agents, t.agents)
             /\ (SameAt(s.agents, e) = 0 =>
                   /\ Has(t.agents, n)
                   /\ \A i \in DOMAIN t.agents :
                        t.agents[i].id = n => t.agents[i] = e)
<1> DEFINE l == s.agents
           k == SameAt(l, e)
           y == IF e.id # x THEN s.sel ELSE IF k = 0 THEN e.id ELSE l[k].id
           t == AddEntry(s, e, x)
<1>1. t = State(IF k = 0 THEN Append(l, e) ELSE l, y) BY DEF AddEntry
<1>2. ListOK(l, n) /\ IsList(l) /\ n \in Nat /\ Len(l) \in Nat
  BY ListFacts DEF StoreOK, ListOK
<1>3. IF k = 0 THEN \A i \in DOMAIN l : ~ SameAgent(l[i], e)
      ELSE k \in DOMAIN l
  BY <1>2, SameAtIs
<1>4. s.sel \in {None, HostId} \/ Has(l, s.sel) BY DEF StoreOK, Shows
<1>5. e.id = n BY DEF New
<1> HIDE DEF l, k, t
<1>6. CASE k = 0
  <2>1. ApartFromAll(l, e)
    <3>1. ASSUME NEW i \in DOMAIN l PROVE Apart(l[i], e)
      <4>1. EntryOK(l[i]) /\ EntryOK(e) BY <1>2 DEF ListOK, New
      <4>2. ~ SameAgent(l[i], e) BY <1>3, <1>6
      <4> QED BY <4>1, <4>2, ApartUnlike, ApartOther
    <3> QED BY <3>1 DEF ApartFromAll
  <2>2. y \in {None, HostId} \/ Has(l, y) \/ y = n BY <1>4, <1>5, <1>6
  <2>3. t = State(Append(l, e), y) BY <1>1, <1>6
  <2> HIDE DEF y
  <2>4. /\ StaysUsed(s, n, t, n + 1) /\ Has(Append(l, e), n)
        /\ \A i \in DOMAIN Append(l, e) :
             Append(l, e)[i].id = n => Append(l, e)[i] = e
    BY <2>1, <2>2, <2>3, StoreGains DEF l
  <2>5. t.agents = Append(l, e) BY <2>3, StateIs
  <2>6. Extends(l, Append(l, e)) BY <1>2, <2>1, EntryAdded DEF Extends
  <2> QED BY <2>4, <2>5, <2>6 DEF StaysUsed, Stays, l, t
<1>7. CASE k # 0
  <2>1. y \in {None, HostId} \/ Has(l, y) BY <1>3, <1>4, <1>7 DEF Has
  <2>2. t = State(l, y) BY <1>1, <1>7
  <2> HIDE DEF y
  <2>3. /\ t.agents = l /\ t.sel = y /\ {"agents", "sel"} \subseteq DOMAIN t
    BY <2>2, StateIs
  <2>4. ListOK(l, n + 1) BY <1>2, ListLater
  <2>5. StoreOK(t, n + 1) BY <2>1, <2>3, <2>4 DEF StoreOK, Shows
  <2>6. Preserves(l, n, l) BY <1>2, PreservesSelf
  <2>7. Extends(l, l) BY <1>2 DEF Extends
  <2> QED BY <1>7, <2>3, <2>5, <2>6, <2>7 DEF l, k, t
<1> QED BY <1>6, <1>7

AddStep(f, s, es, x, n) == IF n = 0 THEN s ELSE AddEntry(f[n - 1], es[n], x)

AddSteps(f, m, s, es, x) == f = [n \in 0..m |-> AddStep(f, s, es, x, n)]

LEMMA AddIsSolution ==
  ASSUME NEW s, NEW es, NEW x
  PROVE  AddEntries(s, es, x)
           = (CHOOSE f : AddSteps(f, Len(es), s, es, x))[Len(es)]
BY Zenon DEF AddEntries, AddSteps, AddStep

LEMMA AddSolved ==
  ASSUME NEW s, NEW es, NEW x, NEW m \in Nat
  PROVE  \E f : AddSteps(f, m, s, es, x)
<1> DEFINE A == {k \in Nat : \E f : AddSteps(f, k, s, es, x)}
<1>1. 0 \in A
  <2> DEFINE f == [n \in 0..0 |-> s]
  <2>1. AddSteps(f, 0, s, es, x) BY DEF AddSteps, AddStep
  <2> QED BY <2>1
<1>2. ASSUME NEW k \in Nat, k \in A PROVE k + 1 \in A
  <2>1. PICK f : AddSteps(f, k, s, es, x) BY <1>2
  <2>2. \A n \in 0..k : f[n] = AddStep(f, s, es, x, n) BY <2>1 DEF AddSteps
  <2> DEFINE g == [n \in 0..(k + 1) |->
                     IF n = k + 1 THEN AddEntry(f[k], es[k + 1], x) ELSE f[n]]
  <2>3. \A n \in 0..(k + 1) : g[n] = AddStep(g, s, es, x, n)
    <3>1. ASSUME NEW n \in 0..(k + 1) PROVE g[n] = AddStep(g, s, es, x, n)
      <4>1. \A i \in 0..k : g[i] = f[i] OBVIOUS
      <4>2. g[k + 1] = AddEntry(f[k], es[k + 1], x) OBVIOUS
      <4> HIDE DEF g
      <4>3. CASE n = k + 1
        <5>1. n # 0 /\ n - 1 = k /\ k \in 0..k BY <4>3
        <5> QED BY <4>1, <4>2, <4>3, <5>1 DEF AddStep
      <4>4. CASE n \in 0..k
        <5>1. g[n] = AddStep(f, s, es, x, n) BY <2>2, <4>1, <4>4
        <5>2. CASE n = 0 BY <5>1, <5>2 DEF AddStep
        <5>3. CASE n # 0
          <6>1. n - 1 \in 0..k BY <4>4, <5>3
          <6> QED BY <4>1, <5>1, <5>3, <6>1 DEF AddStep
        <5> QED BY <5>2, <5>3
      <4> QED BY <4>3, <4>4
    <3> QED BY <3>1
  <2>4. g = [n \in 0..(k + 1) |-> g[n]] OBVIOUS
  <2> HIDE DEF g
  <2>5. AddSteps(g, k + 1, s, es, x) BY <2>3, <2>4 DEF AddSteps
  <2> QED BY <2>5
<1> HIDE DEF A
<1>3. Nat \subseteq A BY <1>1, <1>2, NatCases
<1> QED BY <1>3 DEF A

LEMMA AddsOne ==
  ASSUME NEW s, NEW e, NEW x
  PROVE  AddEntries(s, <<e>>, x) = AddEntry(s, e, x)
<1> DEFINE es == <<e>>
           f == CHOOSE f : AddSteps(f, 1, s, es, x)
<1>1. Len(es) = 1 /\ es[1] = e BY ListOfOne
<1> HIDE DEF es
<1>2. \E g : AddSteps(g, 1, s, es, x) BY AddSolved
<1>3. AddSteps(f, 1, s, es, x) BY <1>2
<1>4. AddEntries(s, es, x) = f[1] BY <1>1, AddIsSolution
<1> HIDE DEF f
<1>5. \A n \in 0..1 : f[n] = AddStep(f, s, es, x, n) BY <1>3 DEF AddSteps
<1>6. f[0] = s BY <1>5 DEF AddStep
<1>7. f[1] = AddEntry(f[0], es[1], x)
  <2>1. f[1] = AddStep(f, s, es, x, 1) BY <1>5
  <2> QED BY <2>1 DEF AddStep
<1> QED BY <1>1, <1>4, <1>6, <1>7 DEF es

(* Entries with IDs from n on, of which none was found at a URL.           *)
Fresh(es, n) ==
  /\ IsList(es)
  /\ \A i \in DOMAIN es :
       New(es[i], n + (i - 1)) /\ (CardUrl(es[i]) = None \/ ~ ByUrl(es[i]))

LEMMA StoreEntries ==
  ASSUME NEW s, NEW n, StoreOK(s, n), NEW es, Fresh(es, n), NEW x
  PROVE  LET t == AddEntries(s, es, x)
         IN  StaysUsed(s, n, t, n + Len(es)) /\ Extends(s.agents, t.agents)
<1> DEFINE N == Len(es)
           f == CHOOSE f : AddSteps(f, N, s, es, x)
           l == s.agents
           t == AddEntries(s, es, x)
           OK(k) == /\ StoreOK(f[k], n + k) /\ Preserves(l, n, f[k].agents)
                    /\ Extends(l, f[k].agents)
           A == {k \in Nat : k <= N => OK(k)}
<1>1. N \in Nat /\ DOMAIN es = 1..N BY ListFacts DEF Fresh
<1>2. \E g : AddSteps(g, N, s, es, x)
  <2> HIDE DEF N
  <2> QED BY <1>1, AddSolved
<1>3. AddSteps(f, N, s, es, x) BY <1>2
<1>4. t = f[N] BY AddIsSolution
<1> HIDE DEF f, N, t
<1>5. \A k \in 0..N : f[k] = AddStep(f, s, es, x, k) BY <1>3 DEF AddSteps
<1>6. n \in Nat /\ ListOK(l, n) /\ Len(l) \in Nat
  BY ListFacts DEF StoreOK, ListOK
<1>7. f[0] = s
  <2>1. 0 \in 0..N BY <1>1
  <2>2. f[0] = AddStep(f, s, es, x, 0) BY <1>5, <2>1
  <2> QED BY <2>2 DEF AddStep
<1>8. 0 \in A
  <2>1. StoreOK(f[0], n + 0) BY <1>6, <1>7
  <2>2. Preserves(l, n, f[0].agents) BY <1>6, <1>7, PreservesSelf
  <2>3. Extends(l, f[0].agents) BY <1>6, <1>7 DEF Extends
  <2> QED BY <2>1, <2>2, <2>3
<1>9. ASSUME NEW k \in Nat, k \in A PROVE k + 1 \in A
  <2> SUFFICES ASSUME k + 1 <= N PROVE OK(k + 1)
    OBVIOUS
  <2> HIDE DEF l
  <2>1. k <= N /\ k + 1 \in 0..N /\ k + 1 \in 1..N /\ k + 1 # 0 /\ (k + 1) - 1 = k
    BY <1>1
  <2>2. OK(k) BY <1>9, <2>1
  <2> DEFINE a == f[k]
             b == f[k + 1]
             e == es[k + 1]
             q == n + k
  <2>3. b = AddEntry(a, e, x)
    <3>1. b = AddStep(f, s, es, x, k + 1) BY <1>5, <2>1
    <3> QED BY <2>1, <3>1 DEF AddStep
  <2>4. New(e, q) /\ (CardUrl(e) = None \/ ~ ByUrl(e))
    <3>1. k + 1 \in DOMAIN es BY <1>1, <2>1
    <3>2. New(e, n + ((k + 1) - 1)) /\ (CardUrl(e) = None \/ ~ ByUrl(e))
      BY <3>1 DEF Fresh
    <3> QED BY <2>1, <3>2
  <2>5. StoreOK(a, q) BY <2>2
  <2>6. q \in Nat /\ n <= q /\ q + 1 = n + (k + 1) BY <1>6
  <2> HIDE DEF a, b, e, q
  <2>7. /\ StoreOK(b, q + 1) /\ Preserves(a.agents, q, b.agents)
        /\ Extends(a.agents, b.agents)
    BY <2>3, <2>4, <2>5, StoreEntry
  <2>8. Preserves(l, n, a.agents) /\ Extends(l, a.agents) BY <2>2 DEF a
  <2>9. \A j \in DOMAIN b.agents : b.agents[j].id \in Nat
    BY <2>7 DEF StoreOK, ListOK, EntryOK, EntryTyped
  <2>10. Preserves(l, n, b.agents)
    BY <1>6, <2>6, <2>7, <2>8, <2>9, PreservesBoth
  <2>11. Len(a.agents) \in Nat /\ Len(b.agents) \in Nat
    BY <2>5, <2>7, ListFacts DEF StoreOK, ListOK
  <2>12. Extends(l, b.agents) BY <1>6, <2>7, <2>8, <2>11, ExtendsBoth
  <2>13. StoreOK(b, n + (k + 1)) BY <2>6, <2>7
  <2> QED BY <2>10, <2>12, <2>13 DEF b
<1> HIDE DEF A
<1>10. Nat \subseteq A BY <1>8, <1>9, NatCases
<1>11. OK(N) BY <1>1, <1>10 DEF A
<1>12. KeepsUsed(l, f[N].agents) BY <1>11, ExtendsUsed DEF StoreOK
<1> QED BY <1>4, <1>11, <1>12 DEF StaysUsed, Stays, N, t

LEMMA FreshOne ==
  ASSUME NEW e, NEW n \in Nat, New(e, n), CardUrl(e) = None \/ ~ ByUrl(e)
  PROVE  Fresh(<<e>>, n) /\ Len(<<e>>) = 1
<1> DEFINE es == <<e>>
<1>1. IsList(es) /\ Len(es) = 1 /\ DOMAIN es = 1..1 /\ es[1] = e BY ListOfOne
<1> HIDE DEF es
<1>2. \A i \in DOMAIN es : es[i] = e /\ n + (i - 1) = n BY <1>1
<1>3. Fresh(es, n) BY <1>1, <1>2 DEF Fresh
<1> QED BY <1>1, <1>3 DEF es
-----------------------------------------------------------------------------
(* The entries of a catalog.                                               *)
CatalogOK(doc) ==
  /\ CatalogAllowed(doc.entries) /\ IsList(doc.endpoints)
  /\ \A i \in DOMAIN doc.endpoints : IsList(doc.endpoints[i].custom)

LEMMA CatalogEntriesFresh ==
  ASSUME NEW s, CatalogAllowed(s), NEW n \in Nat \ {0}, NEW A,
         A = [i \in DOMAIN s |-> A[i]],
         \A i \in DOMAIN s : A[i] = ReadEntry(n + (i - 1), s[i])
  PROVE  /\ Fresh(A, n) /\ Len(A) = Len(s) /\ DOMAIN A = DOMAIN s
         /\ \A i \in DOMAIN s :
              /\ CardUrl(A[i]) = None /\ A[i].url = s[i].cardUrl
              /\ A[i].card = s[i].card /\ A[i].kind = "card"
              /\ ~ IsEcho(A[i])
<1>1. Len(s) \in Nat /\ DOMAIN s = 1..Len(s) /\ IsList(s)
  BY ListFacts DEF CatalogAllowed
<1>3. IsList(A) /\ Len(A) = Len(s) /\ DOMAIN A = DOMAIN s
  BY <1>1, ListMapped
<1>4. ASSUME NEW i \in DOMAIN s
      PROVE  /\ New(A[i], n + (i - 1)) /\ CardUrl(A[i]) = None
             /\ A[i].url = s[i].cardUrl /\ A[i].card = s[i].card
             /\ A[i].kind = "card" /\ ~ IsEcho(A[i])
  <2>1. n + (i - 1) \in Nat \ {0} BY <1>1
  <2>2. EntryAllowed(s[i]) BY DEF CatalogAllowed
  <2>3. A[i] = ReadEntry(n + (i - 1), s[i]) OBVIOUS
  <2> HIDE DEF CatalogAllowed
  <2> DEFINE k == n + (i - 1)
  <2> HIDE DEF k
  <2>4. New(ReadEntry(k, s[i]), k) /\ CardUrl(ReadEntry(k, s[i])) = None
        /\ ReadEntry(k, s[i]).url = s[i].cardUrl
        /\ ReadEntry(k, s[i]).card = s[i].card
        /\ ReadEntry(k, s[i]).kind = "card" /\ ~ IsEcho(ReadEntry(k, s[i]))
    BY <2>1, <2>2, EntryRead DEF k
  <2> QED BY <2>3, <2>4 DEF k
<1>5. Fresh(A, n) BY <1>3, <1>4 DEF Fresh
<1> QED BY <1>3, <1>4, <1>5

LEMMA CatalogFresh ==
  ASSUME NEW doc, CatalogOK(doc), NEW n \in Nat \ {0}
  PROVE  Fresh(AgentsFromCatalog(doc, n), n)
<1> DEFINE s == doc.entries
           U == {i \in DOMAIN doc.endpoints : doc.endpoints[i].custom # <<>>}
           p == Picked(doc.endpoints, U)
           A == [i \in DOMAIN s |-> ReadEntry(n + (i - 1), s[i])]
           B == [i \in DOMAIN p |-> ReadEndpoint((n + Len(s)) + (i - 1), p[i])]
           C == AgentsFromCatalog(doc, n)
<1>1. Len(s) \in Nat /\ DOMAIN s = 1..Len(s) /\ CatalogAllowed(s)
  BY ListFacts DEF CatalogOK, CatalogAllowed
<1>2. U \subseteq DOMAIN doc.endpoints OBVIOUS
<1>3. /\ IsList(p)
      /\ \A i \in DOMAIN p : IsList(p[i].custom) /\ p[i].custom # <<>>
  <2>1. \A k \in U : IsList(doc.endpoints[k].custom)
                     /\ doc.endpoints[k].custom # <<>>
    BY DEF CatalogOK
  <2>2. IsList(doc.endpoints) BY DEF CatalogOK
  <2> HIDE DEF U
  <2>3. /\ IsList(p)
        /\ \A i \in DOMAIN p :
             Place(U, i) \in U /\ p[i] = doc.endpoints[Place(U, i)]
    BY <1>2, <2>2, PickedList
  <2> HIDE DEF p
  <2> QED BY <2>1, <2>3
<1>4. C = A \o B
  <2>1. \A i \in DOMAIN s : n + i - 1 = n + (i - 1) BY <1>1
  <2>2. \A i \in DOMAIN p : n + Len(s) + i - 1 = (n + Len(s)) + (i - 1)
    <3>1. DOMAIN p = 1..Len(p) /\ Len(p) \in Nat BY <1>3, ListFacts
    <3> QED BY <1>1, <3>1
  <2>3. C = [i \in DOMAIN s |-> ReadEntry(n + i - 1, s[i])]
            \o [i \in DOMAIN p |-> ReadEndpoint(n + Len(s) + i - 1, p[i])]
    BY DEF AgentsFromCatalog
  <2> HIDE DEF p, C
  <2> QED BY <2>1, <2>2, <2>3
<1> HIDE DEF C, U, p
<1>5. Fresh(A, n) /\ Len(A) = Len(s) /\ DOMAIN A = DOMAIN s
  <2>1. A = [i \in DOMAIN s |-> A[i]]
        /\ \A i \in DOMAIN s : A[i] = ReadEntry(n + (i - 1), s[i])
    OBVIOUS
  <2> HIDE DEF s, A, B
  <2>2. /\ Fresh(A, n) /\ Len(A) = Len(s) /\ DOMAIN A = DOMAIN s
        /\ \A i \in DOMAIN s :
             /\ CardUrl(A[i]) = None /\ A[i].url = s[i].cardUrl
             /\ A[i].card = s[i].card /\ A[i].kind = "card" /\ ~ IsEcho(A[i])
    <3>1. CatalogAllowed(s) BY <1>1
    <3> QED BY <2>1, <3>1, CatalogEntriesFresh
  <2> QED BY <2>2
<1>6. B = [i \in DOMAIN p |-> B[i]]
      /\ \A i \in DOMAIN p : B[i] = ReadEndpoint((n + Len(s)) + (i - 1), p[i])
  OBVIOUS
<1> HIDE DEF A, B
<1>7. IsList(B) /\ Len(B) = Len(p) /\ DOMAIN B = DOMAIN p
  BY <1>3, <1>6, ListMapped
<1>8. ASSUME NEW i \in DOMAIN B
      PROVE  New(B[i], n + ((Len(A) + i) - 1)) /\ ~ ByUrl(B[i])
  <2>1. i \in Nat /\ 1 <= i BY <1>7, ListFacts
  <2> DEFINE k == (n + Len(s)) + (i - 1)
  <2>2. k \in Nat \ {0} /\ k = n + ((Len(A) + i) - 1) BY <1>1, <1>5, <2>1
  <2>3. IsList(p[i].custom) /\ p[i].custom # <<>> /\ B[i] = ReadEndpoint(k, p[i])
    BY <1>3, <1>6, <1>7
  <2> HIDE DEF k
  <2>4. New(ReadEndpoint(k, p[i]), k) /\ ~ ByUrl(ReadEndpoint(k, p[i]))
    BY <2>2, <2>3, EndpointRead
  <2> QED BY <2>2, <2>3, <2>4
<1>9. IsList(A) BY <1>5 DEF Fresh
<1>10. IsList(C) BY <1>4, <1>7, <1>9, ListConcat
<1>11. ASSUME NEW i \in DOMAIN C
       PROVE  New(C[i], n + (i - 1)) /\ (CardUrl(C[i]) = None \/ ~ ByUrl(C[i]))
  <2>1. i \in DOMAIN A \/ \E j \in DOMAIN B : i = Len(A) + j
    BY <1>4, <1>7, <1>9, ListSplits
  <2>2. CASE i \in DOMAIN A
    <3>1. C[i] = A[i] BY <1>4, <1>7, <1>9, <2>2, ListConcat
    <3> QED BY <1>5, <2>2, <3>1 DEF Fresh
  <2>3. ASSUME NEW j \in DOMAIN B, i = Len(A) + j
        PROVE  New(C[i], n + (i - 1)) /\ (CardUrl(C[i]) = None \/ ~ ByUrl(C[i]))
    <3>1. C[Len(A) + j] = B[j] BY <1>4, <1>7, <1>9, ListSecond
    <3> QED BY <1>8, <2>3, <3>1
  <2> QED BY <2>1, <2>2, <2>3
<1>12. Fresh(C, n) BY <1>10, <1>11 DEF Fresh
<1> QED BY <1>12 DEF C

LEMMA ListedFresh ==
  ASSUME NEW s, CatalogAllowed(s), NEW n \in Nat \ {0}
  PROVE  LET A == AgentsFromCatalog(Listed(s), n)
         IN  /\ Fresh(A, n) /\ Len(A) = Len(s) /\ DOMAIN A = DOMAIN s
             /\ \A i \in DOMAIN s :
                  /\ CardUrl(A[i]) = None /\ A[i].url = s[i].cardUrl
                  /\ A[i].card = s[i].card /\ A[i].kind = "card"
                  /\ ~ IsEcho(A[i])
<1> DEFINE A == [i \in DOMAIN s |-> ReadEntry(n + (i - 1), s[i])]
           U == {i \in DOMAIN <<>> : <<>>[i].custom # <<>>}
           B == [i \in DOMAIN Picked(<<>>, U) |->
                   ReadEndpoint(n + Len(s) + i - 1, Picked(<<>>, U)[i])]
           C == AgentsFromCatalog(Listed(s), n)
<1>1. Len(s) \in Nat /\ DOMAIN s = 1..Len(s) BY ListFacts DEF CatalogAllowed
<1>2. C = A \o B
  <2>1. \A i \in DOMAIN s : n + i - 1 = n + (i - 1) BY <1>1
  <2>2. C = [i \in DOMAIN s |-> ReadEntry(n + i - 1, s[i])] \o B
    BY DEF AgentsFromCatalog, Listed
  <2> HIDE DEF C, B
  <2> QED BY <2>1, <2>2
<1>3. B = <<>>
  <2>1. IsList(<<>>) /\ DOMAIN <<>> = {} /\ Len(<<>>) = 0 BY ListOfNone, EmptySeq
  <2>2. U \subseteq DOMAIN <<>> OBVIOUS
  <2> DEFINE p == Picked(<<>>, U)
  <2> HIDE DEF U
  <2>3. IsList(p) /\ Len(p) \in Nat /\ Len(p) <= 0 BY <2>1, <2>2, PickedList, ListFacts
  <2>4. DOMAIN p = {} BY <2>3, ListFacts
  <2> HIDE DEF p
  <2>5. DOMAIN B = {} BY <2>4 DEF p
  <2>6. B = [i \in {} |-> B[i]] BY <2>4 DEF p
  <2> HIDE DEF B
  <2>7. IsList(B) /\ Len(B) = 0
    <3>1. 1..0 = {} OBVIOUS
    <3>2. DOMAIN B = 1..0 /\ B = [i \in 1..0 |-> B[i]] BY <2>5, <2>6, <3>1
    <3> QED BY <3>2, ListIs
  <2> QED BY <2>7, EmptySeq DEF IsList
<1>4. A = [i \in DOMAIN s |-> A[i]]
      /\ \A i \in DOMAIN s : A[i] = ReadEntry(n + (i - 1), s[i])
  OBVIOUS
<1> HIDE DEF A, B, C
<1>5. /\ Fresh(A, n) /\ Len(A) = Len(s) /\ DOMAIN A = DOMAIN s
      /\ \A i \in DOMAIN s :
           /\ CardUrl(A[i]) = None /\ A[i].url = s[i].cardUrl
           /\ A[i].card = s[i].card /\ A[i].kind = "card" /\ ~ IsEcho(A[i])
  BY <1>4, CatalogEntriesFresh
<1>6. C = A
  <2>1. A \in Seq(Range(A)) BY <1>5 DEF Fresh, IsList
  <2>2. A \o <<>> = A BY <2>1, ConcatEmptySeq
  <2> QED BY <1>2, <1>3, <2>2
<1> QED BY <1>5, <1>6 DEF C

LEMMA ListJoined ==
  ASSUME NEW m, NEW n, ListOK(m, n), NEW es, Fresh(es, n),
         \A i, j \in DOMAIN es : i # j => Apart(es[i], es[j]),
         NEW P, P \subseteq DOMAIN es,
         \A i \in DOMAIN m, j \in P : Apart(m[i], es[j])
  PROVE  LET q == m \o Picked(es, P)
         IN  /\ ListOK(q, n + Len(es))
             /\ \A j \in DOMAIN q : q[j].id < n =>
                  \E i \in DOMAIN m : q[j] = m[i]
             /\ \A i \in DOMAIN m : \E j \in DOMAIN q : q[j] = m[i]
<1> DEFINE p == Picked(es, P)
           q == m \o p
           pl(k) == Place(P, k)
<1>1. /\ Len(m) \in Nat /\ n \in Nat /\ Len(m) < n /\ IsList(m)
      /\ DOMAIN m = 1..Len(m)
  BY ListFacts DEF ListOK
<1>2. Len(es) \in Nat /\ DOMAIN es = 1..Len(es) /\ IsList(es)
  BY ListFacts DEF Fresh
<1>3. /\ IsList(p) /\ Len(p) \in Nat /\ Len(p) <= Len(es)
      /\ \A k \in DOMAIN p : pl(k) \in P /\ p[k] = es[pl(k)]
      /\ \A k, j \in DOMAIN p : k # j => pl(k) # pl(j)
  BY <1>2, PickedList
<1>4. \A i \in DOMAIN es :
        /\ EntryOK(es[i]) /\ es[i].id = n + (i - 1)
        /\ es[i].id >= n /\ es[i].id < n + Len(es)
  BY <1>1, <1>2 DEF Fresh, New
<1> HIDE DEF p, pl
<1>5. /\ IsList(q) /\ Len(q) = Len(m) + Len(p)
      /\ \A i \in DOMAIN m : q[i] = m[i] /\ i \in DOMAIN q
  <2>1. DOMAIN q = 1..(Len(m) + Len(p)) BY <1>1, <1>3, ListConcat
  <2> QED BY <1>1, <1>3, <2>1, ListConcat
<1>6. \A i \in DOMAIN q :
        i \in DOMAIN m \/ \E j \in DOMAIN p : i = Len(m) + j
  BY <1>1, <1>3, ListSplits
<1>7. \A j \in DOMAIN p : q[Len(m) + j] = p[j] BY <1>1, <1>3, ListSecond
<1> HIDE DEF q
<1>8. ASSUME NEW i \in DOMAIN q
      PROVE  \/ /\ i \in DOMAIN m /\ q[i] = m[i]
                /\ EntryOK(q[i]) /\ q[i].id < n
             \/ \E k \in DOMAIN p :
                  i = Len(m) + k /\ q[i] = es[pl(k)] /\ pl(k) \in P
  BY <1>3, <1>5, <1>6, <1>7 DEF ListOK
<1>9. ASSUME NEW i \in DOMAIN q
      PROVE  EntryOK(q[i]) /\ q[i].id < n + Len(es)
  <2>1. CASE i \in DOMAIN m /\ EntryOK(q[i]) /\ q[i].id < n
    <3>1. q[i].id \in Nat BY <2>1 DEF EntryOK, EntryTyped
    <3> QED BY <1>1, <1>2, <2>1, <3>1
  <2>2. CASE \E k \in DOMAIN p : q[i] = es[pl(k)] /\ pl(k) \in P
    BY <1>4, <2>2
  <2> QED BY <1>8, <2>1, <2>2
<1>10. ASSUME NEW i \in DOMAIN q, NEW j \in DOMAIN q, i # j
       PROVE  q[i].id # q[j].id /\ Apart(q[i], q[j])
  <2>1. CASE i \in DOMAIN m /\ q[i] = m[i] /\ j \in DOMAIN m /\ q[j] = m[j]
    BY <1>10, <2>1 DEF ListOK
  <2>2. ASSUME NEW a \in DOMAIN m, NEW k \in DOMAIN p
        PROVE  m[a].id # es[pl(k)].id /\ Apart(m[a], es[pl(k)])
               /\ Apart(es[pl(k)], m[a])
    <3>1. Apart(m[a], es[pl(k)]) BY <1>3
    <3>2. m[a].id < n /\ m[a].id \in Nat BY DEF ListOK, EntryOK, EntryTyped
    <3>3. es[pl(k)].id >= n BY <1>3, <1>4
    <3>4. es[pl(k)].id = n + (pl(k) - 1) /\ pl(k) \in Nat BY <1>2, <1>3, <1>4
    <3>5. es[pl(k)].id \in Int BY <1>1, <3>4
    <3>6. m[a].id # es[pl(k)].id BY <1>1, <3>2, <3>3, <3>5
    <3> QED BY <3>1, <3>6, ApartSame
  <2>3. ASSUME NEW k \in DOMAIN p, NEW h \in DOMAIN p, k # h
        PROVE  es[pl(k)].id # es[pl(h)].id /\ Apart(es[pl(k)], es[pl(h)])
    <3>1. pl(k) # pl(h) /\ pl(k) \in DOMAIN es /\ pl(h) \in DOMAIN es BY <1>3, <2>3
    <3>2. pl(k) \in Nat /\ pl(h) \in Nat BY <1>2, <3>1
    <3>3. es[pl(k)].id = n + (pl(k) - 1) /\ es[pl(h)].id = n + (pl(h) - 1)
      BY <1>4, <3>1
    <3> QED BY <1>1, <3>1, <3>2, <3>3
  <2>4. CASE /\ i \in DOMAIN m /\ q[i] = m[i]
             /\ \E k \in DOMAIN p : j = Len(m) + k /\ q[j] = es[pl(k)]
    BY <2>2, <2>4
  <2>5. CASE /\ j \in DOMAIN m /\ q[j] = m[j]
             /\ \E k \in DOMAIN p : i = Len(m) + k /\ q[i] = es[pl(k)]
    BY <2>2, <2>5
  <2>6. CASE /\ \E k \in DOMAIN p : i = Len(m) + k /\ q[i] = es[pl(k)]
             /\ \E h \in DOMAIN p : j = Len(m) + h /\ q[j] = es[pl(h)]
    <3>1. PICK k \in DOMAIN p, h \in DOMAIN p :
            /\ i = Len(m) + k /\ q[i] = es[pl(k)]
            /\ j = Len(m) + h /\ q[j] = es[pl(h)]
      BY <2>6
    <3>2. k # h BY <1>10, <3>1
    <3> QED BY <2>3, <3>1, <3>2
  <2> QED BY <1>8, <2>1, <2>4, <2>5, <2>6
<1>11. n + Len(es) \in Nat /\ Len(q) < n + Len(es) BY <1>1, <1>2, <1>3, <1>5
<1>12. ListOK(q, n + Len(es)) BY <1>5, <1>9, <1>10, <1>11 DEF ListOK
<1>13. ASSUME NEW j \in DOMAIN q, q[j].id < n
       PROVE  \E i \in DOMAIN m : q[j] = m[i]
  <2>1. ASSUME NEW k \in DOMAIN p, q[j] = es[pl(k)] PROVE FALSE
    <3>1. pl(k) \in DOMAIN es BY <1>3
    <3>2. pl(k) \in Nat /\ es[pl(k)].id = n + (pl(k) - 1) /\ pl(k) >= 1
      BY <1>2, <1>4, <3>1
    <3> QED BY <1>1, <1>13, <2>1, <3>2
  <2> QED BY <1>8, <2>1
<1> QED BY <1>5, <1>12, <1>13 DEF p, q

LEMMA StoreShared ==
  ASSUME NEW s, NEW n, StoreOK(s, n), NEW es, Fresh(es, n),
         \A i \in DOMAIN es : CardUrl(es[i]) = None,
         \A i, j \in DOMAIN es : i # j => Apart(es[i], es[j])
  PROVE  StaysUsed(s, n, Shared(s, es), n + Len(es))
<1> DEFINE l == s.agents
           L(a) == \E i \in DOMAIN es : SameAgent(a, es[i])
           P == {i \in DOMAIN l : ~ l[i].shared \/ L(l[i])}
           k == Picked(l, P)
           m == [i \in DOMAIN k |-> IF L(k[i]) THEN Marked(k[i]) ELSE k[i]]
           N == {i \in DOMAIN es : ~ \E j \in DOMAIN m : SameAgent(m[j], es[i])}
           q == m \o Picked(es, N)
           x == IF Has(m, s.sel) \/ s.sel = HostId THEN s.sel ELSE None
           t == Shared(s, es)
<1>1. t = State(q, x) BY DEF Shared, Marked
<1>2. ListOK(l, n) /\ P \subseteq DOMAIN l BY DEF StoreOK
<1> HIDE DEF P, L, l, t
<1>3. /\ ListOK(k, n) /\ \A j \in DOMAIN k : \E i \in P : k[j] = l[i]
  BY <1>2, EntriesPicked
<1>4. \A j \in DOMAIN k : \E i \in DOMAIN l : k[j] = l[i] BY <1>2, <1>3
<1> HIDE DEF k
<1>5. /\ m = [i \in DOMAIN k |-> m[i]]
      /\ \A i \in DOMAIN k : m[i] = IF L(k[i]) THEN Marked(k[i]) ELSE k[i]
  OBVIOUS
<1> HIDE DEF m
<1>6. \A i \in DOMAIN k :
        EntryOK(m[i]) /\ Alike(k[i], m[i]) /\ InUse(k[i], m[i])
  BY <1>3, <1>5, EntryMarked, AlikeSelf DEF ListOK
<1>7. Changed(k, n, m) BY <1>3, <1>5, <1>6, EntriesChanged
<1>8. KeepsUsed(k, m)
  <2>1. \A i \in DOMAIN k : InUse(k[i], m[i]) /\ m[i].id = k[i].id
    BY <1>6 DEF Alike
  <2> QED BY <1>3, <1>5, <2>1, EntriesUsed
<1>9. Preserves(l, n, m) /\ KeepsUsed(l, m)
  BY <1>2, <1>4, <1>7, <1>8, KeepsPicked DEF Changed
<1>10. N \subseteq DOMAIN es OBVIOUS
<1>11. \A i \in DOMAIN m, j \in N : Apart(m[i], es[j])
  <2>1. ASSUME NEW i \in DOMAIN m, NEW j \in N PROVE Apart(m[i], es[j])
    <3>1. EntryOK(m[i]) BY <1>7 DEF Changed, ListOK
    <3>2. EntryOK(es[j]) /\ CardUrl(es[j]) = None BY <1>10 DEF Fresh, New
    <3>3. ~ SameAgent(m[i], es[j]) OBVIOUS
    <3> QED BY <3>1, <3>2, <3>3, ApartUnlike
  <2> HIDE DEF N
  <2> QED BY <2>1
<1> HIDE DEF N
<1>12. ListOK(m, n) BY <1>7 DEF Changed
<1>13. /\ ListOK(q, n + Len(es))
       /\ \A j \in DOMAIN q : q[j].id < n => \E i \in DOMAIN m : q[j] = m[i]
       /\ \A i \in DOMAIN m : \E j \in DOMAIN q : q[j] = m[i]
  BY <1>10, <1>11, <1>12, ListJoined
<1> HIDE DEF q
<1>14. Preserves(l, n, q)
  <2>1. ASSUME NEW j \in DOMAIN q, q[j].id < n
        PROVE  \E i \in DOMAIN l : l[i].id = q[j].id /\ l[i].url = q[j].url
    <3>1. PICK h \in DOMAIN m : q[j] = m[h] BY <1>13, <2>1
    <3> QED BY <1>9, <2>1, <3>1 DEF Preserves
  <2> QED BY <2>1 DEF Preserves
<1>15. KeepsUsed(l, q)
  <2>1. ASSUME NEW i \in DOMAIN l, NEW j \in DOMAIN q, l[i].id = q[j].id
        PROVE  InUse(l[i], q[j])
    <3>1. q[j].id < n BY <1>2, <2>1 DEF ListOK
    <3>2. PICK h \in DOMAIN m : q[j] = m[h] BY <1>13, <3>1
    <3> QED BY <1>9, <2>1, <3>2 DEF KeepsUsed
  <2> QED BY <2>1 DEF KeepsUsed
<1>16. t.agents = q /\ t.sel = x /\ {"agents", "sel"} \subseteq DOMAIN t
  BY <1>1, StateIs
<1>17. Has(m, s.sel) => Has(q, s.sel) BY <1>13 DEF Has
<1>18. Shows(t) BY <1>16, <1>17 DEF Shows
<1> QED BY <1>13, <1>14, <1>15, <1>16, <1>18 DEF StaysUsed, Stays, StoreOK, l, t

(* The entries of the shared catalog, marked.                              *)
SharedEntries(n) ==
  LET entries == AgentsFromCatalog(Listed(SharedList), n)
  IN  [i \in DOMAIN entries |-> Marked(entries[i])]

LEMMA SharedFresh ==
  ASSUME NEW n \in Nat \ {0}
  PROVE  /\ Fresh(SharedEntries(n), n)
         /\ \A i \in DOMAIN SharedEntries(n) : CardUrl(SharedEntries(n)[i]) = None
         /\ \A i, j \in DOMAIN SharedEntries(n) :
              i # j => Apart(SharedEntries(n)[i], SharedEntries(n)[j])
<1> DEFINE A == AgentsFromCatalog(Listed(SharedList), n)
           B == SharedEntries(n)
<1>1. B = [i \in DOMAIN A |-> Marked(A[i])] BY DEF SharedEntries
<1>2. CatalogAllowed(SharedList) BY ValuesAssumption
<1> HIDE DEF A, B
<1>3. /\ Fresh(A, n) /\ DOMAIN A = DOMAIN SharedList
      /\ \A i \in DOMAIN SharedList :
           /\ CardUrl(A[i]) = None /\ A[i].url = SharedList[i].cardUrl
           /\ A[i].card = SharedList[i].card /\ A[i].kind = "card"
           /\ ~ IsEcho(A[i])
  BY <1>2, ListedFresh DEF A
<1>4. B = [i \in DOMAIN A |-> B[i]] /\ \A i \in DOMAIN A : B[i] = Marked(A[i])
  BY <1>1
<1>5. IsList(B) /\ DOMAIN B = DOMAIN A BY <1>3, <1>4, ListMapped DEF Fresh
<1>6. \A i \in DOMAIN A :
        /\ EntryOK(B[i]) /\ B[i].id = A[i].id /\ B[i].url = A[i].url
        /\ CardUrl(B[i]) = None /\ B[i].card = A[i].card
  BY <1>3, <1>4, EntryMarked DEF Fresh, New, Alike
<1>7. Fresh(B, n) BY <1>3, <1>5, <1>6 DEF Fresh, New
<1>8. ASSUME NEW i \in DOMAIN A, NEW j \in DOMAIN A, i # j
      PROVE  Apart(B[i], B[j])
  <2> SUFFICES ASSUME ByUrl(B[i]), ByUrl(B[j]) PROVE Apart(B[i], B[j])
    BY DEF Apart
  <2>1. SharedList[i].card = None /\ SharedList[j].card = None
    BY <1>3, <1>6 DEF ByUrl
  <2>2. SharedList[i].cardUrl # SharedList[j].cardUrl
    BY <1>3, <1>8, <2>1, ValuesAssumption
  <2>3. B[i].url # B[j].url BY <1>3, <1>6, <2>2
  <2>4. B[i].url # None /\ B[j].url # None
    BY <1>6, ValuesAssumption DEF EntryOK, Refers, ByUrl
  <2> QED BY <1>6, <2>3, <2>4 DEF Apart
<1> QED BY <1>5, <1>6, <1>7, <1>8 DEF B
-----------------------------------------------------------------------------
(* Several actions of the store, one after the other.                      *)
LEMMA UsedBoth ==
  ASSUME NEW l, NEW n \in Nat, ListOK(l, n), NEW m, NEW k \in Nat, n <= k, NEW p,
         KeepsUsed(l, m), Preserves(m, k, p), KeepsUsed(m, p)
  PROVE  KeepsUsed(l, p)
<1>1. ASSUME NEW i \in DOMAIN l, NEW j \in DOMAIN p, l[i].id = p[j].id
      PROVE  InUse(l[i], p[j])
  <2>1. l[i].id < n /\ l[i].id \in Nat BY DEF ListOK, EntryOK, EntryTyped
  <2>2. p[j].id < k BY <1>1, <2>1
  <2>3. PICK h \in DOMAIN m : m[h].id = p[j].id BY <2>2 DEF Preserves
  <2>4. InUse(l[i], m[h]) /\ InUse(m[h], p[j]) BY <1>1, <2>3 DEF KeepsUsed
  <2> QED BY <2>4 DEF InUse
<1> QED BY <1>1 DEF KeepsUsed

LEMMA StaysBoth ==
  ASSUME NEW s, NEW n, StoreOK(s, n), NEW t, NEW k, n <= k, NEW u, NEW h,
         Stays(s, n, t, k), Stays(t, k, u, h)
  PROVE  /\ Stays(s, n, u, h)
         /\ (StaysUsed(s, n, t, k) /\ StaysUsed(t, k, u, h)
               => StaysUsed(s, n, u, h))
<1>1. n \in Nat /\ k \in Nat /\ ListOK(s.agents, n)
  BY DEF StoreOK, ListOK, Stays
<1>2. \A j \in DOMAIN u.agents : u.agents[j].id \in Nat
  BY DEF Stays, StoreOK, ListOK, EntryOK, EntryTyped
<1>3. Preserves(s.agents, n, t.agents) /\ Preserves(t.agents, k, u.agents)
  BY DEF Stays
<1>4. Preserves(s.agents, n, u.agents) BY <1>1, <1>2, <1>3, PreservesBoth
<1>5. Stays(s, n, u, h) BY <1>4 DEF Stays
<1>6. KeepsUsed(s.agents, t.agents) /\ KeepsUsed(t.agents, u.agents)
        => KeepsUsed(s.agents, u.agents)
  BY <1>1, <1>3, UsedBoth
<1> QED BY <1>5, <1>6 DEF StaysUsed

LEMMA StaysLater ==
  ASSUME NEW s, NEW n, StoreOK(s, n), NEW k \in Nat, n <= k
  PROVE  StaysUsed(s, n, s, k)
<1>1. StoreOK(s, k) BY ListLater DEF StoreOK
<1> QED BY <1>1, StoreSelf DEF StaysUsed, Stays

(* What is saved can be read.                                              *)
LEMMA CatalogKept ==
  ASSUME NEW l, NEW n, ListOK(l, n)
  PROVE  CatalogOK(ToCatalog(l))
<1> DEFINE P(kind) == {i \in DOMAIN l : ~ IsEcho(l[i]) /\ l[i].kind = kind}
           a == Picked(l, P("card"))
           b == Picked(l, P("endpoint"))
           A == [i \in DOMAIN a |-> CatalogEntry(a[i])]
           B == [i \in DOMAIN b |-> SavedAgent(b[i])]
           c == ToCatalog(l)
<1>1. c = [entries |-> A, endpoints |-> B] BY DEF ToCatalog
<1>2. P("card") \subseteq DOMAIN l /\ P("endpoint") \subseteq DOMAIN l OBVIOUS
<1>3. \A i \in P("card") : EntryOK(l[i]) /\ l[i].kind = "card"
  BY DEF ListOK
<1> HIDE DEF P, c
<1>4. IsList(a) /\ \A j \in DOMAIN a : EntryOK(a[j]) /\ a[j].kind = "card"
  <2>1. /\ ListOK(a, n)
        /\ \A j \in DOMAIN a : \E i \in P("card") : a[j] = l[i]
    BY <1>2, EntriesPicked
  <2> HIDE DEF a
  <2> QED BY <1>3, <2>1 DEF ListOK
<1>5. IsList(b) /\ \A j \in DOMAIN b : EntryOK(b[j])
  <2>1. ListOK(b, n) BY <1>2, EntriesPicked
  <2> HIDE DEF b
  <2> QED BY <2>1 DEF ListOK
<1> HIDE DEF a, b
<1>6. \A x : SavedAgent(x).custom = x.custom BY DEF SavedAgent
<1>7. IsList(A) /\ DOMAIN A = DOMAIN a
  <2>1. A = [i \in DOMAIN a |-> A[i]] OBVIOUS
  <2> HIDE DEF A
  <2> QED BY <1>4, <2>1, ListMapped
<1>8. IsList(B) /\ DOMAIN B = DOMAIN b
  <2>1. B = [i \in DOMAIN b |-> B[i]] OBVIOUS
  <2> HIDE DEF B
  <2> QED BY <1>5, <2>1, ListMapped
<1>9. ASSUME NEW x, EntryOK(x), x.kind = "card"
      PROVE  EntryAllowed(CatalogEntry(x))
  <2> DEFINE e == CatalogEntry(x)
  <2>1. /\ e.card = x.card /\ e.saved = SavedAgent(x)
        /\ e.cardUrl = IF x.card # None THEN None ELSE EntryUrl(x)
    BY DEF CatalogEntry
  <2>2. x.card \in Cards \cup {None} /\ IsList(x.custom)
    BY <1>9 DEF EntryOK, EntryTyped
  <2>3. x.card = None => EntryUrl(x) \in Refs
    <3>1. CardUrl(x) \in Refs \cup {None}
      <4>1. x.result # None => x.result \in Results
        BY <1>9 DEF EntryOK, EntryTyped
      <4>2. x.result # None => x.result.cardUrl \in Refs \cup {None}
        BY <4>1 DEF Results
      <4> QED BY <4>2 DEF CardUrl
    <3>2. x.card = None => x.url \in Refs BY <1>9 DEF EntryOK, Refers
    <3> QED BY <3>1, <3>2 DEF EntryUrl
  <2> HIDE DEF e
  <2>4. IsList(e.saved.custom) BY <1>6, <2>1, <2>2
  <2>5. EntryAllowed(e) BY <2>1, <2>2, <2>3, <2>4 DEF EntryAllowed
  <2> QED BY <2>5 DEF e
<1>10. \A i \in DOMAIN A : EntryAllowed(A[i]) BY <1>4, <1>7, <1>9
<1>11. \A i \in DOMAIN B : IsList(B[i].custom)
  BY <1>5, <1>6, <1>8 DEF EntryOK, EntryTyped
<1> HIDE DEF A, B
<1>12. c.entries = A /\ c.endpoints = B BY <1>1
<1>13. CatalogOK(c) BY <1>7, <1>8, <1>10, <1>11, <1>12 DEF CatalogOK, CatalogAllowed
<1> QED BY <1>13 DEF c

LEMMA CatalogPicked ==
  ASSUME NEW s, CatalogAllowed(s), NEW P, P \subseteq DOMAIN s
  PROVE  CatalogAllowed(Picked(s, P))
<1> DEFINE p == Picked(s, P)
<1>1. IsList(s) BY DEF CatalogAllowed
<1>2. IsList(p) /\ \A k \in DOMAIN p : Place(P, k) \in P /\ p[k] = s[Place(P, k)]
  BY <1>1, PickedList
<1> HIDE DEF p
<1>3. \A k \in DOMAIN p : EntryAllowed(p[k]) BY <1>2 DEF CatalogAllowed
<1>4. CatalogAllowed(p) BY <1>2, <1>3 DEF CatalogAllowed
<1> QED BY <1>4 DEF p

LEMMA CatalogOne ==
  ASSUME NEW e, EntryAllowed(e)
  PROVE  CatalogAllowed(<<e>>)
<1> DEFINE s == <<e>>
<1>1. IsList(s) /\ DOMAIN s = 1..1 /\ s[1] = e BY ListOfOne
<1> HIDE DEF s
<1>2. \A i \in DOMAIN s : s[i] = e BY <1>1
<1>3. CatalogAllowed(s) BY <1>1, <1>2 DEF CatalogAllowed
<1> QED BY <1>3 DEF s

(* The requests for cards.                                                 *)
FetchOK(f, l, n) ==
  /\ {"id", "ref", "card"} \subseteq DOMAIN f /\ f.id \in Nat /\ f.id < n
  /\ f.card \in Cards \cup {None} /\ (f.card = None => f.ref \in Refs)
  /\ \A i \in DOMAIN l : l[i].id = f.id => l[i].url = f.ref

FetchesOK(fs, l, n) == IsList(fs) /\ \A i \in DOMAIN fs : FetchOK(fs[i], l, n)

LEMMA FetchKept ==
  ASSUME NEW f, NEW l, NEW n \in Nat, FetchOK(f, l, n), NEW m, NEW k \in Nat,
         n <= k, Preserves(l, n, m)
  PROVE  FetchOK(f, m, k)
BY DEF FetchOK, Preserves

LEMMA FetchesKept ==
  ASSUME NEW s, NEW n, StoreOK(s, n), NEW fs, FetchesOK(fs, s.agents, n),
         NEW t, NEW k, n <= k, Stays(s, n, t, k)
  PROVE  FetchesOK(fs, t.agents, k)
<1>1. n \in Nat /\ k \in Nat BY DEF StoreOK, ListOK, Stays
<1>2. Preserves(s.agents, n, t.agents) BY DEF Stays
<1>3. \A i \in DOMAIN fs : FetchOK(fs[i], t.agents, k)
  BY <1>1, <1>2, FetchKept DEF FetchesOK
<1> QED BY <1>3 DEF FetchesOK

LEMMA FetchesMore ==
  ASSUME NEW fs, NEW l, NEW n, FetchesOK(fs, l, n), NEW f, FetchOK(f, l, n)
  PROVE  FetchesOK(Append(fs, f), l, n)
<1> DEFINE gs == Append(fs, f)
<1>1. /\ IsList(gs) /\ \A i \in DOMAIN fs : gs[i] = fs[i]
      /\ gs[Len(fs) + 1] = f /\ DOMAIN gs = 1..(Len(fs) + 1)
  BY ListAppend DEF FetchesOK
<1>2. Len(fs) \in Nat /\ DOMAIN fs = 1..Len(fs) BY ListFacts DEF FetchesOK
<1> HIDE DEF gs
<1>3. ASSUME NEW i \in DOMAIN gs PROVE FetchOK(gs[i], l, n)
  <2>1. CASE i = Len(fs) + 1 BY <1>1, <2>1
  <2>2. CASE i \in DOMAIN fs BY <1>1, <2>2 DEF FetchesOK
  <2> QED BY <1>1, <1>2, <2>1, <2>2
<1>4. FetchesOK(gs, l, n) BY <1>1, <1>3 DEF FetchesOK
<1> QED BY <1>4 DEF gs

LEMMA FetchesLess ==
  ASSUME NEW fs, NEW l, NEW n, FetchesOK(fs, l, n), NEW i \in DOMAIN fs
  PROVE  FetchesOK(RemoveAt(fs, i), l, n)
<1> DEFINE gs == RemoveAt(fs, i)
<1>1. /\ IsList(gs) /\ DOMAIN gs = 1..(Len(fs) - 1)
      /\ \A j \in 1..(Len(fs) - 1) : gs[j] = IF j < i THEN fs[j] ELSE fs[j + 1]
  BY ListRemoved DEF FetchesOK
<1>2. Len(fs) \in Nat /\ DOMAIN fs = 1..Len(fs) BY ListFacts DEF FetchesOK
<1> HIDE DEF gs
<1>3. ASSUME NEW j \in DOMAIN gs PROVE FetchOK(gs[j], l, n)
  <2>1. j \in DOMAIN fs /\ j + 1 \in DOMAIN fs BY <1>1, <1>2
  <2> QED BY <1>1, <2>1 DEF FetchesOK
<1>4. FetchesOK(gs, l, n) BY <1>1, <1>3 DEF FetchesOK
<1> QED BY <1>4 DEF gs

(* An agent whose card can be asked for.                                   *)
Fetchable(a, l, n) ==
  /\ a.id \in Nat /\ a.id < n /\ a.card \in Cards \cup {None}
  /\ (a.card = None => a.url \in Refs)
  /\ \A i \in DOMAIN l : l[i].id = a.id => l[i].url = a.url

LEMMA FetchMade ==
  ASSUME NEW a, NEW l, NEW n, Fetchable(a, l, n)
  PROVE  FetchOK(Fetch(a), l, n)
BY DEF Fetch, FetchOK, Fetchable

LEMMA StoreResolves ==
  ASSUME NEW s, NEW n, StoreOK(s, n), NEW a, Has(s.agents, a.id),
         Fetchable(a, s.agents, n), NEW fs, FetchesOK(fs, s.agents, n)
  PROVE  LET t == Refresh(s, a.id, TRUE)
         IN  StaysUsed(s, n, t, n)
             /\ FetchesOK(Append(fs, Fetch(a)), t.agents, n)
<1> DEFINE t == Refresh(s, a.id, TRUE)
           gs == Append(fs, Fetch(a))
<1>1. StaysUsed(s, n, t, n) BY StoreRefreshed
<1>2. FetchesOK(gs, s.agents, n) BY FetchMade, FetchesMore
<1>3. n <= n BY DEF StoreOK, ListOK
<1> HIDE DEF t, gs
<1>4. FetchesOK(gs, t.agents, n) BY <1>1, <1>2, <1>3, FetchesKept DEF StaysUsed
<1> QED BY <1>1, <1>4 DEF t, gs

LEMMA EntryFetchable ==
  ASSUME NEW l, NEW n, ListOK(l, n), NEW i \in DOMAIN l,
         l[i].kind = "card" \/ l[i].url \in Refs
  PROVE  Fetchable(l[i], l, n) /\ Has(l, l[i].id)
<1>1. EntryOK(l[i]) /\ l[i].id < n BY DEF ListOK
<1>2. \A j \in DOMAIN l : l[j].id = l[i].id => j = i BY DEF ListOK
<1> QED BY <1>1, <1>2 DEF Fetchable, EntryOK, EntryTyped, Refers, Has
-----------------------------------------------------------------------------
(* The inductive invariant of the list.                                    *)
ListInv ==
  /\ StoreOK(store, nextId) /\ nextId \in 1..(LastId + 1)
  /\ FetchesOK(fetches, Entries, nextId) /\ CatalogOK(storage)
  /\ startup \in Startups /\ listSteps \in Nat /\ ready \in BOOLEAN
  /\ ~ ready => fetches = <<>> /\ serving = None

(* What a step that starts from the store s, with IDs from n on, leads to. *)
Grows(s, n) ==
  /\ Stays(s, n, store', nextId') /\ n <= nextId' /\ nextId' \in 1..(LastId + 1)
  /\ FetchesOK(fetches', store'.agents, nextId') /\ CatalogOK(storage')

GrowsUsed(s, n) == Grows(s, n) /\ KeepsUsed(s.agents, store'.agents)

LEMMA ListTurns ==
  ASSUME NEW s, NEW n, Grows(s, n), startup' \in Startups, listSteps' \in Nat,
         ready' \in BOOLEAN, ~ ready' => fetches' = <<>> /\ serving' = None
  PROVE  ListInv'
BY DEF ListInv, Grows, Stays, Entries

LEMMA ListActs ==
  ASSUME ListInv, Acts, NEW r, Others(r), Grows(store, nextId)
  PROVE  ListInv'
BY ListTurns DEF ListInv, Acts, Others

(* An answer; custom interfaces in use stay in use.                        *)
ListKept == ListInv' /\ KeepsUsed(Entries, Entries')

LEMMA ListAnswered ==
  ASSUME ListInv, GrowsUsed(store, nextId),
         ready' = ready, startup' = startup, listSteps' = listSteps,
         ready \/ (fetches' = <<>> /\ serving' = None)
  PROVE  ListKept
<1>1. ListInv' BY ListTurns DEF ListInv, GrowsUsed
<1> QED BY <1>1 DEF GrowsUsed, ListKept, Entries

LEMMA InvFacts ==
  ASSUME ListInv
  PROVE  /\ StoreOK(store, nextId) /\ ListOK(Entries, nextId) /\ IsList(Entries)
         /\ nextId \in 1..(LastId + 1) /\ nextId \in Nat \ {0} /\ nextId <= nextId
         /\ FetchesOK(fetches, store.agents, nextId) /\ CatalogOK(storage)
<1>1. nextId \in 1..(LastId + 1) /\ StoreOK(store, nextId) BY DEF ListInv
<1>2. nextId \in Nat \ {0} /\ nextId <= nextId
  BY <1>1 DEF StoreOK, ListOK
<1> QED BY <1>1, <1>2 DEF ListInv, StoreOK, ListOK, Entries

LEMMA Unmoved ==
  ASSUME ListInv, store' = store, storage' = storage, nextId' = nextId,
         fetches' = fetches
  PROVE  GrowsUsed(store, nextId)
<1>1. StaysUsed(store, nextId, store, nextId) BY InvFacts, StoreSelf
<1> QED BY <1>1, InvFacts DEF GrowsUsed, Grows, StaysUsed

LEMMA GrowsLater ==
  ASSUME NEW s, NEW n, StoreOK(s, n), NEW t, NEW k, n <= k,
         Stays(s, n, t, k), Grows(t, k)
  PROVE  Grows(s, n)
<1>1. Stays(t, k, store', nextId') BY DEF Grows
<1>2. Stays(s, n, store', nextId') BY <1>1, StaysBoth
<1>3. n <= nextId'
  <2>1. n \in Nat /\ k \in Nat /\ nextId' \in Nat
    BY <1>1 DEF StoreOK, ListOK, Stays
  <2>2. k <= nextId' BY DEF Grows
  <2> QED BY <2>1, <2>2
<1> QED BY <1>2, <1>3 DEF Grows

LEMMA GrowsBoth ==
  ASSUME NEW s, NEW n, StoreOK(s, n), NEW t, NEW k, n <= k,
         StaysUsed(s, n, t, k), GrowsUsed(t, k)
  PROVE  GrowsUsed(s, n)
<1>1. Stays(s, n, t, k) /\ Stays(t, k, store', nextId')
      /\ StaysUsed(t, k, store', nextId')
  BY DEF StaysUsed, GrowsUsed, Grows
<1>2. StaysUsed(s, n, store', nextId') /\ Stays(s, n, store', nextId')
  BY <1>1, StaysBoth
<1>3. n <= nextId'
  <2>1. n \in Nat /\ k \in Nat /\ nextId' \in Nat
    BY <1>1 DEF StoreOK, ListOK, Stays
  <2>2. k <= nextId' BY DEF GrowsUsed, Grows
  <2> QED BY <2>1, <2>2
<1> QED BY <1>2, <1>3 DEF StaysUsed, GrowsUsed, Grows

LEMMA Turning ==
  ASSUME NEW s, NEW n, StoreOK(s, n), FetchesOK(fetches, s.agents, n),
         NEW t, NEW k, Stays(s, n, t, k), n <= k, k \in 1..(LastId + 1),
         Becomes(t), nextId' = k,
         fetches' = fetches \/ \E i \in DOMAIN fetches : Drops(i)
  PROVE  /\ Grows(s, n)
         /\ (StaysUsed(s, n, t, k) => GrowsUsed(s, n))
<1>1. store' = t /\ storage' = ToCatalog(t.agents) BY DEF Becomes
<1>2. CatalogOK(storage') BY <1>1, CatalogKept DEF Stays, StoreOK
<1>3. FetchesOK(fetches', s.agents, n) BY FetchesLess DEF Drops
<1>4. FetchesOK(fetches', t.agents, k) BY <1>3, FetchesKept
<1>5. Grows(s, n) BY <1>1, <1>2, <1>4 DEF Grows
<1> QED BY <1>1, <1>5 DEF GrowsUsed, StaysUsed

LEMMA Resolving ==
  ASSUME NEW s, NEW n, StoreOK(s, n), FetchesOK(fetches, s.agents, n),
         n \in 1..(LastId + 1), NEW a, Has(s.agents, a.id),
         Fetchable(a, s.agents, n), Resolve(s, a), nextId' = n
  PROVE  GrowsUsed(s, n)
<1> DEFINE t == Refresh(s, a.id, TRUE)
<1>1. /\ store' = t /\ storage' = ToCatalog(t.agents)
      /\ fetches' = Append(fetches, Fetch(a))
  BY DEF Resolve, Becomes
<1>2. StaysUsed(s, n, t, n) /\ FetchesOK(Append(fetches, Fetch(a)), t.agents, n)
  BY StoreResolves
<1> HIDE DEF t
<1>3. CatalogOK(storage') BY <1>1, <1>2, CatalogKept DEF StaysUsed, Stays, StoreOK
<1>4. n <= n BY DEF StoreOK, ListOK
<1> QED BY <1>1, <1>2, <1>3, <1>4 DEF GrowsUsed, Grows, StaysUsed

(* A change of the entries alone.                                          *)
LEMMA Editing ==
  ASSUME ListInv, NEW m, Changed(Entries, nextId, m),
         Becomes([store EXCEPT !.agents = m]), nextId' = nextId,
         fetches' = fetches \/ \E i \in DOMAIN fetches : Drops(i)
  PROVE  /\ Grows(store, nextId)
         /\ (KeepsUsed(Entries, m) => GrowsUsed(store, nextId))
<1> DEFINE t == [store EXCEPT !.agents = m]
<1>1. /\ Stays(store, nextId, t, nextId)
      /\ (KeepsUsed(Entries, m) => StaysUsed(store, nextId, t, nextId))
  BY InvFacts, StoreChanged DEF Entries
<1> HIDE DEF t
<1>2. Becomes(t) BY DEF t
<1>3. /\ Grows(store, nextId)
      /\ (StaysUsed(store, nextId, t, nextId) => GrowsUsed(store, nextId))
  BY <1>1, <1>2, InvFacts, Turning
<1> QED BY <1>1, <1>3

LEMMA MadeFits ==
  ASSUME NEW n \in 1..(LastId + 1), NEW k \in Nat, Made(n, k)
  PROVE  nextId' = n + k /\ n + k \in 1..(LastId + 1) /\ n <= n + k
BY ListAssumption DEF Made

LEMMA AgentAdded ==
  ASSUME NEW s, NEW n, StoreOK(s, n), n \in 1..(LastId + 1),
         FetchesOK(fetches, s.agents, n), NEW ref \in Refs,
         NEW p, p = None \/ IsList(p), AddAgent(s, s.agents, n, ref, p)
  PROVE  GrowsUsed(s, n)
<1> DEFINE k == FindAgent(s.agents, ref)
           l == s.agents
<1>1. ListOK(l, n) /\ IsList(l) BY DEF StoreOK, ListOK
<1>2. IF k = 0 THEN \A i \in DOMAIN l : ~ FoundBy(l[i], ref)
      ELSE k \in DOMAIN l /\ FoundBy(l[k], ref)
  BY <1>1, FoundAt
<1>3. CASE k # 0
  <2>1. Resolve(s, l[k]) /\ Made(n, 0) BY <1>3 DEF AddAgent
  <2>2. nextId' = n BY <2>1 DEF Made
  <2> HIDE DEF k, l
  <2>3. l[k].url \in Refs
    <3>1. EntryOK(l[k]) BY <1>1, <1>2, <1>3 DEF ListOK
    <3>2. l[k].url = ref \/ (CardUrl(l[k]) = ref /\ ref # None)
      BY <1>2, <1>3 DEF FoundBy
    <3> QED BY <3>1, <3>2 DEF EntryOK, Refers
  <2>4. Fetchable(l[k], l, n) /\ Has(l, l[k].id)
    BY <1>1, <1>2, <1>3, <2>3, EntryFetchable
  <2> QED BY <2>1, <2>2, <2>4, Resolving DEF l
<1>4. CASE k = 0
  <2> DEFINE t == Add(s, n, ref, DefaultSettings, p)
             a == CreateAgent(n, ref, "card")
  <2>1. Resolve(t, a) /\ Made(n, 1) BY <1>4 DEF AddAgent
  <2>2. nextId' = n + 1 /\ n + 1 \in 1..(LastId + 1) /\ n <= n + 1
    BY <2>1, MadeFits
  <2>3. /\ StaysUsed(s, n, t, n + 1) /\ Has(t.agents, n)
        /\ \A i \in DOMAIN t.agents : t.agents[i].id = n => t.agents[i].url = ref
    BY <1>4, StoreAdded
  <2>4. a.id = n /\ a.card = None /\ a.url = ref
    <3>1. Unfetched(a, n, ref) BY CreateAgentIs
    <3> HIDE DEF a
    <3> QED BY <3>1 DEF Unfetched
  <2> HIDE DEF t, a, k
  <2>5. Fetchable(a, t.agents, n + 1) BY <2>3, <2>4 DEF Fetchable
  <2>6. FetchesOK(fetches, t.agents, n + 1)
    BY <2>2, <2>3, FetchesKept DEF StaysUsed
  <2>7. StoreOK(t, n + 1) BY <2>3 DEF StaysUsed, Stays
  <2>8. GrowsUsed(t, n + 1) BY <2>1, <2>2, <2>3, <2>4, <2>5, <2>6, <2>7, Resolving
  <2> QED BY <2>2, <2>3, <2>8, GrowsBoth
<1> QED BY <1>3, <1>4

(* The selected agent, when the page shows one.                            *)
LEMMA SelectedIs ==
  ASSUME ListInv, Center(Selected) # "empty"
  PROVE  /\ Selected \in {Entries[i] : i \in DOMAIN Entries}
         /\ EntryOK(Selected) /\ Selected.id \in Nat /\ Selected.id < nextId
         /\ Has(Entries, Selected.id)
         /\ \A i \in DOMAIN Entries :
              Entries[i].id = Selected.id => Entries[i] = Selected
<1>1. Selected # None BY DEF Center, CardContent
<1>2. PICK i \in DOMAIN Entries : Selected = Entries[i]
  BY <1>1, InvFacts, EntryIs DEF Selected
<1>3. EntryOK(Entries[i]) /\ Entries[i].id < nextId
      /\ \A j \in DOMAIN Entries : i # j => Entries[i].id # Entries[j].id
  BY InvFacts DEF ListOK
<1>4. Entries[i].id \in Nat BY <1>3 DEF EntryOK, EntryTyped
<1>5. Has(Entries, Entries[i].id) BY DEF Has
<1> QED BY <1>2, <1>3, <1>4, <1>5

LEMMA EnterUrlKeeps == ASSUME ListInv, EnterUrl PROVE ListInv'
<1>1. PICK ref \in Refs : AddAgent(store, store.agents, nextId, ref, None)
  BY DEF EnterUrl, Entries
<1>2. GrowsUsed(store, nextId) BY <1>1, InvFacts, AgentAdded
<1> QED BY <1>2, ListActs DEF EnterUrl, GrowsUsed

LEMMA IdleIsCard ==
  ASSUME NEW l, NEW n, ListOK(l, n), NEW i \in DOMAIN l, l[i].status = "idle"
  PROVE  Fetchable(l[i], l, n) /\ Has(l, l[i].id)
<1>1. l[i].kind = "card" BY DEF ListOK, EntryOK, EntryTyped, Tells
<1> QED BY <1>1, EntryFetchable

LEMMA SelectAgentKeeps == ASSUME ListInv, SelectAgent PROVE ListInv'
<1>1. PICK i \in DOMAIN Entries :
        /\ IF Entries[i].status = "idle" THEN Resolve(store, Entries[i])
           ELSE Becomes(Select(store, Entries[i].id)) /\ UNCHANGED fetches
        /\ \E r : Others(r)
  BY DEF SelectAgent
<1>2. nextId' = nextId /\ Acts BY DEF SelectAgent
<1>3. CASE Entries[i].status = "idle"
  <2>1. Fetchable(Entries[i], Entries, nextId) /\ Has(Entries, Entries[i].id)
    BY <1>3, InvFacts, IdleIsCard
  <2>2. GrowsUsed(store, nextId)
    BY <1>1, <1>2, <1>3, <2>1, InvFacts, Resolving DEF Entries
  <2> QED BY <1>1, <1>2, <2>2, ListActs DEF GrowsUsed
<1>4. CASE Entries[i].status # "idle"
  <2> DEFINE t == Select(store, Entries[i].id)
  <2>1. Has(store.agents, Entries[i].id) BY DEF Has, Entries
  <2>2. StaysUsed(store, nextId, t, nextId) BY <2>1, InvFacts, StoreSelected
  <2>3. Becomes(t) /\ fetches' = fetches BY <1>1, <1>4
  <2> HIDE DEF t
  <2>4. Grows(store, nextId)
    BY <1>2, <2>2, <2>3, InvFacts, Turning DEF StaysUsed
  <2> QED BY <1>1, <1>2, <2>4, ListActs
<1> QED BY <1>3, <1>4

LEMMA RemoveAgentKeeps == ASSUME ListInv, RemoveAgent PROVE ListInv'
<1>1. PICK i \in DOMAIN Entries :
        Becomes(RemoveEntries(store, {Entries[i].id}))
  BY DEF RemoveAgent
<1> DEFINE t == RemoveEntries(store, {Entries[i].id})
<1>2. StaysUsed(store, nextId, t, nextId) BY InvFacts, StoreRemoved
<1>3. Becomes(t) /\ nextId' = nextId /\ fetches' = fetches /\ Others({}) /\ Acts
  BY <1>1 DEF RemoveAgent
<1> HIDE DEF t
<1>4. Grows(store, nextId) BY <1>2, <1>3, InvFacts, Turning DEF StaysUsed
<1> QED BY <1>3, <1>4, ListActs

LEMMA FetchCardKeeps == ASSUME ListInv, FetchCard PROVE ListInv'
<1>1. /\ Acts /\ Center(Selected) \in {"idle", "failure"}
      /\ Resolve(store, Selected) /\ nextId' = nextId /\ Others({})
  BY DEF FetchCard
<1>2. Center(Selected) # "empty" BY <1>1
<1>3. EntryOK(Selected) BY <1>2, SelectedIs
<1>4. Selected.kind = "card"
  <2>1. Selected.kind \in {"card", "endpoint"}
        /\ (Selected.kind = "endpoint" => Selected.status # "idle")
    BY <1>3 DEF EntryOK, EntryTyped, Tells
  <2> QED BY <1>1, <2>1 DEF Center, CardContent
<1>5. Fetchable(Selected, Entries, nextId) /\ Has(Entries, Selected.id)
  BY <1>2, <1>4, SelectedIs, InvFacts, EntryFetchable
<1>6. GrowsUsed(store, nextId) BY <1>1, <1>5, InvFacts, Resolving DEF Entries
<1> QED BY <1>1, <1>6, ListActs DEF GrowsUsed

LEMMA PickInterfaceKeeps == ASSUME ListInv, PickInterface PROVE ListInv'
<1>1. /\ Acts /\ Center(Selected) # "empty" /\ nextId' = nextId
      /\ fetches' = fetches /\ Others({})
  BY DEF PickInterface
<1>2. /\ EntryOK(Selected)
      /\ \A i \in DOMAIN Entries :
           Entries[i].id = Selected.id => Entries[i] = Selected
  BY <1>1, SelectedIs
<1> DEFINE Altered(m) == Changed(Entries, nextId, m)
                         /\ Becomes([store EXCEPT !.agents = m])
<1>3. ASSUME NEW m, Altered(m) PROVE ListInv'
  <2>1. Grows(store, nextId) BY <1>1, <1>3, Editing
  <2> QED BY <1>1, <2>1, ListActs
<1>4. ASSUME NEW k \in DOMAIN InterfacesOf(Selected),
             Becomes([store EXCEPT !.agents =
                        SelectInterface(store.agents, Selected.id, k)])
      PROVE  ListInv'
  <2> DEFINE m == SelectInterface(Entries, Selected.id, k)
  <2>1. Changed(Entries, nextId, m) BY <1>2, InvFacts, ListPickSet
  <2> HIDE DEF m
  <2>2. Altered(m) BY <1>4, <2>1 DEF m, Entries
  <2> HIDE DEF Altered
  <2> QED BY <1>3, <2>2
<1>5. ASSUME NEW f,
             Becomes([store EXCEPT !.agents =
                        AddInterface(store.agents, Selected.id, f)])
      PROVE  ListInv'
  <2> DEFINE m == AddInterface(Entries, Selected.id, f)
  <2>1. Changed(Entries, nextId, m) BY InvFacts, ListInterfaceAdded
  <2> HIDE DEF m
  <2>2. Altered(m) BY <1>5, <2>1 DEF m, Entries
  <2> HIDE DEF Altered
  <2> QED BY <1>3, <2>2
<1>6. ASSUME NEW k \in DOMAIN InterfacesOf(Selected),
             k > Len(CardInterfaces(Selected)),
             Becomes([store EXCEPT !.agents =
                        RemoveInterface(store.agents, Selected.id, k)])
      PROVE  ListInv'
  <2> DEFINE m == RemoveInterface(Entries, Selected.id, k)
  <2>0. k \in Nat BY <1>2, EntryInterfaces, ListFacts
  <2>1. Changed(Entries, nextId, m)
    BY <1>2, <1>6, <2>0, InvFacts, ListInterfaceDropped
  <2> HIDE DEF m
  <2>2. Altered(m) BY <1>6, <2>1 DEF m, Entries
  <2> HIDE DEF Altered
  <2> QED BY <1>3, <2>2
<1> HIDE DEF Altered
<1> QED BY <1>4, <1>5, <1>6 DEF PickInterface

LEMMA ChangeDraftKeeps == ASSUME ListInv, ChangeDraft PROVE ListInv'
<1>1. Acts /\ nextId' = nextId /\ fetches' = fetches /\ Others({})
  BY DEF ChangeDraft
<1>2. PICK m : Changed(Entries, nextId, m) /\ Becomes([store EXCEPT !.agents = m])
  <2>1. ASSUME NEW t \in Cards,
               Becomes([store EXCEPT !.agents =
                          Draft(store.agents, Selected.id, t)])
        PROVE  Changed(Entries, nextId, Draft(Entries, Selected.id, t))
    BY InvFacts, ListDrafted
  <2>2. Changed(Entries, nextId, DiscardDraft(Entries, Selected.id))
    BY InvFacts, ListDiscarded
  <2>3. Changed(Entries, nextId, CloseEditor(Entries, Selected.id))
    BY InvFacts, ListClosed
  <2>4. \/ \E t \in Cards : Becomes([store EXCEPT !.agents =
                                       Draft(store.agents, Selected.id, t)])
        \/ Becomes([store EXCEPT !.agents =
                      DiscardDraft(store.agents, Selected.id)])
        \/ Becomes([store EXCEPT !.agents =
                      CloseEditor(store.agents, Selected.id)])
    BY DEF ChangeDraft
  <2> QED BY <2>1, <2>2, <2>3, <2>4 DEF Entries
<1>3. Grows(store, nextId) BY <1>1, <1>2, Editing
<1> QED BY <1>1, <1>3, ListActs

LEMMA FetchableKept ==
  ASSUME NEW l, NEW n \in Nat, NEW a, Fetchable(a, l, n), NEW m, NEW k \in Nat,
         n <= k, Preserves(l, n, m)
  PROVE  Fetchable(a, m, k)
BY DEF Fetchable, Preserves

LEMMA CardOpened ==
  ASSUME ListInv, NEW card \in Cards, OpenNew(card)
  PROVE  Grows(store, nextId)
<1> DEFINE used == {Entries[i].identifier : i \in DOMAIN Entries}
           u == CHOOSE u \in Uuids : u \notin used
           t == NewCard(store, nextId, u, card)
           k == nextId + 1
           a == Entry(t.agents, nextId)
<1>1. Made(nextId, 1) /\ Resolve(t, a) BY DEF OpenNew
<1>2. nextId' = k /\ k \in 1..(LastId + 1) /\ nextId <= k
  BY <1>1, MadeFits, InvFacts
<1> HIDE DEF u
<1>3. /\ StaysUsed(store, nextId, t, k) /\ Has(t.agents, nextId)
      /\ \A i \in DOMAIN t.agents :
           t.agents[i].id = nextId => t.agents[i].kind = "card"
  BY InvFacts, StoreNewCard
<1> HIDE DEF t, k
<1>4. StoreOK(t, k) /\ ListOK(t.agents, k) /\ IsList(t.agents)
  BY <1>3 DEF StaysUsed, Stays, StoreOK, ListOK
<1>5. PICK i \in DOMAIN t.agents : a = t.agents[i] /\ t.agents[i].id = nextId
  BY <1>3, <1>4, EntryIs
<1>6. Fetchable(a, t.agents, k) /\ Has(t.agents, a.id)
  <2>1. Fetchable(t.agents[i], t.agents, k) /\ Has(t.agents, t.agents[i].id)
    BY <1>3, <1>4, <1>5, EntryFetchable
  <2> QED BY <1>5, <2>1
<1> HIDE DEF a
<1>7. FetchesOK(fetches, t.agents, k)
  BY <1>2, <1>3, InvFacts, FetchesKept DEF StaysUsed
<1>8. GrowsUsed(t, k) BY <1>1, <1>2, <1>4, <1>6, <1>7, Resolving
<1>9. GrowsUsed(store, nextId) BY <1>2, <1>3, <1>8, InvFacts, GrowsBoth
<1> QED BY <1>9 DEF GrowsUsed

LEMMA WriteCardKeeps == ASSUME ListInv, WriteCard PROVE ListInv'
<1>1. Grows(store, nextId) BY CardOpened DEF WriteCard
<1> QED BY <1>1, ListActs DEF WriteCard

LEMMA EditAgentKeeps == ASSUME ListInv, EditAgent PROVE ListInv'
<1>1. /\ Acts /\ Center(Selected) = "overview" /\ Others({})
      /\ \/ /\ Becomes([store EXCEPT !.agents = Edit(store.agents, Selected.id)])
            /\ nextId' = nextId /\ fetches' = fetches
         \/ OpenNew(Selected.result.raw)
  BY DEF EditAgent
<1>2. CASE OpenNew(Selected.result.raw)
  <2>1. EntryOK(Selected) BY <1>1, SelectedIs
  <2>2. Selected.result # None
    BY <1>1, <2>1 DEF Center, CardContent, EntryOK, EntryTyped, Tells
  <2>3. Selected.result \in Results
    BY <2>1, <2>2 DEF EntryOK, EntryTyped
  <2>4. Selected.result.raw \in Cards BY <2>3 DEF Results
  <2>5. Grows(store, nextId) BY <1>2, <2>4, CardOpened
  <2> QED BY <1>1, <2>5, ListActs
<1>3. CASE /\ Becomes([store EXCEPT !.agents = Edit(store.agents, Selected.id)])
           /\ nextId' = nextId /\ fetches' = fetches
  <2> DEFINE m == Edit(Entries, Selected.id)
  <2>1. Changed(Entries, nextId, m) BY InvFacts, ListEdited
  <2>2. Becomes([store EXCEPT !.agents = m]) BY <1>3 DEF Entries
  <2> HIDE DEF m
  <2>3. Grows(store, nextId) BY <1>3, <2>1, <2>2, Editing
  <2> QED BY <1>1, <2>3, ListActs
<1> QED BY <1>1, <1>2, <1>3

(* The card in the editor is saved, and fetched again.                     *)
LEMMA CardSaved ==
  ASSUME ListInv, Center(Selected) = "editor", Saving(Selected), nextId' = nextId
  PROVE  Grows(store, nextId)
<1> DEFINE card == Selected.draft.text
           m == SaveCard(Entries, Selected.id, card)
           t == [store EXCEPT !.agents = m]
           a == [Selected EXCEPT !.card = card]
<1>1. Resolve(t, a) BY DEF Saving, Entries
<1>2. /\ Selected \in {Entries[i] : i \in DOMAIN Entries}
      /\ EntryOK(Selected) /\ Selected.id \in Nat /\ Selected.id < nextId
      /\ Has(Entries, Selected.id)
      /\ \A i \in DOMAIN Entries :
           Entries[i].id = Selected.id => Entries[i] = Selected
  BY SelectedIs
<1>3. card \in Cards
  <2>1. Selected.draft # None BY DEF Center, CardContent
  <2>2. Selected.draft \in CardDrafts BY <1>2, <2>1 DEF EntryOK, EntryTyped
  <2> QED BY <2>2 DEF CardDrafts
<1>4. /\ a.id = Selected.id /\ a.url = Selected.url /\ a.card = card
  BY <1>2 DEF EntryOK, EntryTyped, ReadFields
<1> HIDE DEF card
<1>5. Changed(Entries, nextId, m) BY <1>3, InvFacts, ListCardSaved
<1> HIDE DEF m, a
<1>6. Stays(store, nextId, t, nextId) /\ t.agents = m
  BY <1>5, InvFacts, StoreChanged DEF Entries
<1>7. Has(m, a.id) BY <1>2, <1>4, <1>5 DEF Changed, Has
<1>8. Fetchable(a, m, nextId)
  <2>1. \A j \in DOMAIN m : m[j].id = a.id => m[j].url = a.url
    BY <1>2, <1>4, <1>5 DEF Changed, Preserves
  <2>2. card # None BY <1>3, ValuesAssumption
  <2> QED BY <1>2, <1>3, <1>4, <2>1, <2>2 DEF Fetchable
<1> HIDE DEF t
<1>9. FetchesOK(fetches, t.agents, nextId) BY <1>6, InvFacts, FetchesKept
<1>10. GrowsUsed(t, nextId)
  BY <1>1, <1>6, <1>7, <1>8, <1>9, InvFacts, Resolving DEF Stays
<1> QED BY <1>6, <1>10, InvFacts, GrowsLater DEF GrowsUsed

LEMMA SaveDraftKeeps == ASSUME ListInv, SaveDraft PROVE ListInv'
<1>1. Grows(store, nextId) BY CardSaved DEF SaveDraft
<1> QED BY <1>1, ListActs DEF SaveDraft

LEMMA ServeKeeps == ASSUME ListInv, Serve PROVE ListInv'
<1>1. /\ Acts /\ Center(Selected) = "editor" /\ nextId' = nextId /\ Others({})
      /\ IF Unsaved(Selected) THEN Saving(Selected)
         ELSE store' = store /\ storage' = storage /\ fetches' = fetches
  BY DEF Serve
<1>2. Grows(store, nextId) BY <1>1, CardSaved, Unmoved DEF GrowsUsed
<1> QED BY <1>1, <1>2, ListActs

(* An entry that is added and fetched.                                     *)
LEMMA EntryGrows ==
  ASSUME NEW s, NEW n, StoreOK(s, n), n \in 1..(LastId + 1),
         FetchesOK(fetches, s.agents, n), NEW e, New(e, n), NEW x,
         CardUrl(e) = None \/ ~ ByUrl(e), e.kind = "card",
         SameAt(s.agents, e) = 0, Made(n, 1),
         Resolve(AddEntries(s, <<e>>, x), e)
  PROVE  GrowsUsed(s, n)
<1> DEFINE t == AddEntries(s, <<e>>, x)
           k == n + 1
<1>1. nextId' = k /\ k \in 1..(LastId + 1) /\ n <= k /\ n \in Nat
  BY MadeFits
<1>2. Fresh(<<e>>, n) /\ Len(<<e>>) = 1 BY <1>1, FreshOne
<1>3. StaysUsed(s, n, t, n + Len(<<e>>)) BY <1>2, StoreEntries
<1>4. t = AddEntry(s, e, x) BY AddsOne
<1>5. Resolve(t, e) OBVIOUS
<1> HIDE DEF t
<1>6. StaysUsed(s, n, t, k) BY <1>2, <1>3
<1>7. Has(t.agents, n) /\ \A i \in DOMAIN t.agents :
                            t.agents[i].id = n => t.agents[i] = e
  BY <1>4, StoreEntry
<1> HIDE DEF k
<1>8. StoreOK(t, k) /\ ListOK(t.agents, k)
  BY <1>6 DEF StaysUsed, Stays, StoreOK
<1>9. PICK i \in DOMAIN t.agents : t.agents[i] = e BY <1>7 DEF Has
<1>10. Fetchable(e, t.agents, k) /\ Has(t.agents, e.id)
  <2>1. Fetchable(t.agents[i], t.agents, k) /\ Has(t.agents, t.agents[i].id)
    BY <1>8, <1>9, EntryFetchable
  <2> QED BY <1>9, <2>1
<1>11. FetchesOK(fetches, t.agents, k) BY <1>1, <1>6, FetchesKept DEF StaysUsed
<1>12. GrowsUsed(t, k) BY <1>1, <1>5, <1>8, <1>10, <1>11, Resolving
<1> QED BY <1>1, <1>6, <1>12, GrowsBoth

LEMMA ServedKeeps == ASSUME ListInv, Served PROVE ListKept
<1> DEFINE left == RemoveEntries(store, serving.old)
           e == EchoEntry(nextId, serving.source)
<1>1. /\ serving # None /\ serving' = None /\ Others({}) /\ listSteps' = listSteps
      /\ \/ /\ Made(nextId, 1)
            /\ Resolve(AddEntries(left, <<e>>, nextId), e)
         \/ /\ store' = store /\ storage' = storage
            /\ fetches' = fetches /\ nextId' = nextId
  BY DEF Served
<1>2. StaysUsed(store, nextId, left, nextId) BY InvFacts, StoreRemoved
<1>3. New(e, nextId) /\ ~ ByUrl(e) /\ e.kind = "card" /\ e.echo.id = nextId
  BY InvFacts, EntryForEcho
<1> HIDE DEF left, e
<1>4. ready BY <1>1 DEF ListInv
<1>5. StoreOK(left, nextId) /\ ListOK(left.agents, nextId) /\ IsList(left.agents)
  BY <1>2 DEF StaysUsed, Stays, StoreOK, ListOK
<1>6. SameAt(left.agents, e) = 0
  <2>1. ASSUME NEW i \in DOMAIN left.agents
        PROVE  ~ SameAgent(left.agents[i], e)
    <3>1. left.agents[i].echo.id \in {0, left.agents[i].id}
          /\ left.agents[i].id < nextId /\ left.agents[i].id \in Nat
      BY <1>5 DEF ListOK, EntryOK, EntryTyped
    <3>2. nextId \in Nat \ {0} BY InvFacts
    <3>3. left.agents[i].echo.id # nextId BY <3>1, <3>2
    <3>4. IsEcho(e) BY <1>3, <3>2 DEF IsEcho
    <3> QED BY <1>3, <3>3, <3>4 DEF SameAgent
  <2> QED BY <1>5, <2>1, SameAtIs
<1>7. FetchesOK(fetches, left.agents, nextId)
  BY <1>2, InvFacts, FetchesKept DEF StaysUsed
<1>8. CASE Made(nextId, 1) /\ Resolve(AddEntries(left, <<e>>, nextId), e)
  <2>1. GrowsUsed(left, nextId)
    BY <1>3, <1>5, <1>6, <1>7, <1>8, InvFacts, EntryGrows
  <2>2. GrowsUsed(store, nextId) BY <1>2, <2>1, InvFacts, GrowsBoth
  <2> QED BY <1>1, <1>4, <2>2, ListAnswered DEF Others
<1>9. CASE store' = store /\ storage' = storage
           /\ fetches' = fetches /\ nextId' = nextId
  BY <1>1, <1>4, <1>9, Unmoved, ListAnswered DEF Others
<1> QED BY <1>1, <1>8, <1>9

LEMMA CatalogStepsKeep ==
  ASSUME ListInv, ListCatalog \/ CloseCatalog \/ Import
  PROVE  ListInv'
<1>1. /\ Acts /\ store' = store /\ storage' = storage /\ nextId' = nextId
      /\ fetches' = fetches /\ \E r : Others(r)
  BY DEF ListCatalog, CloseCatalog, Import
<1>2. Grows(store, nextId) BY <1>1, Unmoved DEF GrowsUsed
<1> QED BY <1>1, <1>2, ListActs

(* Entries are added and not fetched.                                      *)
LEMMA EntriesGrow ==
  ASSUME ListInv, NEW es, Fresh(es, nextId), NEW x, NEW k, k = Len(es),
         Made(nextId, k), Becomes(AddEntries(store, es, x)), fetches' = fetches
  PROVE  GrowsUsed(store, nextId)
<1> DEFINE t == AddEntries(store, es, x)
           m == nextId + k
<1>1. k \in Nat BY ListFacts DEF Fresh
<1>2. nextId' = m /\ m \in 1..(LastId + 1) /\ nextId <= m
  BY <1>1, InvFacts, MadeFits
<1>3. StaysUsed(store, nextId, t, nextId + Len(es)) BY InvFacts, StoreEntries
<1>4. Becomes(t) OBVIOUS
<1> HIDE DEF t
<1>5. StaysUsed(store, nextId, t, m) BY <1>3
<1> HIDE DEF m
<1> QED BY <1>2, <1>4, <1>5, InvFacts, Turning DEF StaysUsed

(* An agent of the list that a new entry is the same as is fetched.        *)
LEMMA SameFetched ==
  ASSUME ListInv, NEW e, New(e, nextId), CardUrl(e) = None, e.kind = "card",
         ~ IsEcho(e), SameAt(Entries, e) # 0, NEW x, Made(nextId, 1),
         Resolve(AddEntries(store, <<e>>, x), Entries[SameAt(Entries, e)])
  PROVE  GrowsUsed(store, nextId)
<1> DEFINE t == AddEntries(store, <<e>>, x)
           k == SameAt(Entries, e)
           m == nextId + 1
           a == Entries[k]
<1>1. k \in DOMAIN Entries /\ SameAgent(a, e) BY InvFacts, SameAtIs
<1>2. a.kind = "card"
  <2>1. EntryOK(a) BY <1>1, InvFacts DEF ListOK
  <2>2. a.kind \in {"card", "endpoint"} BY <2>1 DEF EntryOK, EntryTyped
  <2> QED BY <1>1, <2>2 DEF SameAgent, IsEcho
<1>3. Fetchable(a, Entries, nextId) /\ Has(Entries, a.id)
  BY <1>1, <1>2, InvFacts, EntryFetchable
<1>4. nextId' = m /\ m \in 1..(LastId + 1) /\ nextId <= m
  BY InvFacts, MadeFits
<1>5. Fresh(<<e>>, nextId) /\ Len(<<e>>) = 1 BY InvFacts, FreshOne
<1>6. StaysUsed(store, nextId, t, nextId + Len(<<e>>)) /\ Extends(Entries, t.agents)
  BY <1>5, InvFacts, StoreEntries DEF Entries
<1>7. Resolve(t, a) OBVIOUS
<1> HIDE DEF t, k, a
<1>8. StaysUsed(store, nextId, t, m) BY <1>5, <1>6
<1>9. StoreOK(t, m) /\ ListOK(t.agents, m) /\ m \in Nat
  BY <1>8 DEF StaysUsed, Stays, StoreOK, ListOK
<1> HIDE DEF m
<1>10. Fetchable(a, t.agents, m)
  BY <1>3, <1>4, <1>8, <1>9, InvFacts, FetchableKept DEF StaysUsed, Stays, Entries
<1>11. Has(t.agents, a.id) BY <1>3, <1>6, <1>9, ExtendsUsed
<1>12. FetchesOK(fetches, t.agents, m)
  BY <1>4, <1>8, InvFacts, FetchesKept DEF StaysUsed
<1>13. GrowsUsed(t, m) BY <1>4, <1>7, <1>9, <1>10, <1>11, <1>12, Resolving
<1> QED BY <1>4, <1>8, <1>13, InvFacts, GrowsBoth

LEMMA AddFromCatalogKeeps == ASSUME ListInv, AddFromCatalog PROVE ListInv'
<1> DEFINE new(l) == {i \in DOMAIN Listings[l] :
                        ~ IsListed(Entries, Listings[l][i])}
           unlisted(l) == Picked(Listings[l], new(l))
           added(some) == AgentsFromCatalog(Listed(some), nextId)
<1>1. PICK l \in DOMAIN Listings :
        \/ /\ Made(nextId, Len(unlisted(l))) /\ fetches' = fetches
           /\ Becomes(AddEntries(store, added(unlisted(l)), None))
        \/ \E i \in DOMAIN unlisted(l) :
             LET e == added(<<unlisted(l)[i]>>)[1]
             IN  /\ Made(nextId, 1)
                 /\ Resolve(AddEntries(store, <<e>>, e.id),
                            IF SameAt(Entries, e) = 0 THEN e
                            ELSE Entries[SameAt(Entries, e)])
  BY DEF AddFromCatalog
<1>2. Acts /\ Others({}) BY DEF AddFromCatalog
<1> DEFINE u == unlisted(l)
<1>3. CatalogAllowed(u)
  <2>1. CatalogAllowed(Listings[l]) BY ValuesAssumption
  <2>2. new(l) \subseteq DOMAIN Listings[l] OBVIOUS
  <2> HIDE DEF new
  <2> QED BY <2>1, <2>2, CatalogPicked
<1>4. CASE /\ Made(nextId, Len(u)) /\ fetches' = fetches
           /\ Becomes(AddEntries(store, added(u), None))
  <2> HIDE DEF unlisted
  <2>1. Fresh(added(u), nextId) /\ Len(added(u)) = Len(u)
    BY <1>3, InvFacts, ListedFresh
  <2> HIDE DEF added
  <2>2. GrowsUsed(store, nextId) BY <1>4, <2>1, EntriesGrow
  <2> QED BY <1>2, <2>2, ListActs DEF GrowsUsed
<1>5. ASSUME NEW i \in DOMAIN u, NEW e, e = added(<<u[i]>>)[1],
             Made(nextId, 1),
             Resolve(AddEntries(store, <<e>>, e.id),
                     IF SameAt(Entries, e) = 0 THEN e
                     ELSE Entries[SameAt(Entries, e)])
      PROVE  ListInv'
  <2> HIDE DEF unlisted
  <2> DEFINE s == <<u[i]>>
             A == added(s)
  <2>1. CatalogAllowed(s) /\ 1 \in DOMAIN s
    BY <1>3, CatalogOne, ListOfOne DEF CatalogAllowed
  <2> HIDE DEF s, u
  <2>2. Fresh(A, nextId) /\ DOMAIN A = DOMAIN s
        /\ CardUrl(A[1]) = None /\ A[1].kind = "card" /\ ~ IsEcho(A[1])
    BY <2>1, InvFacts, ListedFresh
  <2>3. e = A[1] BY <1>5 DEF s, u
  <2> HIDE DEF A
  <2>4. New(e, nextId) /\ CardUrl(e) = None /\ e.kind = "card" /\ ~ IsEcho(e)
    <3>1. New(A[1], nextId + (1 - 1)) BY <2>1, <2>2 DEF Fresh
    <3>2. nextId + (1 - 1) = nextId BY InvFacts
    <3> QED BY <2>2, <2>3, <3>1, <3>2
  <2>5. GrowsUsed(store, nextId)
    <3>1. CASE SameAt(Entries, e) = 0
      BY <1>5, <2>4, <3>1, InvFacts, EntryGrows DEF Entries
    <3>2. CASE SameAt(Entries, e) # 0
      BY <1>5, <2>4, <3>2, SameFetched
    <3> QED BY <3>1, <3>2
  <2> QED BY <1>2, <2>5, ListActs DEF GrowsUsed
<1> QED BY <1>1, <1>4, <1>5

LEMMA SelectHostKeeps == ASSUME ListInv, SelectHost PROVE ListInv'
<1> DEFINE idle == {i \in DOMAIN Entries : Entries[i].status = "idle"}
           todo == Picked(Entries, idle)
           m == [i \in DOMAIN Entries |->
                   IF i \in idle THEN Loading(Entries[i]) ELSE Entries[i]]
           sent == [i \in DOMAIN todo |-> Fetch(todo[i])]
<1>1. /\ Acts /\ Becomes(State(m, HostId)) /\ fetches' = fetches \o sent
      /\ Others({}) /\ nextId' = nextId
  BY DEF SelectHost
<1>2. Changed(Entries, nextId, m) /\ KeepsUsed(Entries, m)
  <2>1. ASSUME NEW i \in DOMAIN Entries
        PROVE  EntryOK(m[i]) /\ Alike(Entries[i], m[i]) /\ InUse(Entries[i], m[i])
    <3>1. EntryOK(Entries[i]) BY InvFacts DEF ListOK
    <3>2. m[i] \in {Loading(Entries[i]), Entries[i]} OBVIOUS
    <3> HIDE DEF m
    <3> QED BY <3>1, <3>2, EntryLoading, AlikeSelf
  <2>2. m = [i \in DOMAIN Entries |-> m[i]] OBVIOUS
  <2> HIDE DEF m
  <2>3. Changed(Entries, nextId, m) BY <2>1, <2>2, InvFacts, EntriesChanged
  <2>4. \A i \in DOMAIN Entries : InUse(Entries[i], m[i]) /\ m[i].id = Entries[i].id
    BY <2>1 DEF Alike
  <2>5. KeepsUsed(Entries, m) BY <2>2, <2>4, InvFacts, EntriesUsed
  <2> QED BY <2>3, <2>5
<1> DEFINE t == State(m, HostId)
<1> HIDE DEF m
<1>3. Stays(store, nextId, t, nextId)
  BY <1>2, InvFacts, StoreShowing DEF Entries
<1>4. FetchesOK(fetches \o sent, Entries, nextId)
  <2>1. IsList(todo) /\ \A k \in DOMAIN todo : \E i \in idle : todo[k] = Entries[i]
    <3>1. idle \subseteq DOMAIN Entries OBVIOUS
    <3> HIDE DEF idle
    <3> QED BY <3>1, InvFacts, PickedList
  <2>2. \A k \in DOMAIN todo : \E i \in DOMAIN Entries :
          todo[k] = Entries[i] /\ Entries[i].status = "idle"
    BY <2>1
  <2> HIDE DEF todo
  <2>3. ASSUME NEW k \in DOMAIN todo PROVE FetchOK(Fetch(todo[k]), Entries, nextId)
    <3>1. PICK i \in DOMAIN Entries :
            todo[k] = Entries[i] /\ Entries[i].status = "idle"
      BY <2>2
    <3>2. Fetchable(Entries[i], Entries, nextId) BY <3>1, InvFacts, IdleIsCard
    <3> QED BY <3>1, <3>2, FetchMade
  <2>4. sent = [k \in DOMAIN todo |-> sent[k]]
        /\ \A k \in DOMAIN todo : sent[k] = Fetch(todo[k])
    OBVIOUS
  <2> HIDE DEF sent
  <2>5. IsList(sent) /\ DOMAIN sent = DOMAIN todo BY <2>1, <2>4, ListMapped
  <2> DEFINE all == fetches \o sent
  <2>6. IsList(fetches) /\ \A i \in DOMAIN fetches : FetchOK(fetches[i], Entries, nextId)
    BY InvFacts DEF FetchesOK, Entries
  <2>7. IsList(all) BY <2>5, <2>6, ListConcat
  <2>8. ASSUME NEW k \in DOMAIN all PROVE FetchOK(all[k], Entries, nextId)
    <3>1. CASE k \in DOMAIN fetches
      <4>1. all[k] = fetches[k] BY <2>5, <2>6, <3>1, ListConcat
      <4> HIDE DEF all
      <4> QED BY <2>6, <3>1, <4>1
    <3>2. CASE \E j \in DOMAIN sent : k = Len(fetches) + j
      <4>1. PICK j \in DOMAIN sent : k = Len(fetches) + j BY <3>2
      <4>2. all[k] = sent[j] BY <2>5, <2>6, <4>1, ListSecond
      <4> HIDE DEF all
      <4> QED BY <2>3, <2>4, <2>5, <4>2
    <3>3. k \in DOMAIN fetches \/ \E j \in DOMAIN sent : k = Len(fetches) + j
      BY <2>5, <2>6, ListSplits
    <3> QED BY <3>1, <3>2, <3>3
  <2> HIDE DEF all
  <2>9. FetchesOK(all, Entries, nextId) BY <2>7, <2>8 DEF FetchesOK
  <2> QED BY <2>9 DEF all
<1> DEFINE fs == fetches \o sent
<1> HIDE DEF fs, t
<1>5. FetchesOK(fs, t.agents, nextId)
  BY <1>3, <1>4, InvFacts, FetchesKept DEF fs, Entries
<1>6. store' = t /\ storage' = ToCatalog(t.agents) /\ fetches' = fs
  BY <1>1 DEF Becomes, t, fs
<1>7. CatalogOK(storage') BY <1>3, <1>6, CatalogKept DEF Stays, StoreOK
<1>8. Grows(store, nextId)
  BY <1>1, <1>3, <1>5, <1>6, <1>7, InvFacts DEF Grows
<1> QED BY <1>1, <1>8, ListActs

(* Answers.                                                                *)
LEMMA ResultIs ==
  ASSUME NEW f, f.card \in Cards \cup {None}, f.card = None => f.ref \in Refs,
         NEW ok \in BOOLEAN, NEW offer \in Offers \cup {<<>>}
  PROVE  LET r == CardResult(f, ok, offer)
         IN  r \in Results /\ ResultFits(r)
             /\ (r.cardUrl # None => f.card = None)
<1> DEFINE r == CardResult(f, ok, offer)
           u == IF f.card = None THEN Leads[f.ref] ELSE None
           w == IF f.card = None THEN CHOOSE c \in Cards : TRUE ELSE f.card
           d == Default(offer)
<1>1. r = [ok |-> ok, cardUrl |-> u, raw |-> w, interfaces |-> offer,
           default |-> d]
  BY DEF CardResult
<1>2. IsList(offer) BY ValuesAssumption, ListOfNone
<1>3. d \in 0..Len(offer) /\ d \in Nat
  <2>1. d \in 0..Len(offer) BY <1>2, ListOfNone, PreferredIs DEF Default
  <2>2. Len(offer) \in Nat BY <1>2, ListFacts
  <2> HIDE DEF d
  <2> QED BY <2>1, <2>2
<1>4. w \in Cards BY ValuesAssumption
<1>5. u \in Refs \cup {None} BY ListAssumption
<1>6. u # None => f.card = None OBVIOUS
<1> HIDE DEF r, u, w, d
<1>7. r.cardUrl = u /\ r.interfaces = offer /\ r.default = d BY <1>1
<1>8. r \in Results BY <1>1, <1>3, <1>4, <1>5 DEF Results
<1> QED BY <1>3, <1>6, <1>7, <1>8 DEF ResultFits, r

LEMMA CardCameKeeps == ASSUME ListInv, CardCame PROVE ListKept
<1>1. PICK i \in DOMAIN fetches :
        /\ Drops(i)
        /\ \/ \E ok \in BOOLEAN, offer \in Offers \cup {<<>>} :
                Becomes(Resolved(store, fetches[i].id,
                                 CardResult(fetches[i], ok, offer)))
           \/ Becomes([store EXCEPT !.agents =
                         Failed(store.agents, fetches[i].id)])
  BY DEF CardCame
<1>2. nextId' = nextId /\ Others({}) /\ serving' = serving /\ listSteps' = listSteps
  BY DEF CardCame
<1>3. ready
  <2>1. DOMAIN fetches = 1..Len(fetches) /\ Len(fetches) \in Nat
    BY InvFacts, ListFacts DEF FetchesOK
  <2>2. Len(<<>>) = 0 BY EmptySeq
  <2>3. fetches # <<>> BY <2>1, <2>2
  <2> QED BY <2>3 DEF ListInv
<1> DEFINE f == fetches[i]
<1>4. FetchOK(f, Entries, nextId) BY InvFacts DEF FetchesOK, Entries
<1>5. GrowsUsed(store, nextId)
  <2>1. ASSUME NEW ok \in BOOLEAN, NEW offer \in Offers \cup {<<>>},
               Becomes(Resolved(store, f.id, CardResult(f, ok, offer)))
        PROVE  GrowsUsed(store, nextId)
    <3> HIDE DEF f
    <3> DEFINE r == CardResult(f, ok, offer)
               t == Resolved(store, f.id, r)
    <3>1. r \in Results /\ ResultFits(r) /\ (r.cardUrl # None => f.card = None)
      BY <1>4, ResultIs DEF FetchOK
    <3> HIDE DEF r
    <3>2. \A j \in DOMAIN Entries : Entries[j].id = f.id /\ r.cardUrl # None
                                      => Entries[j].url \in Refs
      BY <1>4, <3>1 DEF FetchOK
    <3>3. StaysUsed(store, nextId, t, nextId)
      BY <3>1, <3>2, InvFacts, StoreResolved DEF Entries
    <3>4. Becomes(t) BY <2>1 DEF r
    <3> HIDE DEF t
    <3> QED BY <1>1, <1>2, <3>3, <3>4, InvFacts, Turning DEF StaysUsed
  <2>2. ASSUME Becomes([store EXCEPT !.agents = Failed(store.agents, f.id)])
        PROVE  GrowsUsed(store, nextId)
    <3> HIDE DEF f
    <3> DEFINE m == Failed(Entries, f.id)
    <3>1. Changed(Entries, nextId, m) /\ KeepsUsed(Entries, m)
      BY InvFacts, ListFailed
    <3>2. Becomes([store EXCEPT !.agents = m]) BY <2>2 DEF Entries
    <3> HIDE DEF m
    <3> QED BY <1>1, <1>2, <3>1, <3>2, Editing
  <2> QED BY <1>1, <2>1, <2>2
<1> QED BY <1>2, <1>3, <1>5, ListAnswered DEF Others

LEMMA CardRenewedKeeps == ASSUME ListInv, CardRenewed PROVE ListKept
<1>1. PICK i \in DOMAIN fetches : fetches' = [fetches EXCEPT ![i].again = TRUE]
  BY DEF CardRenewed
<1>2. /\ Becomes([store EXCEPT !.agents = SessionReset(store.agents)])
      /\ nextId' = nextId /\ Others({}) /\ serving' = serving
      /\ listSteps' = listSteps
  BY DEF CardRenewed
<1>3. ready
  <2>1. DOMAIN fetches = 1..Len(fetches) /\ Len(fetches) \in Nat
    BY InvFacts, ListFacts DEF FetchesOK
  <2>2. Len(<<>>) = 0 BY EmptySeq
  <2>3. fetches # <<>> BY <2>1, <2>2
  <2> QED BY <2>3 DEF ListInv
<1> DEFINE fs == [fetches EXCEPT ![i].again = TRUE]
<1>4. FetchesOK(fs, Entries, nextId)
  <2>1. fs = [j \in DOMAIN fetches |-> fs[j]] OBVIOUS
  <2>2. \A j \in DOMAIN fetches :
          fs[j] = IF j = i THEN [fetches[i] EXCEPT !.again = TRUE] ELSE fetches[j]
    OBVIOUS
  <2> HIDE DEF fs
  <2>3. IsList(fs) /\ DOMAIN fs = DOMAIN fetches
    BY <2>1, InvFacts, ListMapped DEF FetchesOK
  <2>4. ASSUME NEW j \in DOMAIN fetches PROVE FetchOK(fs[j], Entries, nextId)
    <3>1. FetchOK(fetches[j], Entries, nextId) BY InvFacts DEF FetchesOK, Entries
    <3> DEFINE f == fetches[j]
               g == [f EXCEPT !.again = TRUE]
    <3>2. /\ DOMAIN g = DOMAIN f
          /\ g.id = f.id /\ g.ref = f.ref /\ g.card = f.card
      BY <3>1 DEF FetchOK
    <3>3. fs[j] = g \/ fs[j] = f BY <2>2
    <3> HIDE DEF f, g
    <3>4. FetchOK(f, Entries, nextId) BY <3>1 DEF f
    <3>5. FetchOK(g, Entries, nextId) BY <3>2, <3>4 DEF FetchOK
    <3> QED BY <3>3, <3>4, <3>5
  <2> QED BY <2>3, <2>4 DEF FetchesOK
<1> DEFINE m == SessionReset(Entries)
           t == [store EXCEPT !.agents = m]
<1>5. Changed(Entries, nextId, m) /\ KeepsUsed(Entries, m) BY InvFacts, ListReset
<1>6. Becomes(t) BY <1>2 DEF Entries
<1> HIDE DEF m, fs
<1>7. StaysUsed(store, nextId, t, nextId)
  BY <1>5, InvFacts, StoreChanged DEF Entries
<1> HIDE DEF t
<1>8. store' = t /\ storage' = ToCatalog(t.agents) /\ fetches' = fs
  BY <1>1, <1>6 DEF Becomes, fs
<1>9. FetchesOK(fs, t.agents, nextId)
  BY <1>4, <1>7, InvFacts, FetchesKept DEF StaysUsed, Entries
<1>10. CatalogOK(storage') BY <1>7, <1>8, CatalogKept DEF StaysUsed, Stays, StoreOK
<1>11. GrowsUsed(store, nextId)
  BY <1>2, <1>7, <1>8, <1>9, <1>10, InvFacts DEF GrowsUsed, Grows, StaysUsed
<1> QED BY <1>2, <1>3, <1>11, ListAnswered DEF Others

(* Answers that may say nothing of use.                                    *)
LEMMA AnswerKeeps ==
  ASSUME ListInv, NEW kind, NEW about, Answers(kind, about),
         GrowsUsed(store, nextId)
         \/ (store' = store /\ storage' = storage /\ nextId' = nextId)
  PROVE  ListKept
<1>1. /\ ready' = ready /\ startup' = startup /\ fetches' = fetches
      /\ serving' = serving /\ listSteps' = listSteps
  BY DEF Answers
<1>2. GrowsUsed(store, nextId) BY <1>1, Unmoved
<1>3. ready \/ (fetches' = <<>> /\ serving' = None) BY <1>1 DEF ListInv
<1> QED BY <1>1, <1>2, <1>3, ListAnswered

LEMMA SharedCameKeeps == ASSUME ListInv, SharedCame PROVE ListKept
<1> DEFINE es == SharedEntries(nextId)
           t == Shared(store, es)
           k == nextId + Len(es)
<1>1. /\ Answers("shared", None)
      /\ \/ Made(nextId, Len(es)) /\ Becomes(t)
         \/ Becomes(Shared(store, <<>>)) /\ nextId' = nextId
         \/ store' = store /\ storage' = storage /\ nextId' = nextId
  BY DEF SharedCame, SharedEntries, Marked
<1>2. fetches' = fetches BY <1>1 DEF Answers
<1>3. CASE Made(nextId, Len(es)) /\ Becomes(t)
  <2>1. /\ Fresh(es, nextId) /\ \A i \in DOMAIN es : CardUrl(es[i]) = None
        /\ \A i, j \in DOMAIN es : i # j => Apart(es[i], es[j])
    BY InvFacts, SharedFresh
  <2> HIDE DEF es
  <2>2. Len(es) \in Nat BY <2>1, ListFacts DEF Fresh
  <2>3. nextId' = k /\ k \in 1..(LastId + 1) /\ nextId <= k
    BY <1>3, <2>2, InvFacts, MadeFits
  <2>4. StaysUsed(store, nextId, t, k) BY <2>1, InvFacts, StoreShared
  <2>5. Becomes(t) BY <1>3
  <2> HIDE DEF t, k
  <2>6. GrowsUsed(store, nextId)
    BY <1>2, <2>3, <2>4, <2>5, InvFacts, Turning DEF StaysUsed
  <2> QED BY <1>1, <2>6, AnswerKeeps
<1> HIDE DEF es, t
<1>4. CASE Becomes(Shared(store, <<>>)) /\ nextId' = nextId
  <2> DEFINE none == <<>>
             u == Shared(store, none)
  <2>1. Fresh(none, nextId) /\ Len(none) = 0 BY ListFacts DEF Fresh, IsList
  <2>2. \A i \in DOMAIN none : CardUrl(none[i]) = None OBVIOUS
  <2>3. \A i, j \in DOMAIN none : i # j => Apart(none[i], none[j]) OBVIOUS
  <2>4. Becomes(u) BY <1>4
  <2>5. nextId \in 1..(LastId + 1) /\ nextId + 0 = nextId BY InvFacts
  <2> HIDE DEF none
  <2>6. StaysUsed(store, nextId, u, nextId)
    BY <2>1, <2>2, <2>3, <2>5, InvFacts, StoreShared
  <2> HIDE DEF u
  <2>7. GrowsUsed(store, nextId)
    BY <1>2, <1>4, <2>4, <2>5, <2>6, InvFacts, Turning DEF StaysUsed
  <2> QED BY <1>1, <2>7, AnswerKeeps
<1> QED BY <1>1, <1>3, <1>4, AnswerKeeps

LEMMA EchoesCameKeeps == ASSUME ListInv, EchoesCame PROVE ListKept
<1> DEFINE e == EchoEntry(nextId, None)
<1>1. /\ Answers("echoes", None)
      /\ \/ Made(nextId, 1) /\ Becomes(AddEntries(store, <<e>>, None))
         \/ store' = store /\ storage' = storage /\ nextId' = nextId
  BY DEF EchoesCame
<1>2. fetches' = fetches BY <1>1 DEF Answers
<1>3. New(e, nextId) /\ ~ ByUrl(e) BY InvFacts, EntryForEcho
<1> HIDE DEF e
<1>4. Fresh(<<e>>, nextId) /\ Len(<<e>>) = 1 BY <1>3, InvFacts, FreshOne
<1>5. CASE Made(nextId, 1) /\ Becomes(AddEntries(store, <<e>>, None))
  <2>1. GrowsUsed(store, nextId) BY <1>2, <1>4, <1>5, EntriesGrow
  <2> QED BY <1>1, <2>1, AnswerKeeps
<1> QED BY <1>1, <1>5, AnswerKeeps

LEMMA EchoCameKeeps == ASSUME ListInv, EchoCame PROVE ListKept
<1>1. PICK id \in 1..LastId :
        /\ Answers("echo", id)
        /\ \/ store' = store /\ storage' = storage
           \/ /\ EntryOf(id) # None
              /\ Becomes([store EXCEPT !.agents =
                   EchoStatus(store.agents, id,
                              [EntryOf(id).echo EXCEPT !.exited = TRUE])])
  BY DEF EchoCame
<1>2. nextId' = nextId /\ fetches' = fetches BY <1>1 DEF EchoCame, Answers
<1> DEFINE e == [EntryOf(id).echo EXCEPT !.exited = TRUE]
           m == EchoStatus(Entries, id, e)
<1>3. CASE EntryOf(id) # None /\ Becomes([store EXCEPT !.agents = m])
  <2>1. PICK i \in DOMAIN Entries : EntryOf(id) = Entries[i] /\ Entries[i].id = id
    BY <1>3, InvFacts, EntryIs DEF EntryOf
  <2>2. "id" \in DOMAIN Entries[i].echo
    BY InvFacts DEF ListOK, EntryOK, EntryTyped
  <2>3. "id" \in DOMAIN e /\ e.id = Entries[i].echo.id BY <2>1, <2>2
  <2> HIDE DEF e
  <2>4. \A j \in DOMAIN Entries : Entries[j].id = id => j = i
    BY <2>1, InvFacts DEF ListOK
  <2>5. Changed(Entries, nextId, m) /\ KeepsUsed(Entries, m)
    BY <2>3, <2>4, InvFacts, ListExited
  <2> HIDE DEF m
  <2>6. GrowsUsed(store, nextId) BY <1>2, <1>3, <2>5, Editing
  <2> QED BY <1>1, <2>6, AnswerKeeps
<1> QED BY <1>1, <1>2, <1>3, AnswerKeeps DEF Entries

LEMMA ListCameKeeps == ASSUME ListInv, ListCame PROVE ListKept
<1>1. /\ \E l \in DOMAIN Listings : Answers("list", l)
      /\ store' = store /\ storage' = storage /\ nextId' = nextId
  BY DEF ListCame
<1> QED BY <1>1, AnswerKeeps

LEMMA ImportCameKeeps == ASSUME ListInv, ImportCame PROVE ListKept
<1>1. PICK l \in DOMAIN Listings :
        LET es == AgentsFromCatalog(Listed(Listings[l]), nextId)
        IN  /\ Answers("import", l)
            /\ \/ Made(nextId, Len(es)) /\ Becomes(AddEntries(store, es, None))
               \/ store' = store /\ storage' = storage /\ nextId' = nextId
  BY DEF ImportCame
<1> DEFINE es == AgentsFromCatalog(Listed(Listings[l]), nextId)
<1>2. fetches' = fetches BY <1>1 DEF Answers
<1>3. CatalogAllowed(Listings[l]) BY ValuesAssumption
<1>4. Fresh(es, nextId) BY <1>3, InvFacts, ListedFresh
<1>5. CASE Made(nextId, Len(es)) /\ Becomes(AddEntries(store, es, None))
  <2> HIDE DEF es
  <2>1. GrowsUsed(store, nextId) BY <1>2, <1>4, <1>5, EntriesGrow
  <2> QED BY <1>1, <2>1, AnswerKeeps
<1> QED BY <1>1, <1>5, AnswerKeeps

(* A page that loads.                                                      *)
LEMMA StoreOfNone ==
  StoreOK(State(<<>>, None), 1) /\ State(<<>>, None).agents = <<>>
  /\ FetchesOK(<<>>, <<>>, 1)
<1> DEFINE s == State(<<>>, None)
<1>1. s.agents = <<>> /\ s.sel = None /\ {"agents", "sel"} \subseteq DOMAIN s
  BY StateIs
<1>2. IsList(<<>>) /\ DOMAIN <<>> = {} /\ Len(<<>>) = 0 BY ListOfNone, EmptySeq
<1> HIDE DEF s
<1>3. ListOK(<<>>, 1) BY <1>2 DEF ListOK
<1>4. FetchesOK(<<>>, <<>>, 1) BY <1>2 DEF FetchesOK
<1>5. StoreOK(s, 1) BY <1>1, <1>3 DEF StoreOK, Shows
<1> QED BY <1>1, <1>4, <1>5 DEF s

LEMMA ReloadKeeps == ASSUME ListInv, Reload PROVE ListInv'
<1>1. /\ store' = State(<<>>, None) /\ nextId' = 1 /\ fetches' = <<>>
      /\ serving' = None /\ ready' = FALSE /\ startup' = startup
      /\ storage' = storage /\ listSteps' = listSteps + 1
  BY DEF Reload, Acts
<1>2. StoreOK(store', 1) /\ store'.agents = <<>> /\ FetchesOK(<<>>, <<>>, 1)
  BY <1>1, StoreOfNone
<1>3. 1 \in 1..(LastId + 1) BY ListAssumption
<1>4. listSteps' \in Nat /\ startup \in Startups BY <1>1 DEF ListInv
<1>5. CatalogOK(storage') BY <1>1, InvFacts
<1> QED BY <1>1, <1>2, <1>3, <1>4, <1>5 DEF ListInv, Entries

LEMMA ListStarts == ListInit => ListInv
<1> SUFFICES ASSUME ListInit PROVE ListInv OBVIOUS
<1>1. /\ store = State(<<>>, None) /\ nextId = 1 /\ fetches = <<>>
      /\ serving = None /\ ready = FALSE /\ startup \in Startups
      /\ storage = NoCatalog /\ listSteps = 0
  BY DEF ListInit
<1>2. StoreOK(store, 1) /\ store.agents = <<>> /\ FetchesOK(<<>>, <<>>, 1)
  BY <1>1, StoreOfNone
<1>3. 1 \in 1..(LastId + 1) BY ListAssumption
<1>4. CatalogOK(storage)
  BY <1>1, ListOfNone, EmptySeq DEF CatalogOK, CatalogAllowed, NoCatalog
<1> QED BY <1>1, <1>2, <1>3, <1>4 DEF ListInv, Entries

LEMMA StartKeeps == ASSUME ~ MayLackCatalog, ListInv, Start PROVE ListInv'
<1> DEFINE es == AgentsFromCatalog(storage, 1)
           o == State(<<>>, None)
           s == AddEntries(o, es, None)
           id == Len(es) + 1
<1>1. /\ ~ ready /\ ready' = TRUE /\ startup' = startup /\ listSteps' = listSteps
      /\ IF startup = None
         THEN Becomes(s) /\ Made(id, 0) /\ fetches' = fetches
         ELSE IF startup.endpoint # None
         THEN /\ Becomes(AddEndpoint(s, id, startup.endpoint, None))
              /\ Made(id, 1) /\ fetches' = fetches
         ELSE AddAgent(s, s.agents, id, startup.ref, startup.prefer)
  BY DEF Start
<1>2. fetches = <<>> BY <1>1 DEF ListInv
<1>3. StoreOK(o, 1) /\ o.agents = <<>> /\ FetchesOK(fetches, o.agents, 1)
  BY <1>2, StoreOfNone
<1>4. Fresh(es, 1) BY InvFacts, CatalogFresh
<1> HIDE DEF es, o
<1>5. Len(es) \in Nat BY <1>4, ListFacts DEF Fresh
<1>6. StaysUsed(o, 1, s, 1 + Len(es)) BY <1>3, <1>4, StoreEntries
<1>7. 1 + Len(es) = id /\ id \in Nat \ {0} /\ 1 <= id BY <1>5
<1> HIDE DEF s, id
<1>8. Stays(o, 1, s, id) /\ StoreOK(s, id) BY <1>6, <1>7 DEF StaysUsed, Stays
<1>9. ASSUME NEW k \in Nat, Made(id, k) PROVE id \in 1..(LastId + 1)
  BY <1>7, <1>9, ListAssumption DEF Made
<1>10. FetchesOK(fetches, s.agents, id) BY <1>3, <1>7, <1>8, FetchesKept
<1>11. CASE startup = None
  <2>1. Becomes(s) /\ Made(id, 0) /\ fetches' = fetches BY <1>1, <1>11
  <2>2. id \in 1..(LastId + 1) BY <1>9, <2>1
  <2>3. nextId' = id BY <1>7, <2>1 DEF Made
  <2>4. Grows(o, 1) BY <1>3, <1>7, <1>8, <2>1, <2>2, <2>3, Turning
  <2> QED BY <1>1, <2>4, ListTurns DEF ListInv
<1>12. CASE startup # None /\ startup.endpoint # None
  <2> DEFINE t == AddEndpoint(s, id, startup.endpoint, None)
             k == id + 1
  <2>1. Becomes(t) /\ Made(id, 1) /\ fetches' = fetches BY <1>1, <1>12
  <2>2. id \in 1..(LastId + 1) BY <1>9, <2>1
  <2>3. nextId' = k /\ k \in 1..(LastId + 1) BY <2>1, <2>2, MadeFits
  <2>4. StoreOK(t, k) BY <1>8, StoreEndpoint
  <2> HIDE DEF t, k
  <2>5. CatalogOK(storage') BY <2>1, <2>4, CatalogKept DEF Becomes, StoreOK
  <2>6. FetchesOK(fetches', store'.agents, k)
    BY <1>2, <2>1, StoreOfNone DEF FetchesOK
  <2>7. ListInv'
    BY <1>1, <2>1, <2>3, <2>4, <2>5, <2>6 DEF ListInv, Becomes, Entries
  <2> QED BY <2>7
<1>13. CASE startup # None /\ startup.endpoint = None
  <2>1. AddAgent(s, s.agents, id, startup.ref, startup.prefer) BY <1>1, <1>13
  <2>2. /\ startup.ref \in Refs
        /\ startup.prefer = None \/ IsList(startup.prefer)
    <3>1. startup \in Startups BY DEF ListInv
    <3> QED BY <1>13, <3>1, ValuesAssumption
  <2>3. Made(id, 0) \/ Made(id, 1) BY <2>1 DEF AddAgent
  <2>4. id \in 1..(LastId + 1) BY <1>9, <2>3
  <2>5. GrowsUsed(s, id) BY <1>8, <1>10, <2>1, <2>2, <2>4, AgentAdded
  <2> QED BY <1>1, <2>5, ListTurns DEF ListInv, GrowsUsed
<1> QED BY <1>11, <1>12, <1>13

LEMMA ListGoesOn ==
  ASSUME ~ MayLackCatalog, ListInv, [ListNext]_listVars
  PROVE  ListInv'
<1>1. CASE UNCHANGED listVars
  BY <1>1 DEF listVars, ListInv, StoreOK, FetchesOK, Entries, CatalogOK
<1>2. CASE ListNext
  <2>1. Served \/ CardCame \/ CardRenewed \/ SharedCame \/ EchoesCame
          \/ EchoCame \/ ListCame \/ ImportCame => ListKept
    BY ServedKeeps, CardCameKeeps, CardRenewedKeeps, SharedCameKeeps,
       EchoesCameKeeps, EchoCameKeeps, ListCameKeeps, ImportCameKeeps
  <2>2. Start \/ EnterUrl \/ SelectAgent \/ SelectHost \/ RemoveAgent
          \/ FetchCard \/ PickInterface \/ WriteCard \/ EditAgent => ListInv'
    BY StartKeeps, EnterUrlKeeps, SelectAgentKeeps, SelectHostKeeps,
       RemoveAgentKeeps, FetchCardKeeps, PickInterfaceKeeps, WriteCardKeeps,
       EditAgentKeeps
  <2>3. ChangeDraft \/ SaveDraft \/ Serve \/ ListCatalog \/ CloseCatalog
          \/ AddFromCatalog \/ Import \/ Reload => ListInv'
    BY ChangeDraftKeeps, SaveDraftKeeps, ServeKeeps, CatalogStepsKeep,
       AddFromCatalogKeeps, ReloadKeeps
  <2> QED BY <1>2, <2>1, <2>2, <2>3 DEF ListNext, ListKept
<1> QED BY <1>1, <1>2

(* What the user does is counted; the rest keeps what is in use.           *)
LEMMA ListKeepsCustom ==
  ASSUME ListInv, [ListNext]_listVars
  PROVE  KeepsCustom
<1> SUFFICES ASSUME listSteps' = listSteps, ready,
                    NEW i \in DOMAIN Entries, NEW j \in DOMAIN store'.agents,
                    Entries[i].id = store'.agents[j].id,
                    Entries[i].selected > Len(CardInterfaces(Entries[i]))
             PROVE  SelectedInterface(store'.agents[j])
                      = SelectedInterface(Entries[i])
  BY DEF KeepsCustom
<1>1. ~ Acts BY DEF Acts, ListInv
<1>2. KeepsUsed(Entries, store'.agents)
  <2>1. CASE UNCHANGED listVars
    <3>1. KeepsUsed(Entries, Entries) BY InvFacts, PreservesSelf
    <3>2. store' = store BY <2>1 DEF listVars
    <3> QED BY <3>1, <3>2 DEF Entries
  <2>2. CASE ListNext
    <3>1. ~ (Start \/ EnterUrl \/ SelectAgent \/ SelectHost \/ RemoveAgent
          \/ FetchCard \/ PickInterface \/ WriteCard \/ EditAgent)
      BY <1>1 DEF Start, EnterUrl, SelectAgent, SelectHost, RemoveAgent,
                  FetchCard, PickInterface, WriteCard, EditAgent
    <3>2. ~ (ChangeDraft \/ SaveDraft \/ Serve \/ ListCatalog \/ CloseCatalog
          \/ AddFromCatalog \/ Import \/ Reload)
      BY <1>1 DEF ChangeDraft, SaveDraft, Serve, ListCatalog, CloseCatalog,
                  AddFromCatalog, Import, Reload
    <3>3. Served \/ CardCame \/ CardRenewed \/ SharedCame \/ EchoesCame
            \/ EchoCame \/ ListCame \/ ImportCame
      BY <2>2, <3>1, <3>2 DEF ListNext
    <3>4. ListKept
      BY <3>3, ServedKeeps, CardCameKeeps, CardRenewedKeeps, SharedCameKeeps,
         EchoesCameKeeps, EchoCameKeeps, ListCameKeeps, ImportCameKeeps
    <3> QED BY <3>4 DEF ListKept, Entries
  <2> QED BY <2>1, <2>2
<1> QED BY <1>2 DEF KeepsUsed, InUse

(* What the invariant says of the list.                                    *)
LEMMA ListTells ==
  ASSUME NEW a, EntryOK(a)
  PROVE  LET said == AgentStatus(a)
         IN  said # "stopped" =>
               CASE CardContent(a) = "overview" -> said = "checked"
                 [] CardContent(a) \in {"error", "failure"} -> said = "failed"
                 [] OTHER -> said = CardContent(a)
<1>1. /\ a.status \in {"idle", "loading", "done", "failed"}
      /\ a.kind \in {"card", "endpoint"}
      /\ a.kind # "endpoint" =>
           /\ a.status = "done" => a.result # None /\ a.result.ok /\ ~ a.error
           /\ a.status = "failed" =>
                a.error \/ (a.result # None /\ ~ a.result.ok)
  BY DEF EntryOK, EntryTyped, Tells
<1>2. CASE a.status \in {"idle", "loading"}
  BY <1>2 DEF AgentStatus, CardContent
<1>3. CASE a.status = "done"
  BY <1>1, <1>3 DEF AgentStatus, CardContent
<1>4. CASE a.status = "failed"
  BY <1>1, <1>4 DEF AgentStatus, CardContent
<1> QED BY <1>1, <1>2, <1>3, <1>4

LEMMA ListIsSound ==
  ASSUME ListInv
  PROVE  ListTypeOK /\ NoTwins /\ SelectionShown /\ ListAgrees
<1>1. ListTypeOK BY InvFacts DEF ListTypeOK, ListOK, EntryOK, PickFits
<1>2. NoTwins
  <2> SUFFICES ASSUME NEW i \in DOMAIN Entries, NEW j \in DOMAIN Entries, i # j,
                      ByUrl(Entries[i]), ByUrl(Entries[j]),
                      CardUrl(Entries[i]) # None
               PROVE  CardUrl(Entries[i])
                        \notin {CardUrl(Entries[j]), Entries[j].url}
    BY DEF NoTwins, ByUrl
  <2>1. Apart(Entries[i], Entries[j]) BY InvFacts DEF ListOK
  <2> QED BY <2>1 DEF Apart
<1>3. SelectionShown BY InvFacts DEF SelectionShown, StoreOK, Shows, Entries
<1>4. ListAgrees
  <2>1. \A i \in DOMAIN Entries : EntryOK(Entries[i]) BY InvFacts DEF ListOK
  <2> QED BY <2>1, ListTells DEF ListAgrees
<1> QED BY <1>1, <1>2, <1>3, <1>4
=============================================================================
