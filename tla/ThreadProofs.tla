---------------------------- MODULE ThreadProofs ----------------------------
(***************************************************************************)
(* Theorems about Thread: the invariants the run of MCThread checks, for   *)
(* search results of any length with any headers, malformed ones included. *)
(***************************************************************************)
EXTENDS Thread, FiniteSetTheorems, TLAPS

Unrepeated(s) == \A j, k \in DOMAIN s : s[j] = s[k] => j = k

\* The messages ahead of m in the vector.
Before(m) == {x \in remaining : x < m}

\* Nothing was claimed before the sort, and nothing is pending outside the scan.
Outside ==
  /\ phase = "sort" => /\ remaining = Messages /\ i = 0 /\ shown = <<>>
                       /\ \A m \in Messages : parent[m] = 0
  /\ phase # "scan" => stack = <<>>

Sorted == phase # "sort" =>
            \A x, y \in Messages : x < y => mail[x].sent <= mail[y].sent

\* Every message is in one place.
Places ==
  /\ remaining \cup Pending \cup OnPage = Messages
  /\ remaining \cap Pending = {} /\ remaining \cap OnPage = {}
  /\ Pending \cap OnPage = {}
  /\ Unrepeated(stack) /\ Unrepeated(shown)

\* A pending message is there for a reason.
Parentage ==
  /\ \A m \in remaining : parent[m] = 0
  /\ \A m \in Pending :
       IF parent[m] = 0 THEN ForSlug(m)
       ELSE \E j \in DOMAIN shown : shown[j] = parent[m] /\ FirstNamed(m, j)

\* Whatever is on the page has claimed its replies.
AllClaimed == \A m \in remaining, p \in OnPage : ~RepliesTo(m, p)

\* Siblings are claimed, then wait, then are shown in the order of the vector;
\* the index is past every top-level message that was taken.
Ordered ==
  /\ \A m \in Messages \ remaining : parent[m] = 0 => Cardinality(Before(m)) <= i
  /\ \A j, k \in DOMAIN stack :
       j < k /\ parent[stack[j]] = parent[stack[k]] => stack[j] < stack[k]
  /\ \A j \in DOMAIN shown, k \in DOMAIN stack :
       parent[shown[j]] = parent[stack[k]] => shown[j] < stack[k]
  /\ \A j, k \in DOMAIN shown :
       j < k /\ parent[shown[j]] = parent[shown[k]] => shown[j] < shown[k]

\* If replies sort after all they name, the index marks a place in the sorted
\* result that no claim reaches back over.
Cursor ==
  phase = "scan" /\ RepliesSortAfter =>
    \E b \in Nat : /\ Cardinality(Before(b)) = i
                   /\ \A x \in Before(b) : ~ForSlug(x)
                   /\ \A p \in Pending : b <= p

Inv ==
  /\ TypeOK /\ Outside /\ Sorted /\ Places /\ Parentage /\ RepliesUnderFirstNamed
  /\ AllClaimed /\ Ordered /\ Cursor /\ InOrderComplete
-----------------------------------------------------------------------------
(* Helpers *)

LEMMA MessagesFinite ==
  ASSUME mail \in Seq(Message), NEW S \in SUBSET Messages
  PROVE  IsFiniteSet(S) /\ Cardinality(S) \in Nat /\ Cardinality(S) <= Len(mail)
<1>1. Messages = 1..Len(mail) /\ Len(mail) \in Nat
  BY DEF Messages
<1>2. IsFiniteSet(1..Len(mail)) /\ Cardinality(1..Len(mail)) = Len(mail)
  BY <1>1, FS_Interval
<1> QED
  BY <1>1, <1>2, FS_Subset, FS_CardinalityType

\* An unrepeated sequence is as long as its range is large.
LEMMA UnrepeatedLength ==
  ASSUME NEW S, NEW s \in Seq(S), Unrepeated(s)
  PROVE  Len(s) = Cardinality({s[k] : k \in DOMAIN s})
<1> DEFINE R == {s[k] : k \in DOMAIN s}
<1>1. DOMAIN s = 1..Len(s) /\ Len(s) \in Nat
  OBVIOUS
<1>2. s \in Injection(1..Len(s), R)
  BY <1>1 DEF Injection, IsInjective, Unrepeated
<1>3. s \in Surjection(1..Len(s), R)
  BY <1>1 DEF Surjection
<1>4. IsFiniteSet(1..Len(s)) /\ Cardinality(1..Len(s)) = Len(s)
  BY <1>1, FS_Interval
<1>5. IsFiniteSet(R)
  BY <1>3, <1>4, FS_Surjection
<1> QED
  BY <1>2, <1>3, <1>4, <1>5, FS_Injection

\* One message at the index: what is ahead of it is what is ahead of any
\* other place with as many messages ahead.
LEMMA SamePlace ==
  ASSUME TypeOK, NEW m \in remaining, NEW b \in Nat,
         Cardinality(Before(b)) = Cardinality(Before(m))
  PROVE  b <= m /\ Before(b) = Before(m)
<1>0. m \in Nat /\ \A x \in remaining : x \in Nat
  BY DEF TypeOK, Messages
<1>1. IsFiniteSet(Before(m)) /\ IsFiniteSet(Before(b)) /\ Cardinality(Before(m)) \in Nat
  BY MessagesFinite DEF TypeOK, Before
<1>2. b <= m
  <2> SUFFICES ASSUME b > m PROVE FALSE
    BY <1>0
  <2>1. Before(m) \cup {m} \subseteq Before(b) /\ m \notin Before(m)
    <3>1. m < b /\ ~(m < m) /\ \A x \in remaining : x < m => x < b
      BY <1>0
    <3> QED
      BY <3>1 DEF Before
  <2>2. Cardinality(Before(m) \cup {m}) = Cardinality(Before(m)) + 1
    BY <1>1, <2>1, FS_AddElement
  <2>3. Cardinality(Before(m) \cup {m}) <= Cardinality(Before(b))
    BY <1>1, <2>1, FS_Subset
  <2> QED
    BY <1>1, <2>2, <2>3
<1>3. Before(b) \subseteq Before(m)
  <2>1. \A x \in remaining : x < b => x < m
    BY <1>0, <1>2
  <2> QED
    BY <2>1 DEF Before
<1> QED
  BY <1>1, <1>2, <1>3, FS_Subset

LEMMA ListingsType ==
  ASSUME TypeOK, NEW S \in SUBSET Messages, NEW q \in Listings(S)
  PROVE  /\ q \in Seq(S) /\ Len(q) \in Nat
         /\ {q[k] : k \in DOMAIN q} = S
         /\ \A j, k \in DOMAIN q : j < k => q[j] < q[k]
<1>1. Cardinality(S) \in Nat
  BY MessagesFinite DEF TypeOK
<1>2. q \in [1..Cardinality(S) -> S]
  BY DEF Listings
<1>3. q \in Seq(S)
  BY <1>1, <1>2
<1> QED
  BY <1>3 DEF Listings

\* What Claim does to the two sequences, element by element.
LEMMA ClaimShape ==
  ASSUME TypeOK, Claim
  PROVE  LET p == Head(stack)
             R == Replies(p)
         IN  /\ p \in Messages /\ p = stack[1] /\ Len(stack) \in Nat \ {0}
             /\ Len(shown) \in Nat /\ Len(shown') = Len(shown) + 1
             /\ shown' \in Seq(Messages) /\ shown'[Len(shown) + 1] = p
             /\ \A k \in DOMAIN shown : shown'[k] = shown[k]
             /\ \E q \in Listings(R) :
                  /\ stack' \in Seq(Messages)
                  /\ Len(stack') = Len(q) + Len(stack) - 1
                  /\ \A k \in 1..Len(q) : stack'[k] = q[k]
                  /\ \A k \in 2..Len(stack) : stack'[Len(q) + k - 1] = stack[k]
<1> DEFINE p == Head(stack)
           R == Replies(p)
<1>1. /\ stack \in Seq(Messages) /\ stack # <<>>
      /\ shown \in Seq(Messages) /\ shown' = Append(shown, p)
  BY DEF TypeOK, Claim
<1>2. PICK q \in Listings(R) : stack' = q \o Tail(stack)
  BY DEF Claim
<1>3. /\ p \in Messages /\ p = stack[1] /\ Len(stack) \in Nat \ {0}
      /\ Len(shown) \in Nat
  BY <1>1
<1>4. /\ Len(shown') = Len(shown) + 1 /\ shown' \in Seq(Messages)
      /\ shown'[Len(shown) + 1] = p
      /\ \A k \in DOMAIN shown : shown'[k] = shown[k]
  BY <1>1, <1>3
<1>5. q \in Seq(Messages) /\ Len(q) \in Nat
  <2>1. R \subseteq Messages
    BY DEF TypeOK, Replies
  <2>2. q \in Seq(R) /\ Len(q) \in Nat
    BY <2>1, ListingsType
  <2> QED
    BY <2>1, <2>2
<1>6. /\ Tail(stack) \in Seq(Messages) /\ Len(Tail(stack)) = Len(stack) - 1
      /\ \A k \in 1..(Len(stack) - 1) : Tail(stack)[k] = stack[k + 1]
  BY <1>1
<1>7. /\ stack' \in Seq(Messages) /\ Len(stack') = Len(q) + Len(stack) - 1
      /\ \A k \in 1..Len(q) : stack'[k] = q[k]
  BY <1>2, <1>3, <1>5, <1>6
<1>8. \A k \in 2..Len(stack) : stack'[Len(q) + k - 1] = stack[k]
  <2> SUFFICES ASSUME NEW k \in 2..Len(stack)
               PROVE  stack'[Len(q) + k - 1] = stack[k]
    OBVIOUS
  <2>1. Len(q) + k - 1 \in (Len(q) + 1)..(Len(q) + Len(Tail(stack)))
    BY <1>3, <1>5, <1>6
  <2>2. (q \o Tail(stack))[Len(q) + k - 1] = Tail(stack)[Len(q) + k - 1 - Len(q)]
    BY <1>3, <1>5, <1>6, <2>1
  <2>3. Len(q) + k - 1 - Len(q) = k - 1 /\ k - 1 \in 1..(Len(stack) - 1) /\ k - 1 + 1 = k
    BY <1>3, <1>5
  <2> QED
    BY <1>2, <1>6, <2>2, <2>3
<1> QED
  BY <1>2, <1>3, <1>4, <1>7, <1>8

\* An element of the new stack is a fresh reply or was waiting behind the head.
LEMMA ClaimStack ==
  ASSUME TypeOK, Claim
  PROVE  \E q \in Listings(Replies(Head(stack))) :
           \A j \in DOMAIN stack' :
             \/ j \in 1..Len(q) /\ stack'[j] = q[j]
             \/ /\ j > Len(q) /\ j - Len(q) + 1 \in 2..Len(stack)
                /\ stack'[j] = stack[j - Len(q) + 1]
<1> DEFINE R == Replies(Head(stack))
<1>1. PICK q \in Listings(R) :
        /\ stack' \in Seq(Messages)
        /\ Len(stack') = Len(q) + Len(stack) - 1
        /\ \A k \in 1..Len(q) : stack'[k] = q[k]
        /\ \A k \in 2..Len(stack) : stack'[Len(q) + k - 1] = stack[k]
  BY ClaimShape
<1>2. Len(q) \in Nat /\ Len(stack) \in Nat
  <2>1. R \subseteq Messages /\ stack \in Seq(Messages)
    BY DEF TypeOK, Replies
  <2> QED
    BY <2>1, ListingsType
<1>3. ASSUME NEW j \in DOMAIN stack'
      PROVE  \/ j \in 1..Len(q) /\ stack'[j] = q[j]
             \/ /\ j > Len(q) /\ j - Len(q) + 1 \in 2..Len(stack)
                /\ stack'[j] = stack[j - Len(q) + 1]
  <2>1. j \in 1..(Len(q) + Len(stack) - 1)
    BY <1>1
  <2>2. CASE j <= Len(q)
    BY <1>1, <1>2, <2>1, <2>2
  <2>3. CASE j > Len(q)
    <3>1. /\ j - Len(q) + 1 \in 2..Len(stack)
          /\ Len(q) + (j - Len(q) + 1) - 1 = j
      BY <1>2, <2>1, <2>3
    <3> QED
      BY <1>1, <2>3, <3>1
  <2> QED
    BY <1>2, <2>1, <2>2, <2>3
<1> QED
  BY <1>3

-----------------------------------------------------------------------------
(* The steps other than Claim *)

LEMMA InitInv == Init => Inv
<1> SUFFICES ASSUME Init PROVE Inv
  OBVIOUS
<1>1. mail \in Seq(Message)
  BY ThreadConstants DEF ThreadConstants, Init
<1>2. TypeOK
  BY <1>1 DEF Init, TypeOK, Messages
<1>3. Outside /\ Sorted /\ Cursor /\ InOrderComplete
  BY DEF Init, Outside, Sorted, Cursor, InOrderComplete
<1>4. Pending = {} /\ OnPage = {} /\ Unrepeated(stack) /\ Unrepeated(shown)
  BY DEF Init, Pending, OnPage, Unrepeated
<1>5. Places /\ Parentage /\ RepliesUnderFirstNamed /\ AllClaimed /\ Ordered
  BY <1>4 DEF Init, Places, Parentage, RepliesUnderFirstNamed, AllClaimed, Ordered
<1> QED
  BY <1>2, <1>3, <1>5 DEF Inv

LEMMA SortInv ==
  ASSUME Inv, Sort
  PROVE  Inv'
<1>1. PICK f \in StableSorts : mail' = [m \in Messages |-> mail[f[m]]]
  BY DEF Sort
<1>2. f \in [Messages -> Messages] /\ mail \in Seq(Message)
  BY DEF StableSorts, Inv, TypeOK
<1>3. mail' \in Seq(Message) /\ Messages' = Messages /\ Len(mail') = Len(mail)
  BY <1>1, <1>2 DEF Messages
<1>4. /\ remaining' = Messages' /\ i' = 0 /\ stack' = <<>> /\ shown' = <<>>
      /\ \A m \in Messages' : parent'[m] = 0
      /\ phase' \in {"scan", "rejected"}
  BY <1>3 DEF Inv, Outside, Sort
<1>5. TypeOK'
  BY <1>3, <1>4 DEF Inv, TypeOK, Sort
<1>6. Sorted'
  <2> SUFFICES ASSUME NEW x \in Messages, NEW y \in Messages, x < y
               PROVE  mail'[x].sent <= mail'[y].sent
    BY <1>3 DEF Sorted
  <2>1. /\ mail[f[x]].sent \in Nat /\ mail[f[y]].sent \in Nat
        /\ mail[f[x]].sent < mail[f[y]].sent \/ mail[f[x]].sent = mail[f[y]].sent
    <3>1. mail[f[x]] \in Message /\ mail[f[y]] \in Message
      BY <1>2 DEF Messages
    <3>2. mail[f[x]].sent < mail[f[y]].sent \/ mail[f[x]].sent = mail[f[y]].sent
      BY DEF StableSorts
    <3> QED
      BY <3>1, <3>2 DEF Message
  <2> QED
    BY <1>1, <2>1
<1>7. Pending' = {} /\ OnPage' = {} /\ Unrepeated(stack)' /\ Unrepeated(shown)'
  BY <1>4 DEF Pending, OnPage, Unrepeated
<1>8. /\ Outside' /\ Places' /\ Parentage' /\ RepliesUnderFirstNamed' /\ AllClaimed'
      /\ Ordered' /\ InOrderComplete'
  BY <1>4, <1>7 DEF Outside, Places, Parentage, RepliesUnderFirstNamed, AllClaimed,
     Ordered, InOrderComplete
<1>9. Cursor'
  <2>1. Before(0)' = {}
    BY <1>3, <1>4 DEF Before, Messages
  <2>2. Cardinality(Before(0)') = i'
    BY <1>4, <2>1, FS_EmptySet
  <2> QED
    BY <1>7, <2>1, <2>2 DEF Cursor
<1> QED
  BY <1>5, <1>6, <1>8, <1>9 DEF Inv

LEMMA FinishInv ==
  ASSUME Inv, Finish
  PROVE  Inv'
<1> USE DEF Finish
<1>1. TypeOK' /\ Outside' /\ Sorted' /\ Cursor'
  BY DEF Inv, TypeOK, Messages, Outside, Sorted, Cursor
<1>2. Places' /\ Parentage' /\ RepliesUnderFirstNamed' /\ AllClaimed' /\ Ordered'
  BY DEF Inv, Places, Pending, OnPage, Messages, Parentage, ForSlug, IsTopLevel,
     RepliesTo, RepliesUnderFirstNamed, FirstNamed, AllClaimed, Ordered, Before
<1>3. InOrderComplete'
  <2> SUFFICES ASSUME RepliesSortAfter PROVE \A m \in remaining : ~ForSlug(m)
    BY DEF InOrderComplete, RepliesSortAfter, RepliesTo, ForSlug, IsTopLevel, Messages
  <2>1. PICK b \in Nat : /\ Cardinality(Before(b)) = i
                         /\ \A x \in Before(b) : ~ForSlug(x)
    BY DEF Inv, Cursor
  <2>2. Before(b) \subseteq remaining /\ IsFiniteSet(remaining)
        /\ Cardinality(remaining) \in Nat /\ i \in Nat
    BY MessagesFinite DEF Inv, TypeOK, Before
  <2>3. Cardinality(Before(b)) <= Cardinality(remaining)
    BY <2>2, FS_Subset
  <2>4. Before(b) = remaining
    BY <2>1, <2>2, <2>3, FS_Subset
  <2> QED
    BY <2>1, <2>4
<1> QED
  BY <1>1, <1>2, <1>3 DEF Inv

\* What the index being at m means.
LEMMA AtFacts ==
  ASSUME TypeOK, NEW m \in Messages, At(m)
  PROVE  /\ m \in remaining /\ m \in Nat /\ Cardinality(Before(m)) = i
         /\ i + 1 <= Len(mail)
         /\ Before(m) \cup {m} \subseteq remaining /\ m \notin Before(m)
<1>1. m \in remaining /\ m \in Nat /\ Cardinality(Before(m)) = i
  BY DEF At, Before, Messages, TypeOK
<1>2. ~(m < m)
  BY <1>1
<1>3. Before(m) \cup {m} \subseteq remaining /\ m \notin Before(m)
  BY <1>1, <1>2 DEF Before
<1>4. IsFiniteSet(Before(m))
  BY MessagesFinite DEF TypeOK, Before
<1>5. Cardinality(Before(m) \cup {m}) = i + 1
  BY <1>1, <1>3, <1>4, FS_AddElement
<1>6. Cardinality(Before(m) \cup {m}) <= Len(mail)
  BY <1>3, MessagesFinite DEF TypeOK
<1> QED
  BY <1>1, <1>3, <1>5, <1>6

LEMMA PassOverInv ==
  ASSUME Inv, NEW m \in Messages, PassOver(m)
  PROVE  Inv'
<1> USE DEF PassOver
<1>0. /\ m \in remaining /\ m \in Nat /\ Cardinality(Before(m)) = i
      /\ i + 1 <= Len(mail) /\ m \notin Before(m)
  BY AtFacts DEF Inv
<1>1. TypeOK'
  BY <1>0 DEF Inv, TypeOK, Messages
<1>2. Outside' /\ Sorted' /\ Places' /\ Parentage' /\ RepliesUnderFirstNamed' /\ AllClaimed'
  BY DEF Inv, Outside, Sorted, Places, Pending, OnPage, Messages, Parentage, ForSlug,
     IsTopLevel, RepliesTo, RepliesUnderFirstNamed, FirstNamed, AllClaimed
<1>3. InOrderComplete'
  BY DEF InOrderComplete
<1>4. Ordered'
  <2>1. \A x \in Messages : Before(x)' = Before(x) /\ Cardinality(Before(x)) \in Nat
    BY MessagesFinite DEF Inv, TypeOK, Before
  <2>2. i \in Nat /\ i' = i + 1
    BY DEF Inv, TypeOK
  <2>3. \A x \in Messages : Cardinality(Before(x)) <= i => Cardinality(Before(x)') <= i'
    BY <2>1, <2>2
  <2> QED
    BY <2>3 DEF Inv, Ordered, Messages
<1>5. Cursor'
  <2> SUFFICES ASSUME RepliesSortAfter
               PROVE  \E b \in Nat : /\ Cardinality(Before(b)') = i + 1
                                     /\ \A x \in Before(b)' : ~ForSlug(x)'
                                     /\ \A p \in Pending' : b <= p
    BY DEF Cursor, RepliesSortAfter, RepliesTo, Messages
  <2>1. PICK b \in Nat : /\ Cardinality(Before(b)) = i
                         /\ \A x \in Before(b) : ~ForSlug(x)
    BY DEF Inv, Cursor
  <2>2. Before(b) = Before(m)
    BY <1>0, <2>1, SamePlace DEF Inv
  <2>3. Before(m + 1) = Before(m) \cup {m}
    <3>1. \A x \in remaining : x < m + 1 <=> x < m \/ x = m
      BY <1>0 DEF Inv, TypeOK, Messages
    <3> QED
      BY <1>0, <3>1 DEF Before
  <2>4. Before(m + 1)' = Before(m + 1)
    BY DEF Before
  <2>5. Cardinality(Before(m + 1)) = i + 1
    <3>1. IsFiniteSet(Before(m))
      BY MessagesFinite DEF Inv, TypeOK, Before
    <3> QED
      BY <1>0, <2>3, <3>1, FS_AddElement
  <2>6. \A x \in Before(m + 1) : ~ForSlug(x)'
    BY <2>1, <2>2, <2>3 DEF ForSlug, IsTopLevel
  <2>7. Pending' = {}
    BY DEF Pending
  <2> QED
    BY <1>0, <2>4, <2>5, <2>6, <2>7
<1> QED
  BY <1>1, <1>2, <1>3, <1>4, <1>5 DEF Inv

\* Nothing is pending when a top-level message is taken.
LEMMA TakeTopLevelInv ==
  ASSUME Inv, NEW m \in Messages, TakeTopLevel(m)
  PROVE  Inv'
<1> USE DEF TakeTopLevel
<1>0. /\ m \in remaining /\ m \in Nat /\ Cardinality(Before(m)) = i
      /\ m \notin Before(m) /\ ForSlug(m) /\ i \in Nat
  BY AtFacts DEF Inv, TypeOK
<1>1. TypeOK'
  BY DEF Inv, TypeOK, Messages
<1>2. Outside' /\ Sorted' /\ InOrderComplete'
  BY DEF Inv, Outside, Sorted, Messages, InOrderComplete
<1>3. /\ Pending = {} /\ Pending' = {m} /\ OnPage' = OnPage
      /\ Unrepeated(stack)' /\ Unrepeated(shown)'
  BY DEF Pending, OnPage, Unrepeated, Inv, Places
<1>4. Places'
  BY <1>0, <1>3 DEF Inv, Places, Messages
<1>5. Parentage'
  BY <1>0, <1>3 DEF Inv, Parentage, FirstNamed, ForSlug, IsTopLevel, RepliesTo
<1>6. RepliesUnderFirstNamed' /\ AllClaimed'
  BY <1>3 DEF Inv, RepliesUnderFirstNamed, FirstNamed, AllClaimed, ForSlug, IsTopLevel, RepliesTo
<1>7. \A x \in Messages : /\ Before(x)' \subseteq Before(x)
                          /\ Cardinality(Before(x)') <= Cardinality(Before(x))
                          /\ Cardinality(Before(x)') \in Nat /\ Cardinality(Before(x)) \in Nat
  <2> SUFFICES ASSUME NEW x \in Messages
               PROVE  /\ Before(x)' \subseteq Before(x)
                      /\ Cardinality(Before(x)') <= Cardinality(Before(x))
                      /\ Cardinality(Before(x)') \in Nat /\ Cardinality(Before(x)) \in Nat
    OBVIOUS
  <2>1. Before(x)' \subseteq Before(x) /\ Before(x) \subseteq Messages
    BY DEF Before, Inv, TypeOK
  <2>2. IsFiniteSet(Before(x)) /\ Cardinality(Before(x)) \in Nat
    BY <2>1, MessagesFinite DEF Inv, TypeOK
  <2>3. /\ IsFiniteSet(Before(x)') /\ Cardinality(Before(x)') <= Cardinality(Before(x))
    BY <2>1, <2>2, FS_Subset
  <2> QED
    BY <2>1, <2>2, <2>3, FS_CardinalityType
<1>8. Ordered'
  <2>1. ASSUME NEW x \in Messages \ remaining', parent[x] = 0
        PROVE  Cardinality(Before(x)') <= i
    <3>1. Cardinality(Before(x)) <= i
      BY <1>0, <2>1 DEF Inv, Ordered
    <3> QED
      BY <1>0, <1>7, <3>1
  <2>2. ASSUME NEW j \in DOMAIN shown, parent[shown[j]] = parent[m]
        PROVE  shown[j] < m
    <3>1. /\ shown[j] \in Messages /\ shown[j] \notin remaining /\ shown[j] \in Nat
          /\ shown[j] # m
      BY <1>0 DEF Inv, TypeOK, Places, OnPage, Messages
    <3>2. parent[shown[j]] = 0
      BY <1>0, <2>2 DEF Inv, Parentage
    <3>3. Cardinality(Before(shown[j])) <= i
      BY <3>1, <3>2 DEF Inv, Ordered
    <3> SUFFICES ASSUME m < shown[j] PROVE FALSE
      BY <1>0, <3>1
    <3>4. Before(m) \cup {m} \subseteq Before(shown[j])
      <4>1. \A x \in remaining : x < m => x < shown[j]
        BY <1>0, <3>1 DEF Inv, TypeOK, Messages
      <4> QED
        BY <1>0, <4>1 DEF Before
    <3>5. /\ IsFiniteSet(Before(m)) /\ IsFiniteSet(Before(shown[j]))
          /\ Cardinality(Before(shown[j])) \in Nat
      BY MessagesFinite DEF Inv, TypeOK, Before
    <3>6. Cardinality(Before(m) \cup {m}) = i + 1
      BY <1>0, <3>5, FS_AddElement
    <3>7. Cardinality(Before(m) \cup {m}) <= Cardinality(Before(shown[j]))
      BY <3>4, <3>5, FS_Subset
    <3> QED
      BY <1>0, <3>3, <3>5, <3>6, <3>7
  <2>3. stack' = <<m>> /\ shown' = shown /\ parent' = parent /\ i' = i
    OBVIOUS
  <2>4. DOMAIN stack' = {1} /\ stack'[1] = m
    BY <2>3
  <2>5. \A j, k \in DOMAIN stack' : ~(j < k)
    BY <2>4
  <2>6. \A j, k \in DOMAIN shown :
          j < k /\ parent[shown[j]] = parent[shown[k]] => shown[j] < shown[k]
    BY DEF Inv, Ordered
  <2>7. Messages' = Messages
    BY DEF Messages
  <2> QED
    BY <2>1, <2>2, <2>3, <2>4, <2>5, <2>6, <2>7 DEF Ordered
<1>9. Cursor'
  <2> SUFFICES ASSUME RepliesSortAfter
               PROVE  \E b \in Nat : /\ Cardinality(Before(b)') = i
                                     /\ \A x \in Before(b)' : ~ForSlug(x)'
                                     /\ \A p \in Pending' : b <= p
    BY DEF Cursor, RepliesSortAfter, RepliesTo, Messages
  <2>1. PICK b \in Nat : /\ Cardinality(Before(b)) = i
                         /\ \A x \in Before(b) : ~ForSlug(x)
    BY DEF Inv, Cursor
  <2>2. Before(b) = Before(m) /\ b <= m
    BY <1>0, <2>1, SamePlace DEF Inv
  <2>3. Before(m)' = Before(m)
    BY <1>0 DEF Before
  <2>4. \A x \in Before(m)' : ~ForSlug(x)'
    BY <2>1, <2>2, <2>3 DEF ForSlug, IsTopLevel
  <2>5. \A p \in Pending' : m <= p
    BY <1>0, <1>3
  <2> QED
    BY <1>0, <2>3, <2>4, <2>5
<1> QED
  BY <1>1, <1>2, <1>4, <1>5, <1>6, <1>8, <1>9 DEF Inv

-----------------------------------------------------------------------------
(* Claim *)

\* What every part of the proof about Claim starts from.
LEMMA ClaimSets ==
  ASSUME Inv, Claim
  PROVE  LET p == Head(stack)
             R == Replies(p)
         IN  /\ p \in Pending /\ p \notin remaining /\ p \notin OnPage /\ phase = "scan"
             /\ R \subseteq remaining /\ remaining' = remaining \ R
             /\ OnPage' = OnPage \cup {p} /\ Pending' = R \cup (Pending \ {p})
             /\ \A m \in Messages : parent'[m] = IF m \in R THEN p ELSE parent[m]
             /\ \A k \in 2..Len(stack) : stack[k] # p
<1> DEFINE p == Head(stack)
           R == Replies(p)
<1>0. TypeOK /\ stack \in Seq(Messages) /\ shown \in Seq(Messages)
  BY DEF Inv, TypeOK
<1>1. /\ p = stack[1] /\ Len(stack) \in Nat \ {0}
      /\ Len(shown) \in Nat /\ Len(shown') = Len(shown) + 1 /\ shown' \in Seq(Messages)
      /\ shown'[Len(shown) + 1] = p /\ \A k \in DOMAIN shown : shown'[k] = shown[k]
  BY <1>0, ClaimShape
<1>2. PICK q \in Listings(R) :
        /\ stack' \in Seq(Messages)
        /\ Len(stack') = Len(q) + Len(stack) - 1
        /\ \A k \in 1..Len(q) : stack'[k] = q[k]
        /\ \A k \in 2..Len(stack) : stack'[Len(q) + k - 1] = stack[k]
  BY <1>0, ClaimShape
<1>3. PICK r \in Listings(R) :
        \A j \in DOMAIN stack' :
          \/ j \in 1..Len(r) /\ stack'[j] = r[j]
          \/ /\ j > Len(r) /\ j - Len(r) + 1 \in 2..Len(stack)
             /\ stack'[j] = stack[j - Len(r) + 1]
  BY <1>0, ClaimStack
<1>4. R \subseteq remaining /\ R \subseteq Messages /\ remaining' = remaining \ R
  BY <1>0 DEF Replies, Claim, TypeOK
<1>5. /\ q \in Seq(R) /\ Len(q) \in Nat /\ {q[k] : k \in DOMAIN q} = R
      /\ r \in Seq(R) /\ Len(r) \in Nat /\ {r[k] : k \in DOMAIN r} = R
  BY <1>0, <1>4, ListingsType
<1>6. p \in Pending /\ p \notin remaining /\ p \notin OnPage
  <2>1. 1 \in DOMAIN stack
    BY <1>0, <1>1
  <2>2. p \in Pending
    BY <1>1, <2>1 DEF Pending
  <2> QED
    BY <2>2 DEF Inv, Places
<1>7. \A k \in 2..Len(stack) : stack[k] # p
  <2> SUFFICES ASSUME NEW k \in 2..Len(stack), stack[k] = p PROVE FALSE
    OBVIOUS
  <2>1. 1 \in DOMAIN stack /\ k \in DOMAIN stack /\ k # 1
    BY <1>0, <1>1
  <2> QED
    BY <1>1, <2>1 DEF Inv, Places, Unrepeated
<1>8. OnPage' = OnPage \cup {p}
  <2>1. DOMAIN shown' = 1..(Len(shown) + 1) /\ DOMAIN shown = 1..Len(shown)
    BY <1>0, <1>1
  <2>2. DOMAIN shown' = DOMAIN shown \cup {Len(shown) + 1}
    BY <1>1, <2>1
  <2> QED
    BY <1>1, <2>2 DEF OnPage
<1>9. Pending' = R \cup (Pending \ {p})
  <2>0. DOMAIN stack = 1..Len(stack) /\ DOMAIN stack' = 1..(Len(q) + Len(stack) - 1)
    BY <1>0, <1>2
  <2>1. ASSUME NEW j \in DOMAIN stack' PROVE stack'[j] \in R \cup (Pending \ {p})
    <3>1. CASE j \in 1..Len(r) /\ stack'[j] = r[j]
      BY <1>5, <3>1
    <3>2. CASE /\ j - Len(r) + 1 \in 2..Len(stack)
               /\ stack'[j] = stack[j - Len(r) + 1]
      <4>1. j - Len(r) + 1 \in DOMAIN stack
        BY <1>1, <2>0, <3>2
      <4> QED
        BY <1>7, <3>2, <4>1 DEF Pending
    <3> QED
      BY <1>3, <3>1, <3>2
  <2>2. ASSUME NEW x \in R PROVE x \in Pending'
    <3>1. PICK k \in DOMAIN q : q[k] = x
      BY <1>5
    <3>2. k \in 1..Len(q) /\ k \in DOMAIN stack'
      BY <1>1, <1>5, <2>0, <3>1
    <3> QED
      BY <1>2, <3>1, <3>2 DEF Pending
  <2>3. ASSUME NEW x \in Pending, x # p PROVE x \in Pending'
    <3>1. PICK k \in DOMAIN stack : stack[k] = x
      BY DEF Pending
    <3>2. k \in 2..Len(stack)
      BY <1>1, <2>0, <2>3, <3>1
    <3>3. Len(q) + k - 1 \in DOMAIN stack'
      BY <1>1, <1>5, <2>0, <3>2
    <3> QED
      BY <1>2, <3>1, <3>2, <3>3 DEF Pending
  <2> QED
    BY <2>1, <2>2, <2>3 DEF Pending
<1>10. \A m \in Messages : parent'[m] = IF m \in R THEN p ELSE parent[m]
  BY DEF Claim
<1>11. phase = "scan"
  BY <1>1 DEF Inv, Outside, Claim
<1> QED
  BY <1>4, <1>6, <1>7, <1>8, <1>9, <1>10, <1>11

LEMMA ClaimTypes ==
  ASSUME Inv, Claim
  PROVE  TypeOK' /\ Outside' /\ Sorted' /\ InOrderComplete'
<1> DEFINE p == Head(stack)
           R == Replies(p)
<1>1. /\ stack' \in Seq(Messages) /\ shown' \in Seq(Messages) /\ p \in Messages
  BY ClaimShape DEF Inv
<1>2. remaining' \subseteq remaining /\ phase = "scan"
  BY ClaimSets
<1>3. mail' = mail /\ phase' = phase /\ i' = i /\ Messages' = Messages
  BY DEF Claim, Messages
<1>4. parent' \in [Messages -> Messages \cup {0}]
  BY <1>1 DEF Claim, Inv, TypeOK
<1> QED
  BY <1>1, <1>2, <1>3, <1>4 DEF Inv, TypeOK, Outside, Sorted, InOrderComplete

\* Fresh replies differ from what is waiting, and the head from what is shown.
LEMMA ClaimPlaces ==
  ASSUME Inv, Claim
  PROVE  Places'
<1> DEFINE p == Head(stack)
           R == Replies(p)
<1>0. /\ p \in Pending /\ p \notin remaining /\ p \notin OnPage
      /\ R \subseteq remaining /\ remaining' = remaining \ R
      /\ OnPage' = OnPage \cup {p} /\ Pending' = R \cup (Pending \ {p})
  BY ClaimSets
<1>1. Messages' = Messages
  BY DEF Claim, Messages
<1>2. Unrepeated(shown')
  <2>1. /\ Len(shown) \in Nat /\ Len(shown') = Len(shown) + 1
        /\ shown' \in Seq(Messages) /\ shown \in Seq(Messages)
        /\ shown'[Len(shown) + 1] = p /\ \A k \in DOMAIN shown : shown'[k] = shown[k]
    BY ClaimShape DEF Inv, TypeOK
  <2>2. DOMAIN shown' = DOMAIN shown \cup {Len(shown) + 1}
    BY <2>1
  <2>3. \A k \in DOMAIN shown : shown[k] # p
    BY <1>0 DEF OnPage
  <2> QED
    BY <2>1, <2>2, <2>3 DEF Inv, Places, Unrepeated
<1>3. Unrepeated(stack')
  <2>1. PICK q \in Listings(R) :
          \A j \in DOMAIN stack' :
            \/ j \in 1..Len(q) /\ stack'[j] = q[j]
            \/ /\ j > Len(q) /\ j - Len(q) + 1 \in 2..Len(stack)
               /\ stack'[j] = stack[j - Len(q) + 1]
    BY ClaimStack DEF Inv
  <2>2. /\ q \in Seq(R) /\ Len(q) \in Nat
        /\ \A j, k \in DOMAIN q : j < k => q[j] < q[k]
    BY <1>0, ListingsType DEF Inv, TypeOK
  <2>3. /\ stack \in Seq(Messages) /\ DOMAIN stack = 1..Len(stack) /\ Len(stack) \in Nat
        /\ stack' \in Seq(Messages) /\ DOMAIN stack' \subseteq Nat
    BY ClaimShape DEF Inv, TypeOK
  <2>4. R \cap Pending = {} /\ \A x \in R : x \in Nat
    BY <1>0 DEF Inv, Places, TypeOK, Messages
  <2> SUFFICES ASSUME NEW j \in DOMAIN stack', NEW k \in DOMAIN stack',
                      stack'[j] = stack'[k]
               PROVE  j = k
    BY DEF Unrepeated
  <2>5. j \in Nat /\ k \in Nat
    BY <2>3
  <2>6. ASSUME NEW x \in 1..Len(q), NEW y \in Nat, y - Len(q) + 1 \in 2..Len(stack),
               q[x] = stack[y - Len(q) + 1]
        PROVE  FALSE
    <3>1. q[x] \in R /\ y - Len(q) + 1 \in DOMAIN stack
      BY <2>2, <2>3, <2>6
    <3>2. stack[y - Len(q) + 1] \in Pending
      BY <3>1 DEF Pending
    <3> QED
      BY <2>4, <2>6, <3>1, <3>2
  <2>7. ASSUME j \in 1..Len(q), k \in 1..Len(q), q[j] = q[k] PROVE j = k
    <3>1. q[j] \in Nat /\ q[k] \in Nat /\ j \in DOMAIN q /\ k \in DOMAIN q
      BY <2>2, <2>4, <2>7
    <3>2. ~(j < k) /\ ~(k < j)
      BY <2>2, <2>7, <3>1
    <3> QED
      BY <2>5, <3>2
  <2>8. ASSUME j - Len(q) + 1 \in 2..Len(stack), k - Len(q) + 1 \in 2..Len(stack),
               stack[j - Len(q) + 1] = stack[k - Len(q) + 1]
        PROVE  j = k
    <3>1. j - Len(q) + 1 = k - Len(q) + 1
      BY <2>3, <2>8 DEF Inv, Places, Unrepeated
    <3> QED
      BY <2>2, <2>5, <3>1
  <2> QED
    BY <2>1, <2>5, <2>6, <2>7, <2>8
<1> QED
  BY <1>0, <1>1, <1>2, <1>3 DEF Inv, Places

\* The head goes to the page after what it replies to, and its replies wait
\* with it as their parent.
LEMMA ClaimParentage ==
  ASSUME Inv, Claim
  PROVE  Parentage' /\ RepliesUnderFirstNamed' /\ AllClaimed'
<1> DEFINE p == Head(stack)
           R == Replies(p)
           First(m, j) == /\ RepliesTo(m, shown'[j])
                          /\ \A l \in 1..(j - 1) : ~RepliesTo(m, shown'[l])
<1>0. /\ p \in Pending /\ p \notin remaining /\ p \notin OnPage
      /\ R \subseteq remaining /\ remaining' = remaining \ R
      /\ OnPage' = OnPage \cup {p} /\ Pending' = R \cup (Pending \ {p})
      /\ \A m \in Messages : parent'[m] = IF m \in R THEN p ELSE parent[m]
  BY ClaimSets
<1>1. /\ \A m : ForSlug(m)' = ForSlug(m)
      /\ \A m, x : RepliesTo(m, x)' = RepliesTo(m, x)
  BY DEF Claim, ForSlug, IsTopLevel, RepliesTo
<1>2. /\ remaining \subseteq Messages /\ Pending \subseteq Messages /\ OnPage \subseteq Messages
      /\ R \cap Pending = {} /\ R \cap OnPage = {}
      /\ p \in Messages /\ 0 \notin Messages
  BY <1>0 DEF Inv, Places, TypeOK, Messages
<1>3. AllClaimed'
  <2> SUFFICES ASSUME NEW m \in remaining', NEW x \in OnPage' PROVE ~RepliesTo(m, x)
    BY <1>1 DEF AllClaimed
  <2>1. m \in remaining /\ m \notin R
    BY <1>0
  <2>2. CASE x = p
    BY <2>1, <2>2 DEF Replies
  <2>3. CASE x # p
    BY <1>0, <2>1, <2>3 DEF Inv, AllClaimed
  <2> QED
    BY <2>2, <2>3
<1>4. /\ Len(shown) \in Nat /\ Len(shown') = Len(shown) + 1
      /\ shown' \in Seq(Messages) /\ shown \in Seq(Messages)
      /\ shown'[Len(shown) + 1] = p /\ \A k \in DOMAIN shown : shown'[k] = shown[k]
      /\ DOMAIN shown' = 1..(Len(shown) + 1) /\ DOMAIN shown = 1..Len(shown)
  BY ClaimShape DEF Inv, TypeOK
\* The page so far stays, so does the first message of it that m names.
<1>5. ASSUME NEW m, NEW j \in DOMAIN shown, FirstNamed(m, j)
      PROVE  First(m, j) /\ j \in DOMAIN shown' /\ shown'[j] = shown[j]
  <2>1. \A l \in 1..(j - 1) : l \in DOMAIN shown /\ shown'[l] = shown[l]
    BY <1>4
  <2> QED
    BY <1>4, <1>5, <2>1 DEF FirstNamed
<1>6. Parentage'
  <2>1. \A m \in remaining' : parent'[m] = 0
    BY <1>0, <1>2 DEF Inv, Parentage
  <2>2. ASSUME NEW m \in Pending'
        PROVE  IF parent'[m] = 0 THEN ForSlug(m)
               ELSE \E j \in DOMAIN shown' : shown'[j] = parent'[m] /\ First(m, j)
    <3>1. CASE m \in R
      <4>1. parent'[m] = p /\ RepliesTo(m, p)
        BY <1>0, <1>2, <3>1 DEF Replies
      <4>2. \A l \in DOMAIN shown : ~RepliesTo(m, shown[l])
        BY <1>0, <3>1 DEF Inv, AllClaimed, OnPage
      <4>3. First(m, Len(shown) + 1)
        <5>1. \A l \in 1..(Len(shown) + 1 - 1) : l \in DOMAIN shown
          BY <1>4
        <5> QED
          BY <1>4, <4>1, <4>2, <5>1
      <4> QED
        BY <1>2, <1>4, <4>1, <4>3
    <3>2. CASE m \notin R
      <4>1. m \in Pending /\ parent'[m] = parent[m]
        BY <1>0, <1>2, <2>2, <3>2
      <4> QED
        BY <1>5, <4>1 DEF Inv, Parentage
    <3> QED
      BY <3>1, <3>2
  <2> QED
    BY <1>1, <2>1, <2>2 DEF Parentage, FirstNamed
<1>7. RepliesUnderFirstNamed'
  <2> SUFFICES ASSUME NEW k \in DOMAIN shown'
               PROVE  IF parent'[shown'[k]] = 0 THEN ForSlug(shown'[k])
                      ELSE \E j \in 1..(k - 1) : /\ shown'[j] = parent'[shown'[k]]
                                                  /\ First(shown'[k], j)
    BY <1>1 DEF RepliesUnderFirstNamed, FirstNamed
  <2>1. CASE k = Len(shown) + 1
    <3>1. shown'[k] = p /\ parent'[p] = parent[p]
      BY <1>0, <1>2, <1>4, <2>1
    <3>2. IF parent[p] = 0 THEN ForSlug(p)
          ELSE \E j \in DOMAIN shown : shown[j] = parent[p] /\ FirstNamed(p, j)
      BY <1>0 DEF Inv, Parentage
    <3>3. DOMAIN shown = 1..(k - 1)
      BY <1>4, <2>1
    <3> QED
      BY <1>5, <3>1, <3>2, <3>3
  <2>2. CASE k # Len(shown) + 1
    <3>1. k \in DOMAIN shown /\ shown'[k] = shown[k]
      BY <1>4, <2>2
    <3>2. parent'[shown[k]] = parent[shown[k]]
      <4>1. shown[k] \in OnPage
        BY <3>1 DEF OnPage
      <4> QED
        BY <1>0, <1>2, <4>1
    <3>3. IF parent[shown[k]] = 0 THEN ForSlug(shown[k])
          ELSE \E j \in 1..(k - 1) : /\ shown[j] = parent[shown[k]]
                                      /\ FirstNamed(shown[k], j)
      BY <3>1 DEF Inv, RepliesUnderFirstNamed
    <3>4. \A j \in 1..(k - 1) : j \in DOMAIN shown
      BY <1>4, <3>1
    <3> QED
      BY <1>5, <3>1, <3>2, <3>3, <3>4
  <2> QED
    BY <2>1, <2>2
<1> QED
  BY <1>3, <1>6, <1>7

\* What a claim takes out comes after the head, so if replies come after what
\* they reply to, nothing ahead of the index moves.
LEMMA ClaimCursor ==
  ASSUME Inv, Claim
  PROVE  Cursor'
<1> DEFINE p == Head(stack)
           R == Replies(p)
<1>0. /\ p \in Pending /\ phase = "scan" /\ R \subseteq remaining
      /\ remaining' = remaining \ R /\ Pending' = R \cup (Pending \ {p})
  BY ClaimSets
<1>1. /\ remaining \subseteq Messages /\ p \in Messages /\ Messages \subseteq Nat
  BY <1>0 DEF Inv, Places, TypeOK, Messages
<1> SUFFICES ASSUME RepliesSortAfter
             PROVE  \E b \in Nat : /\ Cardinality(Before(b)') = i'
                                   /\ \A x \in Before(b)' : ~ForSlug(x)'
                                   /\ \A x \in Pending' : b <= x
  BY DEF Cursor, RepliesSortAfter, RepliesTo, Messages, Claim
<1>2. PICK b \in Nat : /\ Cardinality(Before(b)) = i
                       /\ \A x \in Before(b) : ~ForSlug(x)
                       /\ \A x \in Pending : b <= x
  BY <1>0 DEF Inv, Cursor
<1>3. \A x \in R : p < x
  BY <1>0, <1>1 DEF RepliesSortAfter, Replies
<1>4. \A x \in R : b <= x /\ ~(x < b)
  <2> SUFFICES ASSUME NEW x \in R PROVE b <= x /\ ~(x < b)
    OBVIOUS
  <2>1. x \in Nat /\ p \in Nat /\ b <= p /\ p < x
    BY <1>0, <1>1, <1>2, <1>3
  <2> QED
    BY <2>1
<1>5. Before(b)' = Before(b)
  BY <1>0, <1>4 DEF Before
<1>6. \A x \in Before(b)' : ~ForSlug(x)'
  BY <1>2, <1>5 DEF Claim, ForSlug, IsTopLevel
<1>7. \A x \in Pending' : b <= x
  BY <1>0, <1>2, <1>4
<1> QED
  BY <1>2, <1>5, <1>6, <1>7 DEF Claim

LEMMA ClaimOrdered ==
  ASSUME Inv, Claim
  PROVE  Ordered'
<1> DEFINE p == Head(stack)
           R == Replies(p)
<1>0. /\ p \in Pending /\ p \notin remaining /\ p \notin OnPage
      /\ R \subseteq remaining /\ remaining' = remaining \ R
      /\ \A m \in Messages : parent'[m] = IF m \in R THEN p ELSE parent[m]
  BY ClaimSets
<1>1. /\ remaining \subseteq Messages /\ Pending \subseteq Messages /\ OnPage \subseteq Messages
      /\ R \cap Pending = {} /\ R \cap OnPage = {}
      /\ p \in Messages /\ p # 0 /\ Messages' = Messages /\ i' = i /\ i \in Nat
  BY <1>0 DEF Inv, Places, TypeOK, Messages, Claim
<1>2. /\ Len(shown) \in Nat /\ Len(shown') = Len(shown) + 1
      /\ shown' \in Seq(Messages) /\ shown \in Seq(Messages)
      /\ stack \in Seq(Messages) /\ stack' \in Seq(Messages)
      /\ Len(stack) \in Nat \ {0} /\ p = stack[1]
      /\ shown'[Len(shown) + 1] = p /\ \A k \in DOMAIN shown : shown'[k] = shown[k]
  BY ClaimShape DEF Inv, TypeOK
<1>3. PICK q \in Listings(R) :
        \A j \in DOMAIN stack' :
          \/ j \in 1..Len(q) /\ stack'[j] = q[j]
          \/ /\ j > Len(q) /\ j - Len(q) + 1 \in 2..Len(stack)
             /\ stack'[j] = stack[j - Len(q) + 1]
  BY ClaimStack DEF Inv
<1>4. /\ q \in Seq(R) /\ Len(q) \in Nat
      /\ \A j, k \in DOMAIN q : j < k => q[j] < q[k]
  BY <1>0, <1>1, ListingsType DEF Inv
<1>5. \A m \in Pending : parent'[m] = parent[m] /\ parent[m] # p
  <2>1. \A m \in Pending : parent[m] = 0 \/ parent[m] \in OnPage
    BY DEF Inv, Parentage, OnPage
  <2> QED
    BY <1>0, <1>1, <2>1
<1>6. ASSUME NEW k \in DOMAIN shown
      PROVE  parent'[shown[k]] = parent[shown[k]] /\ parent[shown[k]] # p
  <2>1. shown[k] \in OnPage
    BY DEF OnPage
  <2>2. parent[shown[k]] # p
    <3> SUFFICES ASSUME parent[shown[k]] = p PROVE FALSE
      OBVIOUS
    <3>1. PICK j \in 1..(k - 1) : shown[j] = p
      BY <1>1 DEF Inv, RepliesUnderFirstNamed
    <3>2. j \in DOMAIN shown
      BY <1>2
    <3> QED
      BY <1>0, <3>1, <3>2 DEF OnPage
  <2> QED
    BY <1>0, <1>1, <2>1, <2>2
\* The kinds of element: a fresh reply, or an old one from behind the head.
<1>7. ASSUME NEW j \in DOMAIN stack'
      PROVE  \/ j \in DOMAIN q /\ stack'[j] = q[j] /\ q[j] \in R /\ parent'[q[j]] = p
             \/ /\ j > Len(q) /\ j - Len(q) + 1 \in DOMAIN stack
                /\ j - Len(q) + 1 > 1 /\ stack'[j] = stack[j - Len(q) + 1]
                /\ stack[j - Len(q) + 1] \in Pending
  <2>1. CASE j \in 1..Len(q) /\ stack'[j] = q[j]
    <3>1. j \in DOMAIN q /\ q[j] \in R
      BY <1>4, <2>1
    <3>2. parent'[q[j]] = p
      BY <1>0, <1>1, <3>1
    <3> QED
      BY <2>1, <3>1, <3>2
  <2>2. CASE /\ j > Len(q) /\ j - Len(q) + 1 \in 2..Len(stack)
             /\ stack'[j] = stack[j - Len(q) + 1]
    <3>1. j - Len(q) + 1 \in DOMAIN stack /\ j - Len(q) + 1 > 1
      BY <1>2, <2>2
    <3> QED
      BY <2>2, <3>1 DEF Pending
  <2> QED
    BY <1>3, <2>1, <2>2
<1>8. ASSUME NEW m \in Messages \ remaining', parent'[m] = 0
      PROVE  Cardinality(Before(m)') <= i
  <2>1. m \notin remaining /\ parent[m] = 0
    BY <1>0, <1>1, <1>8
  <2>2. Cardinality(Before(m)) <= i
    BY <1>8, <2>1 DEF Inv, Ordered
  <2>3. Before(m)' \subseteq Before(m) /\ Before(m) \subseteq Messages
    BY <1>0, <1>1 DEF Before
  <2>4. IsFiniteSet(Before(m)) /\ Cardinality(Before(m)) \in Nat
    BY <2>3, MessagesFinite DEF Inv, TypeOK
  <2>5. IsFiniteSet(Before(m)') /\ Cardinality(Before(m)') <= Cardinality(Before(m))
    BY <2>3, <2>4, FS_Subset
  <2>6. Cardinality(Before(m)') \in Nat
    BY <2>5, FS_CardinalityType
  <2> QED
    BY <1>1, <2>2, <2>4, <2>5, <2>6
<1>9. ASSUME NEW j \in DOMAIN stack', NEW k \in DOMAIN stack', j < k,
             parent'[stack'[j]] = parent'[stack'[k]]
      PROVE  stack'[j] < stack'[k]
  <2>0. j \in Nat /\ k \in Nat
    BY <1>2
  <2>1. CASE j \in DOMAIN q /\ k \in DOMAIN q /\ stack'[j] = q[j] /\ stack'[k] = q[k]
    BY <1>4, <1>9, <2>1
  <2>2. CASE /\ stack'[j] = stack[j - Len(q) + 1] /\ stack'[k] = stack[k - Len(q) + 1]
             /\ j - Len(q) + 1 \in DOMAIN stack /\ k - Len(q) + 1 \in DOMAIN stack
             /\ stack[j - Len(q) + 1] \in Pending /\ stack[k - Len(q) + 1] \in Pending
    <3>1. j - Len(q) + 1 < k - Len(q) + 1
      BY <1>4, <1>9, <2>0
    <3>2. parent[stack[j - Len(q) + 1]] = parent[stack[k - Len(q) + 1]]
      BY <1>5, <1>9, <2>2
    <3> QED
      BY <2>2, <3>1, <3>2 DEF Inv, Ordered
  <2>3. CASE \/ /\ stack'[j] = q[j] /\ parent'[q[j]] = p
                /\ stack'[k] \in Pending
             \/ /\ stack'[k] = q[k] /\ parent'[q[k]] = p
                /\ stack'[j] \in Pending
    BY <1>5, <1>9, <2>3
  <2> QED
    BY <1>7, <2>1, <2>2, <2>3
<1>10. DOMAIN shown' = DOMAIN shown \cup {Len(shown) + 1}
       /\ DOMAIN shown = 1..Len(shown)
  BY <1>2
<1>11. ASSUME NEW j \in DOMAIN shown', NEW k \in DOMAIN stack',
              parent'[shown'[j]] = parent'[stack'[k]]
       PROVE  shown'[j] < stack'[k]
  <2>1. CASE stack'[k] = q[k] /\ q[k] \in R /\ parent'[q[k]] = p
    <3>1. CASE j \in DOMAIN shown
      BY <1>2, <1>6, <1>11, <2>1, <3>1
    <3>2. CASE j = Len(shown) + 1
      BY <1>0, <1>2, <1>5, <1>11, <2>1, <3>2
    <3> QED
      BY <1>10, <3>1, <3>2
  <2>2. CASE /\ k - Len(q) + 1 \in DOMAIN stack /\ k - Len(q) + 1 > 1
             /\ stack'[k] = stack[k - Len(q) + 1] /\ stack[k - Len(q) + 1] \in Pending
    <3>1. parent'[stack'[k]] = parent[stack[k - Len(q) + 1]]
      BY <1>5, <2>2
    <3>2. CASE j \in DOMAIN shown
      <4>1. shown'[j] = shown[j] /\ parent'[shown[j]] = parent[shown[j]]
        BY <1>2, <1>6, <3>2
      <4> QED
        BY <1>11, <2>2, <3>1, <3>2, <4>1 DEF Inv, Ordered
    <3>3. CASE j = Len(shown) + 1
      <4>1. shown'[j] = stack[1] /\ parent'[stack[1]] = parent[stack[1]]
        BY <1>0, <1>2, <1>5, <3>3
      <4>2. 1 \in DOMAIN stack /\ 1 < k - Len(q) + 1
        BY <1>2, <2>2
      <4> QED
        BY <1>11, <2>2, <3>1, <4>1, <4>2 DEF Inv, Ordered
    <3> QED
      BY <1>10, <3>2, <3>3
  <2> QED
    BY <1>7, <2>1, <2>2
<1>12. ASSUME NEW j \in DOMAIN shown', NEW k \in DOMAIN shown', j < k,
              parent'[shown'[j]] = parent'[shown'[k]]
       PROVE  shown'[j] < shown'[k]
  <2>1. j \in DOMAIN shown
    BY <1>2, <1>10, <1>12
  <2>2. shown'[j] = shown[j] /\ parent'[shown[j]] = parent[shown[j]]
    BY <1>2, <1>6, <2>1
  <2>3. CASE k \in DOMAIN shown
    <3>1. shown'[k] = shown[k] /\ parent'[shown[k]] = parent[shown[k]]
      BY <1>2, <1>6, <2>3
    <3> QED
      BY <1>12, <2>1, <2>2, <2>3, <3>1 DEF Inv, Ordered
  <2>4. CASE k = Len(shown) + 1
    <3>1. shown'[k] = stack[1] /\ parent'[stack[1]] = parent[stack[1]]
      BY <1>0, <1>2, <1>5, <2>4
    <3>2. 1 \in DOMAIN stack
      BY <1>2
    <3> QED
      BY <1>12, <2>1, <2>2, <3>1, <3>2 DEF Inv, Ordered
  <2> QED
    BY <1>10, <2>3, <2>4
<1> QED
  BY <1>1, <1>8, <1>9, <1>11, <1>12 DEF Ordered

-----------------------------------------------------------------------------
(* The invariants *)

LEMMA NextInv == Inv /\ [Next]_vars => Inv'
<1> SUFFICES ASSUME Inv, [Next]_vars PROVE Inv'
  OBVIOUS
<1>1. CASE Sort
  BY <1>1, SortInv
<1>2. ASSUME NEW m \in Messages, TakeTopLevel(m) PROVE Inv'
  BY <1>2, TakeTopLevelInv
<1>3. ASSUME NEW m \in Messages, PassOver(m) PROVE Inv'
  BY <1>3, PassOverInv
<1>4. CASE Claim
  BY <1>4, ClaimTypes, ClaimPlaces, ClaimParentage, ClaimOrdered, ClaimCursor DEF Inv
<1>5. CASE Finish
  BY <1>5, FinishInv
<1>6. CASE UNCHANGED vars
  <2>1. TypeOK' /\ Outside' /\ Sorted'
    BY <1>6 DEF vars, Inv, TypeOK, Outside, Sorted, Messages
  <2>2. Places'
    BY <1>6 DEF vars, Inv, Places, Messages, Pending, OnPage, Unrepeated
  <2>3. Parentage' /\ RepliesUnderFirstNamed'
    BY <1>6 DEF vars, Inv, Parentage, Pending, OnPage, RepliesUnderFirstNamed, FirstNamed, ForSlug,
       IsTopLevel, RepliesTo
  <2>4. AllClaimed' /\ Ordered' /\ InOrderComplete'
    BY <1>6 DEF vars, Inv, AllClaimed, Ordered, Messages, OnPage, RepliesTo, Before,
       InOrderComplete, RepliesSortAfter, ForSlug, IsTopLevel
  <2>5. Cursor'
    BY <1>6 DEF vars, Inv, Cursor, RepliesSortAfter, Messages, Pending, RepliesTo, Before,
       ForSlug, IsTopLevel
  <2> QED
    BY <2>1, <2>2, <2>3, <2>4, <2>5 DEF Inv
<1> QED
  BY <1>1, <1>2, <1>3, <1>4, <1>5, <1>6 DEF Next

\* Inv holds in every reachable state.
THEOREM Invariance == Spec => []Inv
  BY InitInv, NextInv, PTL DEF Spec

\* Every variable keeps its type; in particular the index stays in the vector.
THEOREM TypeCorrect == Spec => []TypeOK
<1>1. Inv => TypeOK
  BY DEF Inv
<1> QED
  BY <1>1, Invariance, PTL

LEMMA InvEachOnce == Inv => EachOnce
<1> SUFFICES ASSUME Inv PROVE EachOnce
  OBVIOUS
<1>1. Len(shown) = Cardinality(OnPage)
  BY UnrepeatedLength DEF Inv, TypeOK, Places, OnPage
<1>2. Len(stack) = Cardinality(Pending)
  BY UnrepeatedLength DEF Inv, TypeOK, Places, Pending
<1> QED
  BY <1>1, <1>2 DEF Inv, Places, EachOnce

\* No message is lost, claimed twice or shown twice, for any headers.
THEOREM EachMessageOnce == Spec => []EachOnce
  BY InvEachOnce, Invariance, PTL

\* The page is a forest in display order, even if the headers form a cycle: a
\* reply stands under the first message shown that it names, be that only an
\* ancestor of the one it answers.
THEOREM PageIsForest == Spec => []RepliesUnderFirstNamed
<1>1. Inv => RepliesUnderFirstNamed
  BY DEF Inv
<1> QED
  BY <1>1, Invariance, PTL

\* No reply to a message on the page is left out.
THEOREM RepliesAreShown == Spec => []NoReplyLeftBehind
<1>1. Inv => NoReplyLeftBehind
  BY DEF Inv, AllClaimed, NoReplyLeftBehind
<1> QED
  BY <1>1, Invariance, PTL

\* Siblings are displayed in the order sent, at any depth.
THEOREM DisplayOrder == Spec => []SiblingsInOrder
<1>1. Inv => SiblingsInOrder
  <2> SUFFICES ASSUME Inv, NEW j \in DOMAIN shown, NEW k \in DOMAIN shown, j < k,
                      parent[shown[j]] = parent[shown[k]]
               PROVE  mail[shown[j]].sent <= mail[shown[k]].sent
    BY DEF SiblingsInOrder
  <2>1. shown[j] < shown[k]
    BY DEF Inv, Ordered
  <2>2. shown[j] \in Messages /\ shown[k] \in Messages
    BY DEF Inv, TypeOK
  <2>3. shown # <<>>
    BY DEF Inv, TypeOK
  <2>4. phase # "sort"
    BY <2>3 DEF Inv, Outside
  <2> QED
    BY <2>1, <2>2, <2>4 DEF Inv, Sorted
<1> QED
  BY <1>1, Invariance, PTL

\* If in the sorted result every reply comes after all the messages it names,
\* every top-level message for the slug is shown.
THEOREM TopLevelComplete == Spec => []InOrderComplete
<1>1. Inv => InOrderComplete
  BY DEF Inv
<1> QED
  BY <1>1, Invariance, PTL

\* A reply composed by the web form is shown directly under what it answers.
THEOREM WebRepliesNest == Spec => []WebReplyNests
<1>1. Inv => WebReplyNests
  <2> SUFFICES ASSUME Inv, phase = "done", NEW m \in Messages, NEW p \in Messages,
                      ComposedReply(m, p), p \in OnPage
               PROVE  /\ m \in OnPage /\ parent[m] # 0
                      /\ mail[parent[m]].id = mail[p].id
    BY DEF WebReplyNests, DirectlyUnder
  <2>1. m \in OnPage
    <3>1. m \notin remaining
      BY DEF Inv, AllClaimed, ComposedReply, RepliesTo
    <3>2. Pending = {}
      BY DEF Inv, Outside, Pending
    <3> QED
      BY <3>1, <3>2 DEF Inv, Places
  <2>2. mail[p] \in Message
    BY DEF Inv, TypeOK, Messages
  <2>3. mail[m].in_reply_to # NoId
    BY <2>2, ThreadConstants DEF ComposedReply, Message, ThreadConstants
  <2>4. IF parent[m] = 0 THEN ForSlug(m) ELSE RepliesTo(m, parent[m])
    <3>1. PICK k \in DOMAIN shown : shown[k] = m
      BY <2>1 DEF OnPage
    <3> QED
      BY <3>1 DEF Inv, RepliesUnderFirstNamed, FirstNamed
  <2>5. parent[m] # 0 /\ RepliesTo(m, parent[m])
    BY <2>3, <2>4 DEF ForSlug, IsTopLevel
  <2> QED
    BY <2>1, <2>5 DEF RepliesTo, ComposedReply
<1> QED
  BY <1>1, Invariance, PTL
-----------------------------------------------------------------------------
(* Termination: every step counts down, and there is a step to take *)

\* The page is no longer than the search result, so nothing of what is left to
\* do is negative.
LEMMA StepsNat == Inv => StepsLeft \in Nat
<1> SUFFICES ASSUME Inv PROVE StepsLeft \in Nat
  OBVIOUS
<1>1. Cardinality(remaining) \in Nat
  BY MessagesFinite DEF Inv, TypeOK
<1>2. OnPage \subseteq Messages
  BY DEF Inv, TypeOK, OnPage
<1>3. Cardinality(OnPage) <= Len(mail)
  BY <1>2, MessagesFinite DEF Inv, TypeOK
<1>4. Len(shown) \in Nat /\ Len(shown) <= Len(mail)
  BY <1>3, InvEachOnce DEF Inv, TypeOK, EachOnce
<1> QED
  BY <1>1, <1>4 DEF Inv, TypeOK, StepsLeft

LEMMA StepsDecrease == Inv /\ Next => StepsLeft' < StepsLeft
<1> SUFFICES ASSUME Inv, Next PROVE StepsLeft' < StepsLeft
  OBVIOUS
<1>0. /\ Cardinality(remaining) \in Nat /\ IsFiniteSet(remaining)
      /\ Len(mail) \in Nat /\ Len(shown) \in Nat /\ i \in Nat
  BY MessagesFinite DEF Inv, TypeOK
<1>1. CASE Sort
  <2>1. Len(mail') = Len(mail)
    BY <1>1 DEF Sort, StableSorts, Messages, Inv, TypeOK
  <2>2. /\ phase = "sort" /\ phase' \in {"scan", "rejected"}
        /\ UNCHANGED <<remaining, i, shown>>
    BY <1>1 DEF Sort
  <2> QED
    BY <1>0, <2>1, <2>2 DEF StepsLeft
<1>2. ASSUME NEW m \in Messages, TakeTopLevel(m) PROVE StepsLeft' < StepsLeft
  <2>1. Cardinality(remaining') = Cardinality(remaining) - 1
    BY <1>0, <1>2, FS_RemoveElement DEF TakeTopLevel, At
  <2> QED
    BY <1>0, <1>2, <2>1 DEF TakeTopLevel, StepsLeft
<1>3. ASSUME NEW m \in Messages, PassOver(m) PROVE StepsLeft' < StepsLeft
  BY <1>0, <1>3 DEF PassOver, StepsLeft
<1>4. CASE Claim
  <2>1. /\ Cardinality(remaining') <= Cardinality(remaining)
        /\ Cardinality(remaining') \in Nat
    BY <1>0, <1>4, FS_Subset, FS_CardinalityType DEF Claim
  <2>2. Len(shown') = Len(shown) + 1
    BY <1>4 DEF Claim, Inv, TypeOK
  <2> QED
    BY <1>0, <1>4, <2>1, <2>2 DEF Claim, StepsLeft
<1>5. CASE Finish
  BY <1>0, <1>5 DEF Finish, StepsLeft
<1> QED
  BY <1>1, <1>2, <1>3, <1>4, <1>5 DEF Next

\* Every step of resolve brings its end nearer, for any headers, so it takes
\* at most 3 * Len(mail) + 2 of them.
THEOREM ResolveCountsDown == Spec => StepsBounded
<1>1. Inv /\ Inv' /\ [Next]_vars => [StepsLeft' \in 0..(StepsLeft - 1)]_vars
  <2> SUFFICES ASSUME Inv, Inv', Next PROVE StepsLeft' \in 0..(StepsLeft - 1)
    OBVIOUS
  <2>1. (Inv => StepsLeft \in Nat)'
    BY StepsNat, PTL
  <2> QED
    BY <2>1, StepsNat, StepsDecrease
<1> QED
  BY <1>1, Invariance, PTL DEF Spec, StepsBounded

\* A finite set with a strict total order R on it can be listed along R.
LEMMA Listed ==
  ASSUME NEW S, IsFiniteSet(S), NEW R,
         \A x \in S : <<x, x>> \notin R,
         \A x, y \in S : x # y => <<x, y>> \in R \/ <<y, x>> \in R,
         \A x, y, z \in S : <<x, y>> \in R /\ <<y, z>> \in R => <<x, z>> \in R
  PROVE  \E q \in [1..Cardinality(S) -> S] :
           /\ \A x \in S : \E k \in 1..Cardinality(S) : q[k] = x
           /\ \A j, k \in 1..Cardinality(S) : j < k => <<q[j], q[k]>> \in R
<1> DEFINE n == Cardinality(S)
           Upto(x) == {y \in S : y = x \/ <<y, x>> \in R}
           rank == [x \in S |-> Cardinality(Upto(x))]
<1>0. n \in Nat
  BY FS_CardinalityType
<1>1. ASSUME NEW x \in S
      PROVE  /\ IsFiniteSet(Upto(x)) /\ Cardinality(Upto(x)) \in Nat
             /\ rank[x] = Cardinality(Upto(x)) /\ rank[x] \in 1..n
  <2>1. Upto(x) \in SUBSET S /\ {x} \in SUBSET Upto(x)
    OBVIOUS
  <2>2. IsFiniteSet(Upto(x)) /\ Cardinality(Upto(x)) <= n
    BY <2>1, FS_Subset
  <2> HIDE DEF Upto
  <2>3. Cardinality({x}) = 1 /\ Cardinality({x}) <= Cardinality(Upto(x))
    BY <2>1, <2>2, FS_Subset, FS_Singleton
  <2>4. Cardinality(Upto(x)) \in Nat
    BY <2>2, FS_CardinalityType
  <2> QED
    BY <1>0, <2>2, <2>3, <2>4
<1>2. ASSUME NEW x \in S, NEW y \in S, <<x, y>> \in R PROVE rank[x] < rank[y]
  <2>1. Upto(x) \in SUBSET Upto(y)
    BY <1>2
  <2>2. y \notin Upto(x) /\ y \in Upto(y)
    BY <1>2
  <2>3. /\ Cardinality(Upto(x)) <= Cardinality(Upto(y))
        /\ Cardinality(Upto(x)) = Cardinality(Upto(y)) => Upto(y) = Upto(x)
    BY <1>1, <2>1, FS_Subset
  <2>4. Cardinality(Upto(x)) # Cardinality(Upto(y))
    BY <2>2, <2>3
  <2> HIDE DEF Upto
  <2> QED
    BY <1>1, <2>3, <2>4
<1> HIDE DEF rank, n, Upto
<1>3. rank \in Injection(S, 1..n)
  <2>1. rank \in [S -> 1..n]
    BY <1>1 DEF rank
  <2>2. ASSUME NEW x \in S, NEW y \in S, x # y PROVE rank[x] # rank[y]
    <3>1. rank[x] < rank[y] \/ rank[y] < rank[x]
      BY <1>2, <2>2
    <3> QED
      BY <1>1, <3>1
  <2> QED
    BY <2>1, <2>2 DEF Injection, IsInjective
<1>4. IsFiniteSet(1..n) /\ Cardinality(1..n) = n
  BY <1>0, FS_Interval
<1>5. rank \in Surjection(S, 1..n)
  BY <1>3, <1>4, FS_Injection DEF n
<1>6. \A k \in 1..n : \E x \in S : rank[x] = k
  BY <1>5 DEF Surjection
<1> DEFINE q == [k \in 1..n |-> CHOOSE x \in S : rank[x] = k]
<1>7. \A k \in 1..n : q[k] \in S /\ rank[q[k]] = k
  BY <1>6
<1> HIDE DEF q
<1>8. q \in [1..n -> S]
  BY <1>7 DEF q
<1>9. ASSUME NEW x \in S PROVE \E k \in 1..n : q[k] = x
  <2>1. rank[x] \in 1..n /\ rank[q[rank[x]]] = rank[x] /\ q[rank[x]] \in S
    BY <1>1, <1>7
  <2> QED
    BY <1>3, <2>1 DEF Injection, IsInjective
<1>10. ASSUME NEW j \in 1..n, NEW k \in 1..n, j < k PROVE <<q[j], q[k]>> \in R
  <2>1. /\ q[j] \in S /\ q[k] \in S /\ rank[q[j]] < rank[q[k]]
        /\ rank[q[j]] \in Nat /\ rank[q[k]] \in Nat
    BY <1>0, <1>7, <1>10
  <2>2. ~(rank[q[k]] < rank[q[j]])
    BY <2>1
  <2>3. q[j] # q[k]
    BY <2>1
  <2> QED
    BY <1>2, <2>1, <2>2, <2>3
<1> QED
  BY <1>8, <1>9, <1>10 DEF n

LEMMA ListingsExist ==
  ASSUME TypeOK, NEW S \in SUBSET Messages
  PROVE  Listings(S) # {}
<1> DEFINE R == {x \in S \X S : x[1] < x[2]}
<1>1. IsFiniteSet(S)
  BY MessagesFinite DEF TypeOK
<1>2. \A x, y \in S : <<x, y>> \in R <=> x < y
  OBVIOUS
<1>3. \A x \in S : x \in Nat
  BY DEF TypeOK, Messages
<1> HIDE DEF R
<1>4. /\ \A x \in S : <<x, x>> \notin R
      /\ \A x, y \in S : x # y => <<x, y>> \in R \/ <<y, x>> \in R
      /\ \A x, y, z \in S : <<x, y>> \in R /\ <<y, z>> \in R => <<x, z>> \in R
  BY <1>2, <1>3
<1>5. PICK q \in [1..Cardinality(S) -> S] :
        /\ \A x \in S : \E k \in 1..Cardinality(S) : q[k] = x
        /\ \A j, k \in 1..Cardinality(S) : j < k => <<q[j], q[k]>> \in R
  BY <1>1, <1>4, Listed
<1>6. q \in Listings(S)
  BY <1>2, <1>5 DEF Listings
<1> QED
  BY <1>6

\* Send times with ties broken by place order the messages totally.
LEMMA StableSortsExist == TypeOK => StableSorts # {}
<1> SUFFICES ASSUME TypeOK PROVE StableSorts # {}
  OBVIOUS
<1> DEFINE Ahead(x, y) == \/ mail[x].sent < mail[y].sent
                          \/ mail[x].sent = mail[y].sent /\ x < y
           R == {x \in Messages \X Messages : Ahead(x[1], x[2])}
<1>1. IsFiniteSet(Messages) /\ Messages = 1..Len(mail) /\ Len(mail) \in Nat
  BY MessagesFinite DEF TypeOK, Messages
<1>2. Cardinality(Messages) = Len(mail)
  BY <1>1, FS_Interval
<1>3. \A x \in Messages : x \in Nat /\ mail[x].sent \in Nat
  <2>1. \A x \in Messages : mail[x] \in Message /\ x \in Nat
    BY <1>1 DEF TypeOK
  <2> QED
    BY <2>1 DEF Message
<1>4. \A x, y \in Messages : <<x, y>> \in R <=> Ahead(x, y)
  OBVIOUS
<1> HIDE DEF R
<1>5. /\ \A x \in Messages : <<x, x>> \notin R
      /\ \A x, y \in Messages : x # y => <<x, y>> \in R \/ <<y, x>> \in R
      /\ \A x, y, z \in Messages :
           <<x, y>> \in R /\ <<y, z>> \in R => <<x, z>> \in R
  BY <1>3, <1>4
<1>6. PICK p \in [1..Cardinality(Messages) -> Messages] :
        \A j, k \in 1..Cardinality(Messages) : j < k => <<p[j], p[k]>> \in R
  BY <1>1, <1>5, Listed
<1>7. p \in StableSorts
  BY <1>1, <1>2, <1>4, <1>6 DEF StableSorts
<1> QED
  BY <1>7

\* While there is a message at or after the index, one is at the index.
LEMMA SomeAt ==
  ASSUME TypeOK, i < Cardinality(remaining)
  PROVE  \E m \in Messages : At(m)
<1>1. PICK q \in Listings(remaining) : TRUE
  BY ListingsExist DEF TypeOK
<1> DEFINE n == Cardinality(remaining)
           m == q[i + 1]
<1>2. /\ q \in [1..n -> remaining] /\ i + 1 \in 1..n /\ m \in remaining
      /\ n \in Nat /\ i \in Nat
  BY MessagesFinite DEF TypeOK, Listings
<1>3. \A x \in remaining : x \in Nat
  BY DEF TypeOK, Messages
<1>4. ASSUME NEW j \in 1..n, NEW k \in 1..n PROVE q[j] < q[k] <=> j < k
  <2>1. /\ j < k => q[j] < q[k]
        /\ k < j => q[k] < q[j]
        /\ j = k => q[j] = q[k]
    BY <1>2 DEF Listings
  <2>2. q[j] \in Nat /\ q[k] \in Nat
    BY <1>2, <1>3
  <2> QED
    BY <1>2, <2>1, <2>2
<1> DEFINE B == {x \in remaining : x < m}
           f == [k \in 1..i |-> q[k]]
<1>5. \A k \in 1..i : k \in 1..n /\ q[k] \in B
  BY <1>2, <1>4
<1>6. \A x \in B : \E k \in 1..i : q[k] = x
  <2> SUFFICES ASSUME NEW x \in B PROVE \E k \in 1..i : q[k] = x
    OBVIOUS
  <2>1. PICK k \in 1..n : q[k] = x
    BY <1>2 DEF Listings
  <2>2. k < i + 1
    BY <1>2, <1>4, <2>1
  <2> QED
    BY <1>2, <2>1, <2>2
<1>7. f \in Surjection(1..i, B)
  BY <1>5, <1>6 DEF Surjection
<1>8. f \in Injection(1..i, B)
  <2>1. ASSUME NEW j \in 1..i, NEW k \in 1..i, j # k PROVE q[j] # q[k]
    <3>1. j < k \/ k < j
      BY <1>2, <2>1
    <3>2. q[j] < q[k] \/ q[k] < q[j]
      BY <1>4, <1>5, <3>1
    <3>3. q[j] \in Nat /\ q[k] \in Nat
      BY <1>3, <1>5
    <3> QED
      BY <3>2, <3>3
  <2> QED
    BY <1>5, <2>1 DEF Injection, IsInjective
<1>9. Cardinality(B) = i
  <2>1. IsFiniteSet(1..i) /\ Cardinality(1..i) = i
    BY <1>2, FS_Interval
  <2> QED
    BY <1>7, <1>8, <2>1, FS_Surjection
<1>10. At(m) /\ m \in Messages
  BY <1>2, <1>9 DEF At, TypeOK
<1> QED
  BY <1>10

\* What the guards of Next ask for, in some state before the end.
CanStep ==
  \/ phase = "sort" /\ StableSorts # {}
  \/ stack # <<>> /\ Listings(Replies(Head(stack))) # {}
  \/ phase = "scan" /\ stack = <<>> /\ (i >= Cardinality(remaining) \/ \E m \in Messages : At(m))

\* Until resolve has returned it can go on: the sort and the claims have an
\* outcome, and the index is at a message or past the last one.  As every step
\* counts down, resolve returns on every input.
THEOREM ResolveNeverStuck == Spec => [](phase \in {"done", "rejected"} \/ CanStep)
<1>1. Inv => phase \in {"done", "rejected"} \/ CanStep
  <2> SUFFICES ASSUME Inv, phase \notin {"done", "rejected"} PROVE CanStep
    OBVIOUS
  <2>1. TypeOK /\ Cardinality(remaining) \in Nat /\ i \in Nat
    BY MessagesFinite DEF Inv, TypeOK
  <2>2. Replies(Head(stack)) \in SUBSET Messages
    BY <2>1 DEF TypeOK, Replies
  <2>3. Listings(Replies(Head(stack))) # {} /\ StableSorts # {}
    BY <2>1, <2>2, ListingsExist, StableSortsExist
  <2>4. i >= Cardinality(remaining) \/ \E m \in Messages : At(m)
    BY <2>1, SomeAt
  <2> QED
    BY <2>1, <2>3, <2>4 DEF CanStep, TypeOK
<1> QED
  BY <1>1, Invariance, PTL
=============================================================================
