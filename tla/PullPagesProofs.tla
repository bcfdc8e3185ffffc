--------------------------- MODULE PullPagesProofs ---------------------------
(* Proofs about PullPages, for every server, every limit and any length of  *)
(* a pull.                                                                  *)
EXTENDS PullPages, TLAPS

(* What pull has collected is what was sent, until it throws.               *)
KeptInv ==
  /\ seenKeys = Ids(items)
  /\ phase # "thrown" => items = sent /\ ciphertextBytes = weight /\ Distinct(sent)
  /\ phase \in {"ask", "wait"} =>
       IF recipientRevision = None THEN revisions = {} ELSE revisions = {recipientRevision}
  /\ phase = "returned" =>
       recipientRevision \in Revision /\ revisions = {recipientRevision}

(* The cursors followed are those asked for, but for the first request's    *)
(* null and the one to be asked for next.                                   *)
CursorInv ==
  /\ phase = "ask" =>
       cursor \notin asked /\ seenCursors \cup {None} = asked \cup {cursor}
  /\ phase = "wait" => asked = seenCursors \cup {None} /\ pageNumber < MaxPages

(* An honest server has sent nothing but full pages so far.                 *)
FullInv ==
  plain /\ phase \in {"ask", "wait"} => Len(sent) = Limit * pageNumber

PullInv ==
  TypeOK /\ KeptInv /\ CursorInv /\ FullInv /\ PullBounded /\ LimitsLenient

LEMMA ResponseType ==
  ASSUME NEW r \in Response
  PROVE  /\ r.keys \in Seq(Key) /\ r.bytes \in Nat /\ r.bytes \in Weight
         /\ r.revision \in Revision /\ r.revision \in Nat
         /\ r.cursor \in Cursor \cup {None} /\ r.done \in BOOLEAN
         /\ r.revision # None
<1>1. PICK n \in 0 .. Limit + 1 : r.keys \in [1 .. n -> Key]
  BY DEF Response, Pages
<1>2. n \in Nat
  BY <1>1, LimitsAssumption
<1>3. r.keys \in Seq(Key)
  BY <1>1, <1>2
<1> QED
  BY <1>3, SizesAssumption, NoneAssumption DEF Response

(* What comes after a sequence keeps it distinct when it is distinct itself *)
(* and shares nothing with it: what NewKeys asks for.                       *)
LEMMA Appending ==
  ASSUME NEW s \in Seq(Key), NEW t \in Seq(Key)
  PROVE  /\ Ids(s \o t) = Ids(s) \cup Ids(t)
         /\ Distinct(s \o t) <=>
              /\ Distinct(s)
              /\ \A i \in DOMAIN t : t[i] \notin Ids(s) /\ \A j \in 1 .. i - 1 : t[j] # t[i]
<1> DEFINE u == s \o t
<1>1. /\ Len(u) = Len(s) + Len(t) /\ Len(s) \in Nat /\ Len(t) \in Nat
      /\ DOMAIN u = 1 .. Len(u) /\ DOMAIN s = 1 .. Len(s) /\ DOMAIN t = 1 .. Len(t)
  OBVIOUS
<1>2. \A i \in DOMAIN s : i \in DOMAIN u /\ u[i] = s[i]
  OBVIOUS
<1>3. \A i \in DOMAIN t : i + Len(s) \in DOMAIN u /\ u[i + Len(s)] = t[i]
  OBVIOUS
<1>4. \A i \in DOMAIN u : i \in DOMAIN s \/ (i - Len(s) \in DOMAIN t /\ u[i] = t[i - Len(s)])
  OBVIOUS
<1> HIDE DEF u
<1>5. Ids(u) = Ids(s) \cup Ids(t)
  <2>1. Ids(u) \subseteq Ids(s) \cup Ids(t)
    BY <1>2, <1>4 DEF Ids
  <2>2. Ids(s) \cup Ids(t) \subseteq Ids(u)
    BY <1>2, <1>3 DEF Ids
  <2> QED
    BY <2>1, <2>2
<1>6. ASSUME Distinct(u)
      PROVE  /\ Distinct(s)
             /\ \A i \in DOMAIN t : t[i] \notin Ids(s) /\ \A j \in 1 .. i - 1 : t[j] # t[i]
  <2>1. Distinct(s)
    BY <1>2, <1>6 DEF Distinct
  <2>2. \A i \in DOMAIN t : t[i] \notin Ids(s)
    <3>1. ASSUME NEW i \in DOMAIN t, NEW j \in DOMAIN s, t[i] = s[j]
          PROVE  FALSE
      <4>1. i + Len(s) = j
        BY <1>2, <1>3, <1>6, <3>1 DEF Distinct
      <4> QED
        BY <4>1, <1>1
    <3> QED
      BY <3>1 DEF Ids
  <2>3. ASSUME NEW i \in DOMAIN t, NEW j \in 1 .. i - 1, t[j] = t[i]
        PROVE  FALSE
    <3>1. j \in DOMAIN t
      BY <1>1
    <3>2. i + Len(s) = j + Len(s)
      BY <1>3, <1>6, <2>3, <3>1 DEF Distinct
    <3> QED
      BY <3>2, <1>1
  <2> QED
    BY <2>1, <2>2, <2>3
<1>7. ASSUME Distinct(s),
             \A i \in DOMAIN t : t[i] \notin Ids(s) /\ \A j \in 1 .. i - 1 : t[j] # t[i]
      PROVE  Distinct(u)
  <2>1. ASSUME NEW i \in DOMAIN t, NEW j \in DOMAIN t, t[i] = t[j]
        PROVE  i = j
    <3>1. ~(i < j) /\ ~(j < i)
      BY <1>1, <1>7, <2>1
    <3> QED
      BY <3>1, <1>1
  <2>2. ASSUME NEW i \in DOMAIN u, NEW j \in DOMAIN u, u[i] = u[j]
        PROVE  i = j
    <3>1. CASE i \in DOMAIN s /\ j \in DOMAIN s
      BY <1>2, <1>7, <2>2, <3>1 DEF Distinct
    <3>2. CASE i \in DOMAIN s /\ j \notin DOMAIN s
      <4>1. s[i] = t[j - Len(s)] /\ j - Len(s) \in DOMAIN t
        BY <1>2, <1>4, <2>2, <3>2
      <4> QED
        BY <4>1, <1>7, <3>2 DEF Ids
    <3>3. CASE i \notin DOMAIN s /\ j \in DOMAIN s
      <4>1. s[j] = t[i - Len(s)] /\ i - Len(s) \in DOMAIN t
        BY <1>2, <1>4, <2>2, <3>3
      <4> QED
        BY <4>1, <1>7, <3>3 DEF Ids
    <3>4. CASE i \notin DOMAIN s /\ j \notin DOMAIN s
      <4>1. /\ i - Len(s) \in DOMAIN t /\ j - Len(s) \in DOMAIN t
            /\ t[i - Len(s)] = t[j - Len(s)]
        BY <1>4, <2>2, <3>4
      <4>2. i - Len(s) = j - Len(s)
        BY <4>1, <2>1
      <4> QED
        BY <4>2, <1>1
    <3> QED
      BY <3>1, <3>2, <3>3, <3>4
  <2> QED
    BY <2>2 DEF Distinct
<1> QED
  BY <1>5, <1>6, <1>7 DEF u

(* A page that is accepted leaves the collection distinct, and one that is  *)
(* honest and within the limits is accepted.                                *)
LEMMA Accepting ==
  ASSUME PullInv, phase = "wait", NEW r \in Response
  PROVE  /\ Accepts(r) => Distinct(sent \o r.keys)
         /\ Honest(r) /\ Fits(r) => Accepts(r)
<1>1. /\ sent \in Seq(Key) /\ r.keys \in Seq(Key)
      /\ seenKeys = Ids(sent) /\ Distinct(sent)
  BY ResponseType DEF PullInv, TypeOK, KeptInv
<1>2. Distinct(sent \o r.keys) <=> NewKeys(r.keys)
  BY <1>1, Appending DEF NewKeys
<1>3. Honest(r) => SameRevision(r)
  BY DEF PullInv, KeptInv, Honest, SameRevision
<1> QED
  BY <1>2, <1>3 DEF Accepts, Honest

LEMMA Taking ==
  ASSUME PullInv, phase = "wait", NEW r \in Response, Accepts(r), Take(r), Record(r)
  PROVE  /\ items' \in Seq(Key) /\ seenKeys' \subseteq Key /\ ciphertextBytes' \in Nat
         /\ recipientRevision' = r.revision /\ recipientRevision' \in Revision
         /\ sent' \in Seq(Key) /\ weight' \in Nat /\ revisions' \subseteq Revision
         /\ plain' \in BOOLEAN
         /\ seenKeys' = Ids(items') /\ items' = sent' /\ ciphertextBytes' = weight'
         /\ Distinct(sent') /\ revisions' = {r.revision}
         /\ Len(sent') = Len(sent) + Len(r.keys)
         /\ PullBounded'
<1>1. /\ r.keys \in Seq(Key) /\ r.bytes \in Nat /\ r.revision \in Revision
      /\ r.revision # None
  BY ResponseType
<1>2. /\ items \in Seq(Key) /\ seenKeys \subseteq Key /\ ciphertextBytes \in Nat
      /\ sent \in Seq(Key) /\ weight \in Nat /\ revisions \subseteq Revision
      /\ plain \in BOOLEAN
      /\ seenKeys = Ids(items) /\ items = sent /\ ciphertextBytes = weight
      /\ IF recipientRevision = None THEN revisions = {} ELSE revisions = {recipientRevision}
  BY DEF PullInv, TypeOK, KeptInv
<1>3. Ids(r.keys) \subseteq Key
  BY <1>1 DEF Ids
<1>4. items \o r.keys \in Seq(Key) /\ Len(items \o r.keys) = Len(items) + Len(r.keys)
  BY <1>1, <1>2
<1>5. Ids(items \o r.keys) = seenKeys \cup Ids(r.keys)
  BY <1>1, <1>2, Appending
<1>6. Distinct(sent \o r.keys)
  BY Accepting
<1>7. revisions \cup {r.revision} = {r.revision}
  BY <1>2 DEF Accepts, SameRevision
<1>8. (plain /\ Honest(r)) \in BOOLEAN
  BY DEF Honest
<1>9. Len(items) + Len(r.keys) <= MaxItems /\ ciphertextBytes + r.bytes <= MaxBytes
  BY DEF Accepts, Fits
<1> QED
  BY <1>1, <1>2, <1>3, <1>4, <1>5, <1>6, <1>7, <1>8, <1>9 DEF Take, Record, PullBounded

LEMMA PullStarts == Init => PullInv
<1> SUFFICES ASSUME Init PROVE PullInv
  OBVIOUS
<1>1. TypeOK
  BY LimitsAssumption DEF Init, TypeOK
<1>2. KeptInv
  BY DEF Init, KeptInv, Ids, Distinct
<1>3. CursorInv
  BY DEF Init, CursorInv
<1>4. FullInv
  BY LimitsAssumption DEF Init, FullInv
<1>5. PullBounded /\ LimitsLenient
  BY LimitsAssumption DEF Init, PullBounded, LimitsLenient
<1> QED
  BY <1>1, <1>2, <1>3, <1>4, <1>5 DEF PullInv

LEMMA PullSteps == PullInv /\ [Next]_vars => PullInv'
<1> SUFFICES ASSUME PullInv, [Next]_vars PROVE PullInv'
  OBVIOUS
<1> USE DEF PullInv
<1>1. CASE Ask
  <2>1. TypeOK'
    BY <1>1 DEF Ask, TypeOK, local, served
  <2>2. KeptInv'
    BY <1>1 DEF Ask, KeptInv, local, served
  <2>3. CursorInv'
    BY <1>1 DEF Ask, CursorInv, local, served
  <2>4. FullInv' /\ PullBounded' /\ LimitsLenient'
    BY <1>1 DEF Ask, FullInv, PullBounded, LimitsLenient, local, served
  <2> QED
    BY <2>1, <2>2, <2>3, <2>4
<1>2. CASE OutOfPages
  <2>1. TypeOK'
    BY <1>2 DEF OutOfPages, TypeOK, local, served
  <2>2. KeptInv' /\ CursorInv' /\ FullInv' /\ PullBounded'
    BY <1>2 DEF OutOfPages, KeptInv, CursorInv, FullInv, PullBounded, local, served
  <2>3. plain => Len(sent) > MaxItems
    <3>1. pageNumber = MaxPages
      BY <1>2, LimitsAssumption DEF OutOfPages, TypeOK
    <3>2. plain => Len(sent) = Limit * MaxPages
      BY <1>2, <3>1 DEF OutOfPages, FullInv
    <3> QED
      BY <3>2, PagesAssumption, LimitsAssumption
  <2>4. LimitsLenient'
    BY <1>2, <2>3 DEF OutOfPages, LimitsLenient, local, served
  <2> QED
    BY <2>1, <2>2, <2>4
<1>3. CASE FetchFails
  <2>1. TypeOK'
    BY <1>3 DEF FetchFails, TypeOK, local
  <2>2. KeptInv' /\ CursorInv' /\ FullInv' /\ PullBounded' /\ LimitsLenient'
    BY <1>3 DEF FetchFails, KeptInv, CursorInv, FullInv, PullBounded, LimitsLenient, local
  <2> QED
    BY <2>1, <2>2
<1>4. ASSUME NEW r \in Response, Refuse(r)
      PROVE  PullInv'
  <2>1. /\ r.keys \in Seq(Key) /\ r.bytes \in Nat /\ r.revision \in Revision
    BY ResponseType
  <2>2. /\ sent' \in Seq(Key) /\ weight' \in Nat /\ revisions' \subseteq Revision
        /\ plain' \in BOOLEAN /\ Len(sent') = Len(sent) + Len(r.keys)
    BY <1>4, <2>1 DEF Refuse, Record, Honest, TypeOK
  <2>3. TypeOK'
    BY <1>4, <2>2 DEF Refuse, TypeOK, local
  <2>4. KeptInv' /\ CursorInv' /\ FullInv' /\ PullBounded'
    BY <1>4 DEF Refuse, KeptInv, CursorInv, FullInv, PullBounded, local
  <2>5. plain' => ~Fits(r)
    BY <1>4, Accepting DEF Refuse, Record
  <2>6. ~Fits(r) => Len(sent') > MaxItems \/ weight' > MaxBytes
    <3>1. /\ Len(items) = Len(sent) /\ ciphertextBytes = weight
          /\ Len(sent) \in Nat /\ Len(r.keys) \in Nat /\ weight \in Nat
      BY <1>4, <2>1 DEF Refuse, KeptInv, TypeOK
    <3>2. weight' = weight + r.bytes
      BY <1>4 DEF Refuse, Record
    <3> QED
      BY <3>1, <3>2, <2>1, <2>2, LimitsAssumption DEF Fits
  <2>7. LimitsLenient'
    BY <2>5, <2>6 DEF LimitsLenient
  <2> QED
    BY <2>3, <2>4, <2>7
<1>5. ASSUME NEW r \in Response, LastPage(r)
      PROVE  PullInv'
  <2> USE <1>5, Taking DEF LastPage
  <2>1. TypeOK'
    BY DEF TypeOK
  <2>2. KeptInv'
    BY DEF KeptInv
  <2>3. CursorInv' /\ FullInv' /\ LimitsLenient'
    BY DEF CursorInv, FullInv, LimitsLenient
  <2> QED
    BY <2>1, <2>2, <2>3
<1>6. ASSUME NEW r \in Response, NextPage(r)
      PROVE  PullInv'
  <2>1. /\ phase = "wait" /\ Accepts(r) /\ ~r.done /\ Take(r) /\ Record(r)
        /\ asked' = asked
    BY <1>6 DEF NextPage
  <2>2. /\ items' \in Seq(Key) /\ seenKeys' \subseteq Key /\ ciphertextBytes' \in Nat
        /\ recipientRevision' = r.revision /\ recipientRevision' \in Revision
        /\ sent' \in Seq(Key) /\ weight' \in Nat /\ revisions' \subseteq Revision
        /\ plain' \in BOOLEAN
        /\ seenKeys' = Ids(items') /\ items' = sent' /\ ciphertextBytes' = weight'
        /\ Distinct(sent') /\ revisions' = {r.revision}
        /\ Len(sent') = Len(sent) + Len(r.keys)
        /\ PullBounded'
    BY <2>1, Taking
  <2>3. r.cursor \in Cursor /\ r.cursor # None /\ r.revision # None
    BY <2>1, ResponseType DEF Accepts, Parses
  <2>4. asked = seenCursors \cup {None} /\ pageNumber < MaxPages
    BY <2>1 DEF CursorInv
  <2>5. KeptInv'
    BY <2>2, <2>3 DEF KeptInv
  <2>6. CASE r.cursor \in seenCursors
    <3>1. /\ phase' = "thrown"
          /\ pageNumber' = pageNumber /\ seenCursors' = seenCursors /\ cursor' = cursor
      BY <1>6, <2>6 DEF NextPage
    <3>2. TypeOK'
      BY <2>1, <2>2, <3>1 DEF TypeOK
    <3>3. ~plain'
      BY <2>1, <2>4, <2>6 DEF Record, Honest
    <3> QED
      BY <2>2, <2>5, <3>1, <3>2, <3>3 DEF CursorInv, FullInv, LimitsLenient
  <2>7. CASE r.cursor \notin seenCursors
    <3>1. /\ phase' = "ask"
          /\ pageNumber' = pageNumber + 1 /\ cursor' = r.cursor
          /\ seenCursors' = seenCursors \cup {r.cursor}
      BY <1>6, <2>7 DEF NextPage
    <3>2. pageNumber' \in 0 .. MaxPages
      BY <2>4, <3>1, LimitsAssumption DEF TypeOK
    <3>3. TypeOK'
      BY <2>1, <2>2, <2>3, <3>1, <3>2 DEF TypeOK
    <3>4. CursorInv'
      BY <2>1, <2>3, <2>4, <2>7, <3>1 DEF CursorInv
    <3>5. FullInv'
      <4>1. plain' => Len(sent) = Limit * pageNumber /\ Len(r.keys) = Limit
        BY <2>1 DEF Record, Honest, FullInv
      <4>2. Limit * (pageNumber + 1) = Limit * pageNumber + Limit
        BY LimitsAssumption DEF TypeOK
      <4> QED
        BY <2>2, <3>1, <4>1, <4>2 DEF FullInv
    <3> QED
      BY <2>2, <2>5, <3>1, <3>3, <3>4, <3>5 DEF LimitsLenient
  <2> QED
    BY <2>6, <2>7
<1>7. CASE UNCHANGED vars
  BY <1>7 DEF vars, local, served, TypeOK, KeptInv, CursorInv, FullInv, PullBounded,
              LimitsLenient
<1> QED
  BY <1>1, <1>2, <1>3, <1>4, <1>5, <1>6, <1>7 DEF Next, Client, Answer

LEMMA PullInvariant == Spec => []PullInv
BY PullStarts, PullSteps, PTL DEF Spec

(* Every variable of a pull keeps its type, whatever the server sends.      *)
THEOREM PullTypeOK == Spec => []TypeOK
BY PullInvariant, PTL DEF PullInv

(* What pull resolves to is exactly what the server sent, each key once and *)
(* under one recipient revision (client.ts:522-543).                        *)
THEOREM PullIsExact == Spec => []PullExact
<1>1. PullInv => PullExact
  BY DEF PullInv, KeptInv, PullExact
<1> QED
  BY <1>1, PullInvariant, PTL

(* No server makes a pull keep more than its limits (client.ts:527, 538).   *)
THEOREM PullIsBounded == Spec => []PullBounded
BY PullInvariant, PTL DEF PullInv

(* The limits do not stand in each other's way: with MAX_PULL_PAGES more    *)
(* than MAX_PULL_ITEMS pages of MAX_PULL_PAGE_ITEMS hold, an honest server's *)
(* vault is pulled unless it has too many items or bytes.                   *)
THEOREM LimitsAreLenient == Spec => []LimitsLenient
BY PullInvariant, PTL DEF PullInv

(* No cursor is requested twice in a pull (client.ts:544-547).              *)
THEOREM CursorsAskedOnce == Spec => AsksOnce
<1>1. PullInv => (phase = "ask" /\ phase' = "wait" => cursor \notin asked)
  BY DEF PullInv, CursorInv
<1> QED
  BY <1>1, PullInvariant, PTL DEF AsksOnce
=============================================================================
