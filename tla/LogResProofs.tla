---------------------------- MODULE LogResProofs ----------------------------
(***************************************************************************)
(* Theorems about result objects and the logger (LogRes), for buffers and  *)
(* counters of every size, messages of every length, any number of threads *)
(* and handlers, also when handlers are installed late or log themselves.  *)
(***************************************************************************)
EXTENDS LogRes, Integers, FiniteSetTheorems, SequenceTheorems, TLAPS

\* A message that was added, one that is in the text, and what is kept of a
\* type.
Entry  == [id : Nat, upto : Nat]
Kept   == [id : Nat, end : Nat]
Buffer == [count : 0..(CountWidth - 1), head : 0..Size, text : Seq(Kept)]

ResTypes ==
  /\ res \in [Reporters -> [mask : SUBSET Types, msg : [Types -> Buffer]]]
  /\ added \in [Reporters -> [Types -> Seq(Entry)]]

\* The buffer m of a type, to which the messages of a have been added, the
\* last one of the object having the number top.
BufferInv(m, a, top) ==
  /\ m.count <= Len(a)
  /\ a = <<>> => m.head = 0
  /\ m.head <= Total(a)
  /\ Total(a) < Size => Ids(m.text) = Ids(a)
  /\ \A k, l \in DOMAIN m.text : k < l => m.text[k].id < m.text[l].id
  /\ \A k \in DOMAIN m.text :
       /\ \E l \in DOMAIN a : a[l].id = m.text[k].id
       /\ m.text[k].end <= m.head /\ m.text[k].end < Size
  /\ \A l \in DOMAIN a : a[l].id <= top

ResInv ==
  /\ ResTypes
  /\ \A t \in Reporters, y \in Types : BufferInv(res[t].msg[y], added[t][y], Adds(t))
  /\ CountedIfAdded

----------------------------------------------------------------------------
(* Adding a message. *)

\* The counter goes up by one, and from its last value to zero.
LEMMA CounterWraps ==
  ASSUME NEW w \in Nat \ {0}, NEW c \in 0..(w - 1)
  PROVE  /\ c + 1 < w => (c + 1) % w = c + 1
         /\ c + 1 = w => (c + 1) % w = 0
<1>1. ASSUME c + 1 < w PROVE (c + 1) % w = c + 1
  BY <1>1, SMTT(30)
<1>2. ASSUME c + 1 = w PROVE (c + 1) % w = 0
  BY <1>2, SMTT(30)
<1> QED
  BY <1>1, <1>2

\* The entry of the next message.
NextEntry(a, id, n) == [id |-> id, upto |-> IF a = <<>> THEN n ELSE Total(a) + 1 + n]

\* What b is when entry e is appended to a for a message of length n.
Grown(a, e, b, n) ==
  /\ e \in Entry /\ b \in Seq(Entry) /\ b # <<>>
  /\ Len(b) = Len(a) + 1 /\ b[Len(a) + 1] = e
  /\ \A l \in 1..Len(a) : b[l] = a[l]
  /\ Total(a) \in Nat
  /\ a = <<>> => Total(b) = n
  /\ a # <<>> => Total(b) = Total(a) + 1 + n

LEMMA TotalIsNat ==
  ASSUME NEW a \in Seq(Entry)
  PROVE  Total(a) \in Nat
<1>1. CASE a = <<>>
  BY <1>1 DEF Total
<1>2. CASE a # <<>>
  <2>1. Len(a) \in 1..Len(a)
    BY <1>2, EmptySeq, LenProperties
  <2>2. a[Len(a)] \in Entry
    BY <2>1, ElementOfSeq
  <2> QED
    BY <1>2, <2>2 DEF Total, Entry
<1> QED
  BY <1>1, <1>2

LEMMA TotalOfMore ==
  ASSUME NEW a \in Seq(Entry), NEW id \in Nat, NEW n \in Nat,
         NEW e, e = NextEntry(a, id, n), NEW b, b = Append(a, e)
  PROVE  Grown(a, e, b, n)
<1>1. Total(a) \in Nat
  BY TotalIsNat
<1>2. e \in Entry
  BY <1>1 DEF NextEntry, Entry
<1>3. /\ b \in Seq(Entry) /\ Len(b) = Len(a) + 1 /\ b[Len(a) + 1] = e
      /\ \A l \in 1..Len(a) : b[l] = a[l]
  BY <1>2, AppendProperties
<1>4. b # <<>>
  BY <1>3, EmptySeq, LenProperties
<1>5. Total(b) = e.upto
  BY <1>3, <1>4 DEF Total
<1>6. /\ a = <<>> => e.upto = n
      /\ a # <<>> => e.upto = Total(a) + 1 + n
  BY DEF NextEntry
<1> QED
  BY <1>1, <1>2, <1>3, <1>4, <1>5, <1>6 DEF Grown

\* What ae_res_msg_addv makes of a buffer that is not full.
LEMMA AddedGives ==
  ASSUME NEW m \in Buffer, NEW id \in Nat, NEW n \in Nat, m.head < Size
  PROVE  LET new  == Added(m, id, n)
             head == m.head + (IF m.count > 0 THEN 1 ELSE 0)
         IN  /\ new \in Buffer
             /\ new.count = (m.count + 1) % CountWidth
             /\ n < Size - head => /\ new.head = head + n
                                   /\ new.text = Append(m.text, [id |-> id, end |-> head + n])
             /\ ~(n < Size - head) => new.head = head /\ new.text = m.text
<1> DEFINE head == m.head + (IF m.count > 0 THEN 1 ELSE 0)
           new  == Added(m, id, n)
<1>1. /\ Size \in Nat \ {0} /\ CountWidth \in Nat \ {0}
      /\ m.count \in 0..(CountWidth - 1) /\ m.head \in 0..Size /\ m.text \in Seq(Kept)
  BY SizeAssumption DEF Buffer
<1>2. head \in 0..Size
  BY <1>1
<1>3. m.head # Size
  BY <1>1
<1>4. new = [count |-> (m.count + 1) % CountWidth,
             head |-> IF n < Size - head THEN head + n ELSE head,
             text |-> IF n < Size - head THEN Append(m.text, [id |-> id, end |-> head + n])
                      ELSE m.text]
  BY <1>3 DEF Added
<1> DEFINE c == (m.count + 1) % CountWidth
           k == [id |-> id, end |-> head + n]
           x == Append(m.text, k)
<1>5. c \in 0..(CountWidth - 1)
  <2>1. c = 0 \/ (c = m.count + 1 /\ m.count + 1 < CountWidth)
    <3>1. m.count + 1 < CountWidth \/ m.count + 1 = CountWidth
      BY <1>1
    <3> QED
      BY <1>1, <3>1, CounterWraps
  <2> QED
    BY <1>1, <2>1
<1>6. x \in Seq(Kept)
  <2>1. k \in Kept
    BY <1>2 DEF Kept
  <2> QED
    BY <1>1, <2>1, AppendProperties
<1>7. n < Size - head => head + n \in 0..Size
  BY <1>1, <1>2
<1> HIDE DEF head, c, x
<1>8. CASE n < Size - head
  <2>1. new = [count |-> c, head |-> head + n, text |-> x]
    BY <1>4, <1>8 DEF c, x
  <2>2. new \in Buffer
    BY <1>5, <1>6, <1>7, <1>8, <2>1 DEF Buffer
  <2> QED
    BY <1>8, <2>1, <2>2 DEF c, x, head
<1>9. CASE ~(n < Size - head)
  <2>1. new = [count |-> c, head |-> head, text |-> m.text]
    BY <1>4, <1>9 DEF c
  <2>2. new \in Buffer
    BY <1>1, <1>2, <1>5, <2>1 DEF Buffer
  <2> QED
    BY <1>9, <2>1, <2>2 DEF c, head
<1> QED
  BY <1>8, <1>9

LEMMA AddKeepsBuffer ==
  ASSUME NEW m \in Buffer, NEW a \in Seq(Entry), NEW top \in Nat, NEW n \in Nat,
         BufferInv(m, a, top)
  PROVE  /\ Added(m, top + 1, n) \in Buffer
         /\ BufferInv(Added(m, top + 1, n), Append(a, NextEntry(a, top + 1, n)), top + 1)
<1> DEFINE id   == top + 1
           head == m.head + (IF m.count > 0 THEN 1 ELSE 0)
           new  == Added(m, id, n)
           e    == NextEntry(a, id, n)
           b    == Append(a, e)
<1>1. /\ Size \in Nat \ {0} /\ CountWidth \in Nat \ {0}
      /\ m.count \in 0..(CountWidth - 1) /\ m.head \in 0..Size /\ m.text \in Seq(Kept)
      /\ Len(a) \in Nat /\ DOMAIN a = 1..Len(a)
      /\ Len(m.text) \in Nat /\ DOMAIN m.text = 1..Len(m.text) /\ id \in Nat
  BY SizeAssumption, LenProperties DEF Buffer
<1> HIDE DEF id
<1>2. /\ e \in Entry /\ b \in Seq(Entry) /\ b # <<>>
      /\ Len(b) = Len(a) + 1 /\ b[Len(a) + 1] = e
      /\ \A l \in 1..Len(a) : b[l] = a[l]
      /\ Total(a) \in Nat
      /\ a = <<>> => Total(b) = n
      /\ a # <<>> => Total(b) = Total(a) + 1 + n
  <2>1. e = NextEntry(a, id, n) /\ b = Append(a, e) /\ id \in Nat
    BY <1>1
  <2> HIDE DEF e, b
  <2>2. Grown(a, e, b, n)
    BY <2>1, TotalOfMore
  <2> QED
    BY <2>2 DEF Grown
<1>3. e.id = id
  BY DEF NextEntry
<1>4. DOMAIN b = 1..Len(a)+1
  BY <1>2, LenProperties
<1> SUFFICES new \in Buffer /\ BufferInv(new, b, id)
  BY DEF id
<1>4a. top + 1 = id
  BY DEF id
<1> HIDE DEF e, b
<1>5. /\ m.count <= Len(a) /\ (a = <<>> => m.head = 0) /\ m.head <= Total(a)
      /\ Total(a) < Size => Ids(m.text) = Ids(a)
      /\ \A k, l \in 1..Len(m.text) : k < l => m.text[k].id < m.text[l].id
      /\ \A k \in 1..Len(m.text) : /\ \E l \in 1..Len(a) : a[l].id = m.text[k].id
                                   /\ m.text[k].end <= m.head /\ m.text[k].end < Size
      /\ \A l \in 1..Len(a) : a[l].id <= top
  BY <1>1 DEF BufferInv
<1>6. a = <<>> => Len(a) = 0
  OBVIOUS
<1>7. /\ head \in Nat /\ m.head <= head
      /\ head + n <= Total(b) /\ Total(b) \in Nat /\ Total(a) <= Total(b)
  <2>1. CASE a = <<>>
    <3>1. head = 0 /\ Total(b) = n /\ Total(a) = 0 /\ m.head = 0
      BY <1>1, <1>2, <1>5, <1>6, <2>1 DEF Total
    <3> QED
      BY <3>1
  <2>2. CASE a # <<>>
    <3>1. Total(b) = Total(a) + 1 + n
      BY <1>2, <2>2
    <3> QED
      BY <1>1, <1>2, <1>5, <3>1
  <2> QED
    BY <2>1, <2>2
<1>8. \A l \in 1..Len(a)+1 : b[l].id <= id
  <2> SUFFICES ASSUME NEW l \in 1..Len(a)+1 PROVE b[l].id <= id
    OBVIOUS
  <2>1. CASE l = Len(a) + 1
    BY <1>1, <1>2, <1>3, <2>1
  <2>2. CASE l # Len(a) + 1
    <3>1. l \in 1..Len(a) /\ b[l] = a[l] /\ a[l] \in Entry
      BY <1>1, <1>2, <2>2, ElementOfSeq
    <3>2. a[l].id <= top /\ a[l].id \in Nat
      BY <1>5, <3>1 DEF Entry
    <3> QED
      BY <1>4a, <3>1, <3>2
  <2> QED
    BY <2>1, <2>2
<1>9. ASSUME NEW k \in 1..Len(m.text)
      PROVE  \E l \in 1..Len(a)+1 : b[l].id = m.text[k].id
  <2>1. PICK l \in 1..Len(a) : a[l].id = m.text[k].id
    BY <1>5
  <2>2. b[l].id = m.text[k].id /\ l \in 1..Len(a)+1
    BY <1>1, <1>2, <2>1
  <2> QED
    BY <2>2
<1>10. CASE m.head = Size
  <2>1. new = m
    BY <1>10 DEF Added
  <2>2. ~(Total(b) < Size)
    BY <1>1, <1>2, <1>5, <1>7, <1>10
  <2>3. m.count <= Len(b) /\ m.head <= Total(b)
    <3>1. m.count <= Len(b)
      BY <1>1, <1>2, <1>5
    <3>2. m.head <= Total(b)
      <4>1. m.head \in Nat /\ head \in Nat /\ m.head <= head /\ head + n <= Total(b)
            /\ Total(b) \in Nat
        BY <1>1, <1>7
      <4> HIDE DEF head
      <4> QED
        BY <4>1
    <3> QED
      BY <3>1, <3>2
  <2>4. BufferInv(m, b, id)
    BY <1>1, <1>2, <1>4, <1>5, <1>8, <1>9, <2>2, <2>3 DEF BufferInv
  <2> QED
    BY <2>1, <2>4
<1>11. CASE m.head < Size
  <2> DEFINE kept == [id |-> id, end |-> head + n]
             fits == n < Size - head
  <2>1. /\ new \in Buffer
        /\ new.count = (m.count + 1) % CountWidth
        /\ fits => new.head = head + n /\ new.text = Append(m.text, kept)
        /\ ~fits => new.head = head /\ new.text = m.text
    BY <1>1, <1>11, AddedGives
  <2> HIDE DEF new, head
  <2>2. new.count <= Len(b)
    <3>1. m.count + 1 < CountWidth \/ m.count + 1 = CountWidth
      BY <1>1
    <3>2. new.count = 0 \/ new.count = m.count + 1
      BY <1>1, <2>1, <3>1, CounterWraps
    <3> QED
      BY <1>1, <1>2, <1>5, <3>2
  <2>3. new.head <= Total(b)
    BY <1>7, <2>1
  <2>4. CASE ~fits
    <3>1. new.text = m.text /\ new.head = head
      BY <2>1, <2>4
    <3>2. ~(Total(b) < Size)
      BY <1>1, <1>7, <2>4
    <3>3. \A k \in 1..Len(m.text) : m.text[k].end <= head
      <4> SUFFICES ASSUME NEW k \in 1..Len(m.text) PROVE m.text[k].end <= head
        OBVIOUS
      <4>1. m.text[k] \in Kept
        BY <1>1, ElementOfSeq
      <4>2. m.text[k].end <= m.head /\ m.text[k].end \in Nat
        BY <1>5, <4>1 DEF Kept
      <4> QED
        BY <1>1, <1>7, <4>2
    <3>4. BufferInv(new, b, id)
      BY <1>1, <1>2, <1>4, <1>5, <1>8, <1>9, <2>2, <2>3, <3>1, <3>2, <3>3 DEF BufferInv
    <3> QED
      BY <2>1, <3>4
  <2>5. CASE fits
    <3>1. new.head = head + n /\ new.text = Append(m.text, kept)
      BY <2>1, <2>5
    <3>2. /\ kept \in Kept /\ kept.id = id /\ kept.end = head + n
      BY <1>1, <1>7 DEF Kept
    <3> HIDE DEF kept
    <3>3. /\ new.text \in Seq(Kept) /\ Len(new.text) = Len(m.text) + 1
          /\ new.text[Len(m.text) + 1] = kept
          /\ \A k \in 1..Len(m.text) : new.text[k] = m.text[k]
      BY <1>1, <3>1, <3>2, AppendProperties
    <3>4. DOMAIN new.text = 1..Len(m.text)+1
      BY <3>3, LenProperties
    <3>5. \A k \in 1..Len(m.text) : m.text[k].id < id
      <4> SUFFICES ASSUME NEW k \in 1..Len(m.text) PROVE m.text[k].id < id
        OBVIOUS
      <4>1. PICK l \in 1..Len(a) : a[l].id = m.text[k].id
        BY <1>5
      <4>2. a[l] \in Entry
        BY <1>1, ElementOfSeq
      <4>3. a[l].id <= top /\ a[l].id \in Nat
        BY <1>5, <4>2 DEF Entry
      <4> QED
        BY <1>4a, <4>1, <4>3
    <3>6. \A k, l \in DOMAIN new.text : k < l => new.text[k].id < new.text[l].id
      <4> SUFFICES ASSUME NEW k \in 1..Len(m.text)+1, NEW l \in 1..Len(m.text)+1, k < l
                   PROVE  new.text[k].id < new.text[l].id
        BY <3>4
      <4>1. k \in 1..Len(m.text)
        BY <1>1
      <4>2. CASE l = Len(m.text) + 1
        BY <3>2, <3>3, <3>5, <4>1, <4>2
      <4>3. CASE l # Len(m.text) + 1
        <5>1. l \in 1..Len(m.text)
          BY <1>1, <4>3
        <5> QED
          BY <1>5, <3>3, <4>1, <5>1
      <4> QED
        BY <4>2, <4>3
    <3>7. \A k \in DOMAIN new.text :
            /\ \E l \in DOMAIN b : b[l].id = new.text[k].id
            /\ new.text[k].end <= new.head /\ new.text[k].end < Size
      <4> SUFFICES ASSUME NEW k \in 1..Len(m.text)+1
                   PROVE  /\ \E l \in DOMAIN b : b[l].id = new.text[k].id
                          /\ new.text[k].end <= new.head /\ new.text[k].end < Size
        BY <3>4
      <4>1. CASE k = Len(m.text) + 1
        <5>1. Len(a) + 1 \in DOMAIN b /\ b[Len(a) + 1].id = id
          BY <1>1, <1>2, <1>3, <1>4
        <5>2. new.text[k].id = id /\ new.text[k].end = head + n
          BY <3>2, <3>3, <4>1
        <5>3. head + n < Size /\ head + n <= new.head
          BY <1>1, <1>7, <2>5, <3>1
        <5> QED
          BY <5>1, <5>2, <5>3
      <4>2. CASE k # Len(m.text) + 1
        <5>1. k \in 1..Len(m.text) /\ new.text[k] = m.text[k] /\ m.text[k] \in Kept
          BY <1>1, <3>3, <4>2, ElementOfSeq
        <5>2. /\ m.text[k].end <= m.head /\ m.text[k].end < Size /\ m.text[k].end \in Nat
          BY <1>5, <5>1 DEF Kept
        <5>3. m.text[k].end <= new.head
          BY <1>1, <1>7, <3>1, <5>2
        <5>4. \E l \in DOMAIN b : b[l].id = m.text[k].id
          BY <1>4, <1>9, <5>1
        <5> QED
          BY <5>1, <5>2, <5>3, <5>4
      <4> QED
        BY <4>1, <4>2
    <3>8. ASSUME Total(b) < Size PROVE Ids(new.text) = Ids(b)
      <4>1. Ids(m.text) = Ids(a)
        BY <1>1, <1>2, <1>5, <1>7, <3>8
      <4>2. /\ Len(m.text) = Len(a)
            /\ \A k \in 1..Len(a) : m.text[k].id = a[k].id
        <5>1. DOMAIN Ids(m.text) = 1..Len(m.text) /\ DOMAIN Ids(a) = 1..Len(a)
          BY <1>1 DEF Ids
        <5>2. 1..Len(m.text) = 1..Len(a)
          BY <4>1, <5>1
        <5>3. Len(m.text) = Len(a)
          BY <1>1, <5>2
        <5>4. ASSUME NEW k \in 1..Len(a) PROVE m.text[k].id = a[k].id
          <6>1. Ids(m.text)[k] = m.text[k].id /\ Ids(a)[k] = a[k].id
            BY <1>1, <5>3 DEF Ids
          <6> QED
            BY <4>1, <6>1
        <5> QED
          BY <5>3, <5>4
      <4>3. ASSUME NEW k \in 1..Len(a)+1 PROVE new.text[k].id = b[k].id
        <5>1. CASE k = Len(a) + 1
          BY <1>2, <1>3, <3>2, <3>3, <4>2, <5>1
        <5>2. CASE k # Len(a) + 1
          <6>1. k \in 1..Len(a)
            BY <1>1, <5>2
          <6> QED
            BY <1>2, <3>3, <4>2, <6>1
        <5> QED
          BY <5>1, <5>2
      <4>4. DOMAIN new.text = DOMAIN b /\ DOMAIN b = 1..Len(a)+1
        BY <1>4, <3>4, <4>2
      <4> QED
        BY <4>3, <4>4 DEF Ids
    <3>9. BufferInv(new, b, id)
      BY <1>2, <1>4, <1>8, <2>2, <2>3, <3>6, <3>7, <3>8 DEF BufferInv
    <3> QED
      BY <2>1, <3>9
  <2> QED
    BY <2>4, <2>5
<1> QED
  BY <1>1, <1>10, <1>11

----------------------------------------------------------------------------
(* The steps of a result object. *)

LEMMA BufferOf ==
  ASSUME ResTypes, NEW t \in Reporters, NEW y \in Types
  PROVE  res[t].msg[y] \in Buffer /\ added[t][y] \in Seq(Entry) /\ Len(added[t][y]) \in Nat
BY LenProperties DEF ResTypes

LEMMA AddsIsNat ==
  ASSUME ResTypes, NEW t \in Reporters
  PROVE  Adds(t) \in Nat
<1>1. \A y \in Types : Len(added[t][y]) \in Nat
  BY BufferOf
<1>2. ERR \in Types /\ WARN \in Types /\ INFO \in Types
  BY DEF Types
<1> DEFINE len(y) == Len(added[t][y])
<1>3. len(ERR) \in Nat /\ len(WARN) \in Nat /\ len(INFO) \in Nat
  BY <1>1, <1>2
<1>4. Adds(t) = len(ERR) + len(WARN) + len(INFO)
  BY DEF Adds
<1> HIDE DEF len
<1> QED
  BY <1>3, <1>4

\* What is recorded of a message of type y, and the zero that is written into
\* the next type's count when the buffer runs over.
LEMMA ResAddGives ==
  ASSUME ResTypes, NEW t \in Reporters, NEW y \in Types, NEW n \in Nat, ResAdd(t, y, n),
         Added(res[t].msg[y], Adds(t) + 1, n) \in Buffer
  PROVE  /\ ResTypes'
         /\ \A u \in Reporters \ {t} : res'[u] = res[u] /\ added'[u] = added[u]
         /\ res'[t].msg[y] = Added(res[t].msg[y], Adds(t) + 1, n)
         /\ added'[t][y] = Append(added[t][y], NextEntry(added[t][y], Adds(t) + 1, n))
         /\ \A x \in Types \ {y} :
              /\ added'[t][x] = added[t][x]
              /\ x = y + 1 /\ RunsOver(res[t].msg[y]) =>
                   res'[t].msg[x] = [res[t].msg[x] EXCEPT !.count = 0]
              /\ ~(x = y + 1 /\ RunsOver(res[t].msg[y])) =>
                   res'[t].msg[x] = res[t].msg[x]
<1> DEFINE m   == res[t].msg[y]
           new == Added(m, Adds(t) + 1, n)
           e   == NextEntry(added[t][y], Adds(t) + 1, n)
           msg == [x \in Types |->
                     IF x = y THEN new
                     ELSE IF x = y + 1 /\ RunsOver(m)
                          THEN [res[t].msg[x] EXCEPT !.count = 0]
                          ELSE res[t].msg[x]]
           obj == [mask |-> res[t].mask \cup {y}, msg |-> msg]
           all == [added[t] EXCEPT ![y] = Append(added[t][y], e)]
<1>1. /\ res \in [Reporters -> [mask : SUBSET Types, msg : [Types -> Buffer]]]
      /\ added \in [Reporters -> [Types -> Seq(Entry)]]
  BY DEF ResTypes
<1>2. res[t] \in [mask : SUBSET Types, msg : [Types -> Buffer]]
  BY <1>1
<1>3. res' = [res EXCEPT ![t] = obj]
  BY <1>1 DEF ResAdd
<1>4. added' = [added EXCEPT ![t] = all]
  <2>1. added' = [added EXCEPT ![t][y] = Append(@, e)]
    BY DEF ResAdd, NextEntry
  <2> QED
    BY <1>1, <2>1
<1>5. e \in Entry /\ Append(added[t][y], e) \in Seq(Entry)
  <2>1. Adds(t) + 1 \in Nat /\ added[t][y] \in Seq(Entry)
    BY AddsIsNat, BufferOf
  <2> DEFINE id == Adds(t) + 1
             b  == Append(added[t][y], e)
  <2>2. e = NextEntry(added[t][y], id, n) /\ b = Append(added[t][y], e) /\ id \in Nat
    BY <2>1
  <2> HIDE DEF e, b, id
  <2>3. Grown(added[t][y], e, b, n)
    BY <2>1, <2>2, TotalOfMore
  <2> QED
    BY <2>3 DEF Grown, b
<1>6. all \in [Types -> Seq(Entry)]
  BY <1>1, <1>5
<1>7. msg \in [Types -> Buffer]
  <2>1. \A x \in Types : [res[t].msg[x] EXCEPT !.count = 0] \in Buffer
    <3> SUFFICES ASSUME NEW x \in Types PROVE [res[t].msg[x] EXCEPT !.count = 0] \in Buffer
      OBVIOUS
    <3>1. res[t].msg[x] \in Buffer
      BY BufferOf
    <3>2. 0 \in 0..(CountWidth - 1)
      BY SizeAssumption
    <3> QED
      BY <3>1, <3>2 DEF Buffer
  <2>2. \A x \in Types : res[t].msg[x] \in Buffer
    BY BufferOf
  <2> QED
    BY <2>1, <2>2
<1>8. obj \in [mask : SUBSET Types, msg : [Types -> Buffer]]
  BY <1>2, <1>7
<1> HIDE DEF all, e, new
<1>9. ResTypes'
  <2> HIDE DEF obj
  <2> QED
    BY <1>1, <1>3, <1>4, <1>6, <1>8 DEF ResTypes
<1>10. res'[t].msg = msg /\ added'[t] = all
  BY <1>1, <1>3, <1>4
<1>11. \A u \in Reporters \ {t} : res'[u] = res[u] /\ added'[u] = added[u]
  <2> HIDE DEF obj
  <2> QED
    BY <1>1, <1>3, <1>4
<1>12. \A x \in Types : added'[t][x] = IF x = y THEN Append(added[t][y], e)
                                               ELSE added[t][x]
  BY <1>1, <1>10 DEF all
<1> QED
  BY <1>9, <1>10, <1>11, <1>12 DEF e, new

\* A buffer's part of the invariant does not depend on its count being exact.
LEMMA BufferInvKept ==
  ASSUME NEW m \in Buffer, NEW a \in Seq(Entry), NEW top \in Nat, BufferInv(m, a, top)
  PROVE  /\ BufferInv(m, a, top + 1)
         /\ BufferInv([m EXCEPT !.count = 0], a, top + 1)
<1>1. \A l \in DOMAIN a : a[l].id <= top + 1
  <2> SUFFICES ASSUME NEW l \in DOMAIN a PROVE a[l].id <= top + 1
    OBVIOUS
  <2>1. a[l] \in Entry
    BY ElementOfSeq, LenProperties
  <2>2. a[l].id <= top /\ a[l].id \in Nat
    BY <2>1 DEF BufferInv, Entry
  <2> QED
    BY <2>2
<1>2. BufferInv(m, a, top + 1)
  BY <1>1 DEF BufferInv
<1> DEFINE z == [m EXCEPT !.count = 0]
<1>3. z.count = 0 /\ z.head = m.head /\ z.text = m.text
  BY DEF Buffer
<1>4. z.count <= Len(a)
  BY <1>3, LenProperties
<1> HIDE DEF z
<1>5. BufferInv(z, a, top + 1)
  BY <1>2, <1>3, <1>4 DEF BufferInv
<1> QED
  BY <1>2, <1>5 DEF z

LEMMA ResAddKeepsInv ==
  ASSUME ResInv, NEW t \in Reporters, NEW y \in Types, NEW n \in Lengths, ResAdd(t, y, n)
  PROVE  ResInv'
<1> DEFINE m   == res[t].msg[y]
           a   == added[t][y]
           top == Adds(t)
           new == Added(m, top + 1, n)
<1>1. /\ ResTypes /\ CountedIfAdded /\ n \in Nat
      /\ \A u \in Reporters, x \in Types :
           BufferInv(res[u].msg[x], added[u][x], Adds(u))
  BY SizeAssumption DEF ResInv
<1>2. m \in Buffer /\ a \in Seq(Entry) /\ top \in Nat /\ BufferInv(m, a, top)
      /\ Len(a) \in Nat
  BY <1>1, BufferOf, AddsIsNat
<1> HIDE DEF m, a, top
<1>3. new \in Buffer
      /\ BufferInv(new, Append(a, NextEntry(a, top + 1, n)), top + 1)
  BY <1>1, <1>2, AddKeepsBuffer
<1>4. /\ ResTypes'
      /\ \A u \in Reporters \ {t} : res'[u] = res[u] /\ added'[u] = added[u]
      /\ res'[t].msg[y] = new
      /\ added'[t][y] = Append(a, NextEntry(a, top + 1, n))
      /\ \A x \in Types \ {y} :
           /\ added'[t][x] = added[t][x]
           /\ x = y + 1 /\ RunsOver(m) => res'[t].msg[x] = [res[t].msg[x] EXCEPT !.count = 0]
           /\ ~(x = y + 1 /\ RunsOver(m)) => res'[t].msg[x] = res[t].msg[x]
  BY <1>1, <1>3, ResAddGives DEF m, a, top
<1>5. Len(added'[t][y]) = Len(a) + 1
  <2> DEFINE e == NextEntry(a, top + 1, n)
             b == Append(a, e)
             id == top + 1
  <2>1. e = NextEntry(a, id, n) /\ b = Append(a, e) /\ id \in Nat
    BY <1>2
  <2> HIDE DEF e, b, id
  <2>2. Grown(a, e, b, n)
    BY <1>1, <1>2, <2>1, TotalOfMore
  <2> QED
    BY <1>4, <2>2 DEF Grown, b, e
<1> HIDE DEF new
<1>6. Adds(t)' = top + 1
  <2>1. /\ \A x \in Types : Len(added[t][x]) \in Nat
        /\ \A x \in Types : Len(added'[t][x]) = IF x = y THEN Len(added[t][x]) + 1
                                                 ELSE Len(added[t][x])
    BY <1>1, <1>4, <1>5, BufferOf DEF a
  <2>2. /\ ERR \in Types /\ WARN \in Types /\ INFO \in Types
        /\ ERR # WARN /\ ERR # INFO /\ WARN # INFO
        /\ y = ERR \/ y = WARN \/ y = INFO
    BY DEF Types, ERR, WARN, INFO
  <2> DEFINE len(x) == Len(added[t][x])
             next(x) == Len(added'[t][x])
  <2>3. Adds(t)' = next(ERR) + next(WARN) + next(INFO)
    BY DEF Adds, ERR, WARN, INFO
  <2>4. top = len(ERR) + len(WARN) + len(INFO)
    BY DEF top, Adds
  <2>5. \A x \in Types : len(x) \in Nat /\ next(x) = IF x = y THEN len(x) + 1 ELSE len(x)
    BY <2>1
  <2> HIDE DEF len, next
  <2> QED
    BY <2>2, <2>3, <2>4, <2>5
<1>7. \A u \in Reporters \ {t} : Adds(u)' = Adds(u)
  BY <1>4 DEF Adds
<1>8. ASSUME NEW u \in Reporters, NEW x \in Types
      PROVE  BufferInv(res'[u].msg[x], added'[u][x], Adds(u)')
  <2>1. CASE u # t
    BY <1>1, <1>4, <1>7, <2>1
  <2>2. CASE u = t /\ x = y
    BY <1>3, <1>4, <1>6, <2>2
  <2>3. CASE u = t /\ x # y
    <3>1. /\ res[t].msg[x] \in Buffer /\ added[t][x] \in Seq(Entry)
          /\ BufferInv(res[t].msg[x], added[t][x], top)
      BY <1>1, BufferOf DEF top
    <3>2. /\ BufferInv(res[t].msg[x], added[t][x], top + 1)
          /\ BufferInv([res[t].msg[x] EXCEPT !.count = 0], added[t][x], top + 1)
      BY <1>2, <3>1, BufferInvKept
    <3>3. added'[t][x] = added[t][x]
      BY <1>4, <2>3
    <3>4. \/ res'[t].msg[x] = res[t].msg[x]
          \/ res'[t].msg[x] = [res[t].msg[x] EXCEPT !.count = 0]
      BY <1>4, <2>3
    <3> QED
      BY <1>6, <2>3, <3>2, <3>3, <3>4
  <2> QED
    BY <2>1, <2>2, <2>3
<1>9. /\ m.head = Size => new = m
      /\ m.head # Size =>
           /\ new.count = (m.count + 1) % CountWidth
           /\ RunsOver(m) => new.head = Size
  <2>1. CASE m.head = Size
    BY <2>1 DEF Added, new
  <2>2. CASE m.head # Size
    <3>1. m.head < Size /\ m.head \in Nat /\ Size \in Nat /\ m.count \in Nat
      BY <1>2, <2>2, SizeAssumption DEF Buffer
    <3> DEFINE head == m.head + (IF m.count > 0 THEN 1 ELSE 0)
    <3>2. /\ new.count = (m.count + 1) % CountWidth
          /\ ~(n < Size - head) => new.head = head
      <4>1. top + 1 \in Nat
        BY <1>2
      <4> DEFINE id == top + 1
      <4> HIDE DEF id
      <4>2. /\ Added(m, id, n).count = (m.count + 1) % CountWidth
            /\ ~(n < Size - head) => Added(m, id, n).head = head
        BY <1>1, <1>2, <3>1, <4>1, AddedGives DEF id
      <4> QED
        BY <4>2 DEF new, id
    <3>3. RunsOver(m) => head = Size
      BY <3>1 DEF RunsOver
    <3> HIDE DEF head
    <3> QED
      BY <1>1, <2>2, <3>1, <3>2, <3>3
  <2> QED
    BY <2>1, <2>2
<1>10. CountedIfAdded'
  <2> SUFFICES ASSUME NEW u \in Reporters, NEW x \in Types,
                      added'[u][x] # <<>>, res'[u].msg[x].count = 0
               PROVE  Len(added'[u][x]) >= CountWidth \/ RanOver(u, x - 1)'
    BY DEF CountedIfAdded
  <2>1. ASSUME NEW z \in Types, res[t].msg[z].head = Size PROVE res'[t].msg[z].head = Size
    <3>1. CASE z = y
      BY <1>4, <1>9, <2>1, <3>1 DEF m
    <3>2. CASE z # y
      <4>1. res[t].msg[z] \in Buffer
        BY <1>1, BufferOf
      <4>2. [res[t].msg[z] EXCEPT !.count = 0].head = res[t].msg[z].head
        BY <4>1 DEF Buffer
      <4> QED
        BY <1>4, <2>1, <3>2, <4>2
    <3> QED
      BY <3>1, <3>2
  <2>2. CASE u # t
    <3>1. added[u][x] # <<>> /\ res[u].msg[x].count = 0
      BY <1>4, <2>2
    <3>2. Len(added[u][x]) >= CountWidth \/ RanOver(u, x - 1)
      BY <1>1, <3>1 DEF CountedIfAdded
    <3> QED
      BY <1>4, <2>2, <3>2 DEF RanOver
  <2>3. CASE u = t /\ x = y
    <3>1. Len(added'[u][x]) = Len(a) + 1
      BY <1>5, <2>3
    <3>2. CASE m.head = Size
      <4>1. a # <<>> /\ m.count = 0
        BY <1>1, <1>2, <1>4, <1>9, <2>3, <3>2, SizeAssumption DEF BufferInv
      <4>2. Len(a) >= CountWidth \/ RanOver(t, y - 1)
        BY <1>1, <4>1 DEF CountedIfAdded, m, a
      <4>3. RanOver(t, y - 1) => RanOver(t, y - 1)'
        BY <2>1 DEF RanOver
      <4> QED
        BY <1>2, <2>3, <3>1, <4>2, <4>3, SizeAssumption
    <3>3. CASE m.head # Size
      <4>1. (m.count + 1) % CountWidth = 0
        BY <1>4, <1>9, <2>3, <3>3
      <4>2. m.count \in 0..(CountWidth - 1) /\ CountWidth \in Nat \ {0}
        BY <1>2, SizeAssumption DEF Buffer
      <4>3. m.count + 1 = CountWidth
        <5>1. ~(m.count + 1 < CountWidth)
          BY <4>1, <4>2, CounterWraps
        <5> QED
          BY <4>2, <5>1
      <4>4. m.count <= Len(a)
        BY <1>2 DEF BufferInv
      <4> QED
        BY <1>2, <3>1, <4>2, <4>3, <4>4
    <3> QED
      BY <3>2, <3>3
  <2>4. CASE u = t /\ x # y
    <3>1. added[t][x] # <<>> /\ added'[t][x] = added[t][x]
      BY <1>4, <2>4
    <3>2. CASE x = y + 1 /\ RunsOver(m)
      <4>1. m.head # Size
        BY <1>2, <3>2, SizeAssumption DEF RunsOver, Buffer
      <4>2. new.head = Size /\ x - 1 = y
        BY <1>9, <3>2, <4>1 DEF Types, ERR, WARN, INFO
      <4> QED
        BY <1>4, <2>4, <4>2 DEF RanOver
    <3>3. CASE ~(x = y + 1 /\ RunsOver(m))
      <4>1. res[t].msg[x].count = 0
        BY <1>4, <2>4, <3>3
      <4>2. Len(added[t][x]) >= CountWidth \/ RanOver(t, x - 1)
        BY <1>1, <3>1, <4>1 DEF CountedIfAdded
      <4>3. RanOver(t, x - 1) => RanOver(t, x - 1)'
        BY <2>1 DEF RanOver
      <4> QED
        BY <2>4, <3>1, <4>2, <4>3
    <3> QED
      BY <3>2, <3>3
  <2> QED
    BY <2>2, <2>3, <2>4
<1> QED
  BY <1>4, <1>8, <1>10 DEF ResInv

\* An empty buffer to which nothing has been added.
LEMMA EmptyInv ==
  ASSUME NEW a, a = <<>>
  PROVE  Empty \in Buffer /\ a \in Seq(Entry) /\ BufferInv(Empty, a, 0)
<1>1. Len(a) = 0 /\ DOMAIN a = {} /\ a \in Seq(Entry) /\ a \in Seq(Kept)
  OBVIOUS
<1>2. Empty.count = 0 /\ Empty.head = 0 /\ Empty.text = a
  BY DEF Empty
<1>3. 0 \in 0..(CountWidth - 1) /\ 0 \in 0..Size
  BY SizeAssumption
<1>4. Empty \in Buffer
  BY <1>1, <1>3 DEF Empty, Buffer
<1>5. Total(a) = 0
  BY DEF Total
<1>6. BufferInv(Empty, a, 0)
  BY <1>1, <1>2, <1>5 DEF BufferInv
<1> QED
  BY <1>1, <1>4, <1>6

LEMMA ResInitInv == Init => ResInv
<1> SUFFICES ASSUME Init PROVE ResInv
  OBVIOUS
<1>1. /\ res = [t \in Reporters |-> [mask |-> {}, msg |-> [y \in Types |-> Empty]]]
      /\ added = [t \in Reporters |-> [y \in Types |-> <<>>]]
  BY DEF Init
<1>2. ResTypes
  BY <1>1, EmptyInv DEF ResTypes
<1>3. ASSUME NEW t \in Reporters PROVE Adds(t) = 0
  <2>1. ERR \in Types /\ WARN \in Types /\ INFO \in Types
    BY DEF Types
  <2> QED
    BY <1>1, <2>1 DEF Adds
<1>4. \A t \in Reporters, y \in Types : BufferInv(res[t].msg[y], added[t][y], Adds(t))
  BY <1>1, <1>3, EmptyInv
<1>5. CountedIfAdded
  BY <1>1 DEF CountedIfAdded
<1> QED
  BY <1>2, <1>4, <1>5 DEF ResInv

LEMMA ClearKeepsInv ==
  ASSUME ResInv, NEW t \in Reporters, ResClear(t) \/ ResInit(t)
  PROVE  ResInv'
<1>1. ResTypes /\ CountedIfAdded
      /\ \A u \in Reporters, x \in Types :
           BufferInv(res[u].msg[x], added[u][x], Adds(u))
  BY DEF ResInv
<1>2. PICK m \in SUBSET Types : Clear(t, m)
  <2>1. res[t].mask \in SUBSET Types
    BY <1>1 DEF ResTypes
  <2> QED
    BY <2>1 DEF ResClear, ResInit
<1> DEFINE obj == [mask |-> m, msg |-> [y \in Types |-> Empty]]
           none == [y \in Types |-> <<>>]
<1>3. res' = [res EXCEPT ![t] = obj] /\ added' = [added EXCEPT ![t] = none]
  BY <1>2 DEF Clear
<1>4. /\ obj \in [mask : SUBSET Types, msg : [Types -> Buffer]]
      /\ none \in [Types -> Seq(Entry)]
  BY EmptyInv
<1>5. ResTypes'
  <2> HIDE DEF obj, none
  <2> QED
    BY <1>1, <1>3, <1>4 DEF ResTypes
<1>6. \A u \in Reporters \ {t} : res'[u] = res[u] /\ added'[u] = added[u]
  <2> HIDE DEF obj, none
  <2> QED
    BY <1>1, <1>3 DEF ResTypes
<1>7. res'[t].msg = [y \in Types |-> Empty] /\ added'[t] = none
  BY <1>1, <1>3 DEF ResTypes
<1>8. Adds(t)' = 0
  <2>1. ERR \in Types /\ WARN \in Types /\ INFO \in Types
    BY DEF Types
  <2> QED
    BY <1>7, <2>1 DEF Adds
<1>9. ASSUME NEW u \in Reporters, NEW x \in Types
      PROVE  BufferInv(res'[u].msg[x], added'[u][x], Adds(u)')
  <2>1. CASE u = t
    BY <1>7, <1>8, <2>1, EmptyInv
  <2>2. CASE u # t
    <3>1. Adds(u)' = Adds(u)
      BY <1>6, <2>2 DEF Adds
    <3> QED
      BY <1>1, <1>6, <2>2, <3>1
  <2> QED
    BY <2>1, <2>2
<1>10. CountedIfAdded'
  <2> SUFFICES ASSUME NEW u \in Reporters, NEW x \in Types,
                      added'[u][x] # <<>>, res'[u].msg[x].count = 0
               PROVE  Len(added'[u][x]) >= CountWidth \/ RanOver(u, x - 1)'
    BY DEF CountedIfAdded
  <2>1. u # t
    BY <1>7
  <2> QED
    BY <1>1, <1>6, <2>1 DEF CountedIfAdded, RanOver
<1> QED
  BY <1>5, <1>9, <1>10 DEF ResInv

\* The logger does not touch the result objects, and they are not changed by
\* other threads.
LEMMA OnlyOwnerChanges ==
  ASSUME [Next]_vars
  PROVE  \/ UNCHANGED resVars
         \/ \E t \in Reporters :
              /\ pc[t] = "idle" /\ UNCHANGED <<logVars, pc, call, todo, got>>
              /\ \/ \E y \in Types, n \in Lengths : ResAdd(t, y, n)
                 \/ ResClear(t) \/ ResInit(t)
<1>1. CASE UNCHANGED vars
  BY <1>1 DEF vars
<1>2. ASSUME NEW t \in Threads, Inside(t) PROVE UNCHANGED resVars
  BY <1>2 DEF Inside, LogNextType, LogResEnds, Return, Lock, Format, TestHandler,
              CallHandler, Syslog, Unlock
<1>3. ASSUME NEW t \in Threads, Begins(t)
      PROVE  \/ UNCHANGED resVars
             \/ /\ t \in Reporters
                /\ pc[t] = "idle" /\ UNCHANGED <<logVars, pc, call, todo, got>>
                /\ \/ \E y \in Types, n \in Lengths : ResAdd(t, y, n)
                   \/ ResClear(t) \/ ResInit(t)
  <2>1. CASE t \in Reporters
    <3>1. CASE LogRes(t)
      BY <3>1 DEF LogRes
    <3>2. CASE ResClear(t) \/ ResInit(t)
      BY <2>1, <3>2 DEF ResClear, ResInit, Clear
    <3>3. ASSUME NEW y \in Types, NEW n \in Lengths, ResAdd(t, y, n)
          PROVE  pc[t] = "idle" /\ UNCHANGED <<logVars, pc, call, todo, got>>
      BY <3>3 DEF ResAdd
    <3> QED
      BY <1>3, <2>1, <3>1, <3>2, <3>3 DEF Begins
  <2>2. CASE t \notin Reporters
    BY <1>3, <2>2 DEF Begins, Log
  <2> QED
    BY <2>1, <2>2
<1>4. ASSUME InstallCtx \/ RemoveHandler \/ \E h \in Handlers : InstallHandler(h)
      PROVE  UNCHANGED resVars
  BY <1>4 DEF InstallCtx, RemoveHandler, InstallHandler
<1> QED
  BY <1>1, <1>2, <1>3, <1>4 DEF Next

LEMMA ResStepInv == ResInv /\ [Next]_vars => ResInv'
<1> SUFFICES ASSUME ResInv, [Next]_vars PROVE ResInv'
  OBVIOUS
<1>1. CASE UNCHANGED resVars
  <2>1. res' = res /\ added' = added
    BY <1>1 DEF resVars
  <2> QED
    BY <2>1 DEF ResInv, ResTypes, CountedIfAdded, RanOver, Adds
<1>2. ASSUME NEW t \in Reporters,
             \/ \E y \in Types, n \in Lengths : ResAdd(t, y, n)
             \/ ResClear(t) \/ ResInit(t)
      PROVE  ResInv'
  BY <1>2, ResAddKeepsInv, ClearKeepsInv
<1> QED
  BY <1>1, <1>2, OnlyOwnerChanges

\* Whatever is added, of whatever length and in whatever order of types, the
\* text of a type holds its messages in their order, all of them if there is
\* room, and never fills the byte of the terminator.
THEOREM MessagesStayInOrder == Spec => []MessagesKept
<1>1. ResInv => MessagesKept
  <2> SUFFICES ASSUME ResInv, NEW t \in Reporters, NEW y \in Types
               PROVE  LET text == res[t].msg[y].text
                      IN  /\ Fits(t, y, Size - 1) => Ids(text) = Ids(added[t][y])
                          /\ \A k, l \in DOMAIN text : k < l => text[k].id < text[l].id
                          /\ \A k \in DOMAIN text :
                               /\ \E l \in DOMAIN added[t][y] :
                                    added[t][y][l].id = text[k].id
                               /\ text[k].end < Size
    BY DEF MessagesKept
  <2>1. BufferInv(res[t].msg[y], added[t][y], Adds(t))
    BY DEF ResInv
  <2>2. Fits(t, y, Size - 1) => Total(added[t][y]) < Size
    <3>1. Total(added[t][y]) \in Nat
      <4>1. added[t][y] \in Seq(Entry)
        BY BufferOf DEF ResInv
      <4> QED
        BY <4>1, TotalIsNat
    <3> QED
      BY <3>1, SizeAssumption DEF Fits
  <2> QED
    BY <2>1, <2>2 DEF BufferInv
<1> QED
  BY <1>1, ResInitInv, ResStepInv, PTL DEF Spec

\* A type with messages reads as empty only after as many messages as the
\* counter has values, or next to a buffer that has run over.
THEOREM EmptyMeansNothingAdded == Spec => []CountedIfAdded
<1>1. ResInv => CountedIfAdded
  BY DEF ResInv
<1> QED
  BY <1>1, ResInitInv, ResStepInv, PTL DEF Spec

----------------------------------------------------------------------------
(* The logger. *)

Message == [level : Levels, text : Seq(Kept)]
Output  == [level : Levels, text : Seq(Kept), to : Handlers \cup {None},
            ctx : Handlers \cup {None}]

\* Where a call holds the lock, and where a message of a report has still to
\* be put out.
Inner   == {"format", "test", "call", "syslog", "unlock", "stuck", "crashed"}
Pending == {"lock", "format", "test", "call", "syslog", "stuck", "crashed"}

\* What ae_log_res can have left to look at.
Rest == {<<INFO, WARN, ERR>>, <<WARN, ERR>>, <<ERR>>, <<>>}

LogTypes ==
  /\ pc \in [Threads -> {"idle", "next", "reported", "lock"} \cup Inner]
  /\ call \in [Threads -> Message]
  /\ todo \in [Threads -> Rest]
  /\ \A t \in Threads \ Reporters : todo[t] = <<>>
  /\ got \in [Threads -> Seq(Output)]
  /\ {handler, ctx, installing} \subseteq Handlers \cup {None}
  /\ owner \in Threads \cup {None}

\* One thread at a time, and the buffer is its own.
LockInv ==
  /\ \A t \in Threads : pc[t] \in Inner => owner = t
  /\ \A t \in Threads : pc[t] \in {"test", "call", "syslog"} =>
       buf = [level |-> call[t].level, text |-> Cut(call[t].text)]

\* The type that the report of thread t is at, and those it is done with.
Current(t)    == Len(todo[t]) + 1
Handled(t, y) == y > Len(todo[t]) /\ ~(pc[t] \in Pending /\ y = Current(t))

Out(t, y) == {k \in DOMAIN got[t] : got[t][k].level = LevelOf[y]}

\* What has been put out for a type is what there is to report.
PutOut(t, y) ==
  IF res[t].msg[y].count = 0 \/ LevelOf[y] \notin mask THEN Out(t, y) = {}
  ELSE \E k \in Out(t, y) : /\ Out(t, y) = {k}
                            /\ got[t][k].text = Cut(res[t].msg[y].text)

InOrder(t) ==
  \A k, l \in DOMAIN got[t] : k < l =>
    \E y, z \in Types : /\ y > z /\ got[t][k].level = LevelOf[y]
                        /\ got[t][l].level = LevelOf[z]

ReportInv(t) ==
  /\ pc[t] = "idle" => got[t] = <<>>
  /\ pc[t] # "idle" =>
       /\ \A k \in DOMAIN got[t] : \E y \in Types : /\ Handled(t, y)
                                                    /\ got[t][k].level = LevelOf[y]
       /\ \A y \in Types : Handled(t, y) => PutOut(t, y)
       /\ InOrder(t)
  /\ pc[t] \in Pending =>
       /\ Current(t) \in Types
       /\ call[t] = [level |-> LevelOf[Current(t)], text |-> res[t].msg[Current(t)].text]
       /\ res[t].msg[Current(t)].count # 0 /\ LevelOf[Current(t)] \in mask
  /\ pc[t] = "reported" => todo[t] = <<>>

LogInv == ResInv /\ LogTypes /\ LockInv /\ \A t \in Reporters : ReportInv(t)

\* The steps of a call of the logger.
LogStep(t) ==
  \/ Inside(t)
  \/ t \in Reporters /\ LogRes(t)
  \/ t \notin Reporters /\ \E l \in LogLevels : Log(t, l)

----------------------------------------------------------------------------
(* What is left of a report, and cutting a text. *)

LEMMA RestFacts ==
  ASSUME NEW q \in Rest
  PROVE  /\ Len(q) \in 0..3
         /\ q # <<>> => /\ Head(q) \in Types /\ Head(q) = Len(q)
                        /\ Tail(q) \in Rest /\ Len(Tail(q)) = Len(q) - 1
         /\ q = <<>> <=> Len(q) = 0
<1>1. CASE q = <<INFO, WARN, ERR>>
  <2>1. Len(q) = 3 /\ Head(q) = INFO /\ Tail(q) = <<WARN, ERR>>
    BY <1>1
  <2> QED
    BY <2>1 DEF Rest, Types, INFO
<1>2. CASE q = <<WARN, ERR>>
  <2>1. Len(q) = 2 /\ Head(q) = WARN /\ Tail(q) = <<ERR>>
    BY <1>2
  <2> QED
    BY <2>1 DEF Rest, Types, WARN
<1>3. CASE q = <<ERR>>
  <2>1. Len(q) = 1 /\ Head(q) = ERR /\ Tail(q) = <<>>
    BY <1>3
  <2> QED
    BY <2>1 DEF Rest, Types, ERR
<1>4. CASE q = <<>>
  BY <1>4
<1> QED
  BY <1>1, <1>2, <1>3, <1>4 DEF Rest


LEMMA CutFacts ==
  ASSUME NEW text \in Seq(Kept)
  PROVE  /\ Cut(text) \in Seq(Kept)
         /\ (\A k \in DOMAIN text : text[k].end <= LogRoom) => Cut(text) = text
<1> DEFINE room == {k \in DOMAIN text : text[k].end <= LogRoom}
           n    == Cardinality(room)
           len  == Len(text)
<1>1. len \in Nat /\ DOMAIN text = 1..len
  BY LenProperties
<1>2. IsFiniteSet(1..len) /\ Cardinality(1..len) = len
  <2>1. IsFiniteSet(1..len)
        /\ Cardinality(1..len) = IF 1 > len THEN 0 ELSE len - 1 + 1
    BY <1>1, FS_Interval
  <2> QED
    BY <1>1, <2>1
<1>3. room \subseteq 1..len
  BY <1>1
<1>4. n \in Nat /\ n <= len
  BY <1>2, <1>3, FS_Subset, FS_CardinalityType
<1>5. Cut(text) = SubSeq(text, 1, n)
  BY DEF Cut
<1>6. Cut(text) \in Seq(Kept)
  <2>1. \A i \in 1..n : text[i] \in Kept
    BY <1>1, <1>4, ElementOfSeq
  <2> HIDE DEF n
  <2> QED
    BY <1>4, <1>5, <2>1, SubSeqProperties
<1>7. ASSUME \A k \in DOMAIN text : text[k].end <= LogRoom PROVE Cut(text) = text
  <2>1. room = 1..len
    BY <1>1, <1>7
  <2>2. n = len
    BY <1>2, <2>1
  <2> QED
    BY <1>5, <2>2, SubSeqFull
<1> QED
  BY <1>6, <1>7

----------------------------------------------------------------------------
(* Threads do not disturb each other. *)

\* What is put out is what is in the buffer.
LEMMA OutputType ==
  ASSUME LogTypes, LockInv, NEW t \in Threads, pc[t] \in {"call", "syslog"},
         NEW to \in Handlers \cup {None}, NEW with \in Handlers \cup {None},
         PutsOut(t, to, with)
  PROVE  /\ got' = [got EXCEPT ![t] = Append(got[t],
                      [level |-> call[t].level, text |-> Cut(call[t].text),
                       to |-> to, ctx |-> with])]
         /\ [level |-> call[t].level, text |-> Cut(call[t].text), to |-> to,
             ctx |-> with] \in Output
<1>1. buf = [level |-> call[t].level, text |-> Cut(call[t].text)]
  BY DEF LockInv
<1>2. call[t] \in Message
  BY DEF LogTypes
<1>3. Cut(call[t].text) \in Seq(Kept) /\ call[t].level \in Levels
  BY <1>2, CutFacts DEF Message
<1>4. [level |-> call[t].level, text |-> Cut(call[t].text), to |-> to,
       ctx |-> with] \in Output
  BY <1>3 DEF Output
<1>5. buf.level = call[t].level /\ buf.text = Cut(call[t].text)
  BY <1>1
<1> QED
  BY <1>4, <1>5 DEF PutsOut

LEMMA LogStepFrame ==
  ASSUME LogTypes, NEW t \in Threads, LogStep(t)
  PROVE  /\ \A u \in Threads \ {t} : /\ pc'[u] = pc[u] /\ call'[u] = call[u]
                                     /\ todo'[u] = todo[u] /\ got'[u] = got[u]
         /\ UNCHANGED <<res, added, mask, handler, ctx, installing>>
<1>1. CASE LogNextType(t)
  BY <1>1 DEF LogNextType, LogTypes, Goes, resVars, logVars
<1>2. CASE LogResEnds(t) \/ Return(t)
  BY <1>2 DEF LogResEnds, Return, LogTypes, Goes, resVars, logVars
<1>3. CASE Lock(t) \/ Format(t) \/ TestHandler(t)
  BY <1>3 DEF Lock, Format, TestHandler, LogTypes, Goes, resVars, logVars
<1>4. CASE CallHandler(t)
  BY <1>4 DEF CallHandler, PutsOut, LogTypes, Goes, resVars, logVars
<1>5. CASE Syslog(t)
  BY <1>5 DEF Syslog, PutsOut, LogTypes, Goes, resVars, logVars
<1>6. CASE Unlock(t)
  BY <1>6 DEF Unlock, AfterLog, LogTypes, Goes, resVars, logVars
<1>7. CASE LogRes(t)
  BY <1>7 DEF LogRes, LogTypes, Goes, resVars, logVars
<1>8. ASSUME NEW l \in LogLevels, Log(t, l)
      PROVE  /\ \A u \in Threads \ {t} : /\ pc'[u] = pc[u] /\ call'[u] = call[u]
                                         /\ todo'[u] = todo[u] /\ got'[u] = got[u]
             /\ UNCHANGED <<res, added, mask, handler, ctx, installing>>
  BY <1>8 DEF Log, LogTypes, Goes, resVars, logVars
<1> QED
  BY <1>1, <1>2, <1>3, <1>4, <1>5, <1>6, <1>7, <1>8 DEF LogStep, Inside

LEMMA LogStepTypes ==
  ASSUME ResTypes, LogTypes, LockInv, NEW t \in Threads, LogStep(t)
  PROVE  LogTypes'
<1> DEFINE places == {"idle", "next", "reported", "lock"} \cup Inner
<1>1. UNCHANGED <<handler, ctx, installing>>
  BY LogStepFrame
<1>2. /\ pc \in [Threads -> places] /\ call \in [Threads -> Message]
      /\ todo \in [Threads -> Rest] /\ got \in [Threads -> Seq(Output)]
      /\ {handler, ctx, installing} \subseteq Handlers \cup {None}
      /\ \A u \in Threads \ Reporters : todo[u] = <<>>
  BY DEF LogTypes
<1>3. /\ pc' \in [Threads -> places] /\ call' \in [Threads -> Message]
      /\ todo' \in [Threads -> Rest] /\ got' \in [Threads -> Seq(Output)]
      /\ todo'[t] = todo[t] \/ t \in Reporters
  <2>1. CASE LogNextType(t)
    <3>1. todo[t] \in Rest /\ todo[t] # <<>> /\ t \in Reporters
      BY <1>2, <2>1 DEF LogNextType
    <3>2. Head(todo[t]) \in Types /\ Tail(todo[t]) \in Rest
      BY <3>1, RestFacts
    <3>3. LevelOf[Head(todo[t])] \in Levels
      BY <3>2 DEF LevelOf, Levels, Types, ERR, WARN, INFO
    <3>4. todo' = [todo EXCEPT ![t] = Tail(todo[t])] /\ got' = got
      BY <2>1 DEF LogNextType
    <3>5. todo' \in [Threads -> Rest]
      BY <1>2, <3>2, <3>4
    <3>6. pc' \in [Threads -> places]
      BY <1>2, <2>1 DEF LogNextType, Goes, Inner
    <3>7. call' \in [Threads -> Message]
      <4>1. CASE UNCHANGED call
        BY <1>2, <4>1
      <4>2. CASE ~UNCHANGED call
        <5> DEFINE msg == [level |-> LevelOf[Head(todo[t])],
                           text  |-> res[t].msg[Head(todo[t])].text]
        <5>1. msg \in Message
          BY <3>1, <3>2, <3>3, BufferOf DEF Message, Buffer
        <5>2. call' = [call EXCEPT ![t] = msg]
          BY <2>1, <4>2 DEF LogNextType
        <5> HIDE DEF msg
        <5> QED
          BY <1>2, <5>1, <5>2
      <4> QED
        BY <4>1, <4>2
    <3>8. got' \in [Threads -> Seq(Output)]
      BY <1>2, <3>4
    <3> QED
      BY <3>1, <3>5, <3>6, <3>7, <3>8, Zenon
  <2>2. CASE LogResEnds(t) \/ Return(t)
    <3>1. UNCHANGED <<call, todo>> /\ pc' \in [Threads -> places]
      BY <1>2, <2>2 DEF LogResEnds, Return, Goes, Inner
    <3>2. <<>> \in Seq(Output)
      OBVIOUS
    <3>3. got' \in [Threads -> Seq(Output)]
      BY <1>2, <2>2, <3>2 DEF LogResEnds, Return
    <3> QED
      BY <1>2, <3>1, <3>3
  <2>3. CASE Lock(t) \/ Format(t) \/ TestHandler(t)
    BY <1>2, <2>3 DEF Lock, Format, TestHandler, Goes, Inner
  <2>4. CASE CallHandler(t) \/ Syslog(t)
    <3>1. UNCHANGED <<call, todo>> /\ pc' \in [Threads -> places]
      BY <1>2, <2>4 DEF CallHandler, Syslog, Goes, Inner
    <3>2. got' = got \/ PutsOut(t, handler, ctx) \/ PutsOut(t, None, None)
      BY <2>4 DEF CallHandler, Syslog
    <3>3. pc[t] \in {"call", "syslog"} /\ handler \in Handlers \cup {None}
          /\ ctx \in Handlers \cup {None}
      BY <1>2, <2>4 DEF CallHandler, Syslog
    <3>4. ASSUME NEW to \in Handlers \cup {None}, NEW with \in Handlers \cup {None},
                 PutsOut(t, to, with)
          PROVE  got' \in [Threads -> Seq(Output)]
      <4> DEFINE o == [level |-> call[t].level, text |-> Cut(call[t].text), to |-> to,
                       ctx |-> with]
      <4>1. got' = [got EXCEPT ![t] = Append(got[t], o)] /\ o \in Output
        BY <3>3, <3>4, OutputType
      <4> HIDE DEF o
      <4>2. Append(got[t], o) \in Seq(Output)
        BY <1>2, <4>1, AppendProperties
      <4> QED
        BY <1>2, <4>1, <4>2
    <3> QED
      BY <1>2, <3>1, <3>2, <3>3, <3>4
  <2>5. CASE Unlock(t)
    <3>1. NoCall \in Message
      <4>1. <<>> \in Seq(Kept)
        OBVIOUS
      <4> QED
        BY <4>1 DEF NoCall, Message, Levels
    <3>2. /\ call' = [call EXCEPT ![t] = NoCall] /\ todo' = todo
          /\ pc' \in [Threads -> places]
      BY <1>2, <2>5 DEF Unlock, AfterLog, Goes, Inner
    <3>3. got' \in [Threads -> Seq(Output)]
      BY <1>2, <2>5 DEF Unlock, AfterLog
    <3> QED
      BY <1>2, <3>1, <3>2, <3>3
  <2>6. CASE t \in Reporters /\ LogRes(t)
    <3>1. <<INFO, WARN, ERR>> \in Rest
      BY DEF Rest
    <3> QED
      BY <1>2, <2>6, <3>1 DEF LogRes, Goes, Inner
  <2>7. ASSUME NEW l \in LogLevels, Log(t, l)
        PROVE  /\ pc' \in [Threads -> places] /\ call' \in [Threads -> Message]
               /\ todo' \in [Threads -> Rest] /\ got' \in [Threads -> Seq(Output)]
               /\ todo' = todo
    <3>1. [level |-> l, text |-> <<>>] \in Message
      <4>1. <<>> \in Seq(Kept) /\ l \in Levels
        BY SizeAssumption
      <4> QED
        BY <4>1 DEF Message
    <3> QED
      BY <1>2, <2>7, <3>1 DEF Log, Goes, Inner
  <2> QED
    BY <2>1, <2>2, <2>3, <2>4, <2>5, <2>6, <2>7 DEF LogStep, Inside
<1>4. \A u \in Threads \ Reporters : todo'[u] = <<>>
  BY <1>2, <1>3, LogStepFrame
<1>5. owner' \in {owner, t, None}
  BY DEF LogStep, Inside, LogNextType, LogResEnds, Return, Lock, Format, TestHandler,
         CallHandler, Syslog, Unlock, LogRes, Log, logVars
<1> QED
  BY <1>1, <1>2, <1>3, <1>4, <1>5 DEF LogTypes

LEMMA LogStepLock ==
  ASSUME LogTypes, LockInv, NEW t \in Threads, LogStep(t)
  PROVE  LockInv'
<1>1. pc \in [Threads -> {"idle", "next", "reported", "lock"} \cup Inner]
      /\ call \in [Threads -> Message] /\ got \in [Threads -> Seq(Output)]
  BY DEF LogTypes
<1>2. \A u \in Threads \ {t} : pc'[u] = pc[u] /\ call'[u] = call[u]
  BY LogStepFrame
<1>3. /\ \A u \in Threads : pc[u] \in Inner => owner = u
      /\ \A u \in Threads : pc[u] \in {"test", "call", "syslog"} =>
           buf = [level |-> call[u].level, text |-> Cut(call[u].text)]
  BY DEF LockInv
<1>4. {"test", "call", "syslog"} \subseteq Inner
  BY DEF Inner
<1>5. ASSUME owner' = owner, buf' = buf,
             pc'[t] \in Inner => pc[t] \in Inner,
             pc'[t] \in {"test", "call", "syslog"} =>
               pc[t] \in {"test", "call", "syslog"} /\ call'[t] = call[t]
      PROVE  LockInv'
  BY <1>2, <1>3, <1>5 DEF LockInv
<1>6. CASE LogNextType(t) \/ LogResEnds(t) \/ Return(t)
  <2>1. owner' = owner /\ buf' = buf /\ pc'[t] \notin Inner
    BY <1>1, <1>6 DEF LogNextType, LogResEnds, Return, Goes, logVars, Inner
  <2> QED
    BY <1>4, <1>5, <2>1
<1>7. CASE TestHandler(t) \/ CallHandler(t) \/ Syslog(t)
  <2>1. owner' = owner /\ buf' = buf /\ call' = call
    BY <1>7 DEF TestHandler, CallHandler, Syslog, logVars
  <2>2. pc[t] \in {"test", "call", "syslog"}
    BY <1>7 DEF TestHandler, CallHandler, Syslog
  <2> QED
    BY <1>4, <1>5, <2>1, <2>2
<1>8. CASE LogRes(t) \/ \E l \in LogLevels : Log(t, l)
  <2>1. owner' = owner /\ buf' = buf /\ pc'[t] \notin Inner
    BY <1>1, <1>8 DEF LogRes, Log, Goes, logVars, Inner
  <2> QED
    BY <1>4, <1>5, <2>1
<1>9. CASE Lock(t)
  <2>1. \A u \in Threads \ {t} : pc'[u] \notin Inner
    BY <1>2, <1>3, <1>9, SizeAssumption DEF Lock
  <2>2. owner' = t /\ pc'[t] = "format"
    BY <1>1, <1>9 DEF Lock, Goes
  <2> QED
    BY <1>4, <2>1, <2>2 DEF LockInv
<1>10. CASE Format(t)
  <2>1. owner = t /\ owner' = owner /\ pc'[t] = "test" /\ call' = call
    BY <1>1, <1>3, <1>10 DEF Format, Goes, Inner
  <2>2. \A u \in Threads \ {t} : pc'[u] \notin Inner
    BY <1>2, <1>3, <2>1
  <2>3. buf' = [level |-> call[t].level, text |-> Cut(call[t].text)]
    BY <1>1, <1>10 DEF Format, Message
  <2> QED
    BY <1>4, <2>1, <2>2, <2>3 DEF LockInv
<1>11. CASE Unlock(t)
  <2>1. owner = t /\ pc'[t] \notin Inner
    BY <1>1, <1>3, <1>11 DEF Unlock, AfterLog, Goes, Inner
  <2>2. \A u \in Threads \ {t} : pc'[u] \notin Inner
    BY <1>2, <1>3, <2>1
  <2> QED
    BY <1>4, <2>1, <2>2 DEF LockInv
<1> QED
  BY <1>6, <1>7, <1>8, <1>9, <1>10, <1>11 DEF LogStep, Inside

----------------------------------------------------------------------------
(* A report, step by step. *)

LEMMA LevelsDiffer ==
  ASSUME NEW y \in Types, NEW z \in Types, LevelOf[y] = LevelOf[z]
  PROVE  y = z
BY DEF LevelOf, Types, ERR, WARN, INFO

\* A step that leaves alone what has been put out, and what is pending.
LEMMA ReportKept ==
  ASSUME NEW t \in Reporters, ReportInv(t),
         pc'[t] = "idle" <=> pc[t] = "idle",
         pc'[t] \in Pending <=> pc[t] \in Pending,
         pc[t] \in Pending => call'[t] = call[t],
         pc'[t] = "reported" => todo[t] = <<>>,
         todo'[t] = todo[t], got'[t] = got[t],
         res'[t].msg = res[t].msg, mask' = mask
  PROVE  ReportInv(t)'
<1>1. Current(t)' = Current(t)
  BY DEF Current
<1>2. \A y \in Types : Handled(t, y)' <=> Handled(t, y)
  BY <1>1 DEF Handled
<1>3. \A y \in Types : Out(t, y)' = Out(t, y)
  BY DEF Out
<1>4. \A y \in Types : PutOut(t, y) => PutOut(t, y)'
  BY <1>3 DEF PutOut
<1>5. InOrder(t) => InOrder(t)'
  BY DEF InOrder
<1> QED
  BY <1>1, <1>2, <1>4, <1>5 DEF ReportInv

LEMMA ReportBegins ==
  ASSUME LogTypes, NEW t \in Reporters, ReportInv(t), LogRes(t)
  PROVE  ReportInv(t)'
<1>1. pc \in [Threads -> {"idle", "next", "reported", "lock"} \cup Inner]
      /\ todo \in [Threads -> Rest] /\ t \in Threads
  BY SizeAssumption DEF LogTypes
<1>2. pc[t] = "idle" /\ pc'[t] = "next" /\ got' = got /\ todo'[t] = <<INFO, WARN, ERR>>
  BY <1>1 DEF LogRes, MayBegin, Goes
<1>3. got'[t] = <<>> /\ DOMAIN got'[t] = {}
  BY <1>2 DEF ReportInv
<1>4. Len(todo'[t]) = 3
  BY <1>2
<1>5. \A y \in Types : ~Handled(t, y)'
  BY <1>4 DEF Handled, Types, ERR, WARN, INFO
<1>6. InOrder(t)'
  BY <1>3 DEF InOrder
<1>7. pc'[t] \notin Pending
  BY <1>2 DEF Pending
<1> QED
  BY <1>2, <1>3, <1>5, <1>6, <1>7 DEF ReportInv

\* A type with nothing to report is passed over, the others become current.
LEMMA ReportNext ==
  ASSUME LogTypes, NEW t \in Reporters, ReportInv(t), LogNextType(t)
  PROVE  ReportInv(t)'
<1> DEFINE q == todo[t]
           x == Head(q)
           m == res[t].msg[x]
<1>1. /\ pc \in [Threads -> {"idle", "next", "reported", "lock"} \cup Inner]
      /\ call \in [Threads -> Message]
      /\ todo \in [Threads -> Rest] /\ t \in Threads
  BY SizeAssumption DEF LogTypes
<1>2. /\ pc[t] = "next" /\ q # <<>> /\ got' = got /\ todo'[t] = Tail(q)
      /\ res' = res /\ mask' = mask
  BY <1>1 DEF LogNextType, resVars, logVars
<1>3. /\ x \in Types /\ Len(q) = x /\ Len(Tail(q)) = x - 1
  <2>1. q \in Rest
    BY <1>1
  <2> QED
    BY <1>2, <2>1, RestFacts
<1>4. \A y \in Types : y \in Nat
  BY DEF Types, ERR, WARN, INFO
<1>5. \A y \in Types : Handled(t, y) <=> y > x
  BY <1>2, <1>3 DEF Handled, Pending
<1>6. /\ \A k \in DOMAIN got[t] : \E y \in Types : y > x /\ got[t][k].level = LevelOf[y]
      /\ \A y \in Types : y > x => PutOut(t, y)
      /\ InOrder(t)
  BY <1>2, <1>5 DEF ReportInv
<1>7. \A y \in Types : PutOut(t, y) => PutOut(t, y)'
  BY <1>2 DEF PutOut, Out
<1>8. InOrder(t)'
  BY <1>2, <1>6 DEF InOrder
<1>9. CASE m.count # 0 /\ LevelOf[x] \in mask
  <2>1. pc'[t] = "lock" /\ call'[t] = [level |-> LevelOf[x], text |-> m.text]
    BY <1>1, <1>9 DEF LogNextType, Goes
  <2>2. Current(t)' = x
    BY <1>2, <1>3, <1>4 DEF Current
  <2>3. \A y \in Types : Handled(t, y)' <=> y > x
    BY <1>2, <1>3, <1>4, <2>1, <2>2 DEF Handled, Pending
  <2>4. pc'[t] \in Pending => /\ Current(t)' \in Types
      /\ call'[t] = [level |-> LevelOf[Current(t)'], text |-> res'[t].msg[Current(t)'].text]
      /\ res'[t].msg[Current(t)'].count # 0 /\ LevelOf[Current(t)'] \in mask'
    BY <1>2, <1>3, <1>9, <2>1, <2>2
  <2>5. /\ \A k \in DOMAIN got'[t] : \E y \in Types : /\ Handled(t, y)'
                                                      /\ got'[t][k].level = LevelOf[y]
        /\ \A y \in Types : Handled(t, y)' => PutOut(t, y)'
    BY <1>2, <1>6, <1>7, <2>3
  <2> QED
    BY <1>8, <2>1, <2>4, <2>5 DEF ReportInv
<1>10. CASE ~(m.count # 0 /\ LevelOf[x] \in mask)
  <2>1. pc'[t] = "next"
    BY <1>2, <1>10 DEF LogNextType
  <2>2. \A y \in Types : Handled(t, y)' <=> y > x \/ y = x
    BY <1>2, <1>3, <1>4, <2>1 DEF Handled, Pending
  <2>3. Out(t, x) = {}
    <3>1. ASSUME NEW k \in DOMAIN got[t], got[t][k].level = LevelOf[x] PROVE FALSE
      <4>1. PICK y \in Types : y > x /\ got[t][k].level = LevelOf[y]
        BY <1>6
      <4>2. y = x
        BY <1>3, <3>1, <4>1, LevelsDiffer
      <4> QED
        BY <1>3, <1>4, <4>1, <4>2
    <3> QED
      BY <3>1 DEF Out
  <2>4. PutOut(t, x)
    BY <1>10, <2>3 DEF PutOut
  <2>5. /\ \A k \in DOMAIN got'[t] : \E y \in Types : /\ Handled(t, y)'
                                                      /\ got'[t][k].level = LevelOf[y]
        /\ \A y \in Types : Handled(t, y)' => PutOut(t, y)'
    BY <1>2, <1>6, <1>7, <2>2, <2>4
  <2>6. pc'[t] \notin Pending
    BY <2>1 DEF Pending
  <2> QED
    BY <1>8, <2>1, <2>5, <2>6 DEF ReportInv
<1> QED
  BY <1>9, <1>10

\* What is put out is the report of the current type, which is then done with.
LEMMA ReportPuts ==
  ASSUME LogTypes, LockInv, NEW t \in Reporters, ReportInv(t),
         NEW to \in Handlers \cup {None}, NEW with \in Handlers \cup {None},
         pc[t] \in {"call", "syslog"}, pc'[t] = "unlock", PutsOut(t, to, with),
         todo' = todo, res' = res, mask' = mask
  PROVE  ReportInv(t)'
<1>0. PICK x : x = Current(t)
  OBVIOUS
<1> DEFINE g == got[t]
           n == Len(g)
           o == [level |-> call[t].level, text |-> Cut(call[t].text), to |-> to,
                 ctx |-> with]
<1>1. /\ got \in [Threads -> Seq(Output)] /\ t \in Threads /\ todo[t] \in Rest
  BY SizeAssumption DEF LogTypes
<1>2. got' = [got EXCEPT ![t] = Append(g, o)] /\ o \in Output
  BY <1>1, OutputType
<1>3. pc[t] \in Pending /\ pc[t] # "idle" /\ pc'[t] \notin Pending
  BY DEF Pending
<1>4. /\ x \in Types /\ res[t].msg[x].count # 0 /\ LevelOf[x] \in mask
      /\ call[t] = [level |-> LevelOf[x], text |-> res[t].msg[x].text]
  BY <1>0, <1>3 DEF ReportInv
<1>5. o.level = LevelOf[x] /\ o.text = Cut(res[t].msg[x].text)
  BY <1>4
<1>6. n \in Nat /\ DOMAIN g = 1..n /\ g \in Seq(Output)
  BY <1>1, LenProperties
<1> DEFINE h == Append(g, o)
<1>7. /\ DOMAIN h = 1..(n + 1) /\ h[n + 1] = o /\ \A k \in 1..n : h[k] = g[k]
  <2> HIDE DEF g, o
  <2> QED
    BY <1>2, <1>6, AppendProperties, LenProperties
<1>8. got'[t] = h
  <2> HIDE DEF o
  <2> QED
    BY <1>1, <1>2
<1> HIDE DEF h, o, n
<1>9. Len(todo[t]) \in 0..3 /\ x = Len(todo[t]) + 1 /\ \A y \in Types : y \in Nat
  BY <1>0, <1>1, RestFacts DEF Current, Types, ERR, WARN, INFO
<1>10. \A y \in Types : Handled(t, y) <=> y > x
  BY <1>0, <1>3, <1>9 DEF Handled
<1>11. \A y \in Types : Handled(t, y)' <=> y > x \/ y = x
  BY <1>3, <1>9 DEF Handled
<1>12. /\ \A k \in 1..n : \E y \in Types : y > x /\ g[k].level = LevelOf[y]
       /\ \A y \in Types : y > x => PutOut(t, y)
       /\ InOrder(t)
  BY <1>3, <1>6, <1>10 DEF ReportInv
<1>13. ASSUME NEW k \in 1..n PROVE g[k].level # LevelOf[x]
  <2>1. PICK y \in Types : y > x /\ g[k].level = LevelOf[y]
    BY <1>12
  <2> QED
    BY <1>4, <1>9, <2>1, LevelsDiffer
<1>14. DOMAIN h = (1..n) \cup {n + 1} /\ n + 1 \notin 1..n
  BY <1>6, <1>7
<1>15. ASSUME NEW k \in DOMAIN h
       PROVE  \E y \in Types : Handled(t, y)' /\ h[k].level = LevelOf[y]
  <2>1. CASE k \in 1..n
    BY <1>7, <1>11, <1>12, <2>1
  <2>2. CASE k = n + 1
    BY <1>4, <1>5, <1>7, <1>11, <2>2
  <2> QED
    BY <1>14, <2>1, <2>2
<1>16. PutOut(t, x)'
  <2>1. \A k \in DOMAIN h : h[k].level = LevelOf[x] <=> k = n + 1
    BY <1>5, <1>7, <1>13, <1>14
  <2>2. Out(t, x)' = {k \in DOMAIN h : h[k].level = LevelOf[x]}
    BY <1>8 DEF Out
  <2>3. Out(t, x)' = {n + 1}
    BY <1>14, <2>1, <2>2
  <2>4. got'[t][n + 1].text = Cut(res[t].msg[x].text)
    BY <1>5, <1>7, <1>8
  <2> QED
    BY <1>4, <2>3, <2>4 DEF PutOut
<1>17. ASSUME NEW y \in Types, y > x PROVE PutOut(t, y)'
  <2>1. LevelOf[y] # LevelOf[x]
    BY <1>4, <1>9, <1>17, LevelsDiffer
  <2>2. Out(t, y)' = Out(t, y) /\ Out(t, y) \subseteq 1..n
    BY <1>5, <1>6, <1>7, <1>8, <1>14, <2>1 DEF Out
  <2>3. \A k \in Out(t, y) : got'[t][k] = g[k]
    BY <1>7, <1>8, <2>2
  <2>4. PutOut(t, y)
    BY <1>12, <1>17
  <2> QED
    BY <2>2, <2>3, <2>4 DEF PutOut
<1>18. InOrder(t)'
  <2> SUFFICES ASSUME NEW k \in DOMAIN h, NEW l \in DOMAIN h, k < l
               PROVE  \E y, z \in Types : /\ y > z /\ h[k].level = LevelOf[y]
                                          /\ h[l].level = LevelOf[z]
    BY <1>8 DEF InOrder
  <2>1. k \in 1..n
    BY <1>6, <1>14
  <2>2. CASE l \in 1..n
    BY <1>6, <1>7, <1>12, <2>1, <2>2 DEF InOrder
  <2>3. CASE l = n + 1
    <3>1. PICK y \in Types : y > x /\ g[k].level = LevelOf[y]
      BY <1>12, <2>1
    <3> QED
      BY <1>4, <1>5, <1>7, <2>1, <2>3, <3>1
  <2> QED
    BY <1>14, <2>2, <2>3
<1>19. \A k \in DOMAIN got'[t] : \E y \in Types : /\ Handled(t, y)'
                                                  /\ got'[t][k].level = LevelOf[y]
  BY <1>8, <1>15
<1>20. \A y \in Types : Handled(t, y)' => PutOut(t, y)'
  BY <1>11, <1>16, <1>17
<1> QED
  BY <1>3, <1>18, <1>19, <1>20 DEF ReportInv

\* Each step of a call keeps the reports of all threads whole.
LEMMA LogStepReport ==
  ASSUME LogTypes, LockInv, NEW t \in Threads, LogStep(t),
         NEW u \in Reporters, ReportInv(u)
  PROVE  ReportInv(u)'
<1>1. /\ pc \in [Threads -> {"idle", "next", "reported", "lock"} \cup Inner]
      /\ todo \in [Threads -> Rest] /\ got \in [Threads -> Seq(Output)]
      /\ handler \in Handlers \cup {None} /\ ctx \in Handlers \cup {None}
      /\ u \in Threads
  BY SizeAssumption DEF LogTypes
<1>2. res' = res /\ mask' = mask
  BY LogStepFrame
<1>3. CASE u # t
  <2>1. pc'[u] = pc[u] /\ call'[u] = call[u] /\ todo'[u] = todo[u] /\ got'[u] = got[u]
    BY <1>1, <1>3, LogStepFrame
  <2>2. pc[u] = "reported" => todo[u] = <<>>
    BY DEF ReportInv
  <2> QED
    BY <1>2, <2>1, <2>2, ReportKept
<1>4. CASE u = t
  <2>1. CASE LogNextType(u)
    BY <1>4, <2>1, ReportNext
  <2>2. CASE LogRes(u)
    BY <1>4, <2>2, ReportBegins
  <2>3. CASE Return(u)
    <3>1. pc'[u] = "idle" /\ got'[u] = <<>>
      BY <1>1, <2>3 DEF Return, Goes
    <3> QED
      BY <3>1 DEF ReportInv, Pending
  <2>4. CASE LogResEnds(u)
    <3>1. /\ pc[u] = "next" /\ pc'[u] = "reported" /\ todo[u] = <<>>
          /\ todo' = todo /\ got' = got /\ call' = call
      BY <1>1, <2>4 DEF LogResEnds, Goes
    <3> QED
      BY <1>2, <3>1, ReportKept DEF Pending
  <2>5. CASE Lock(u) \/ Format(u) \/ TestHandler(u)
    <3>1. /\ pc[u] \in {"lock", "format", "test"}
          /\ pc'[u] \in {"format", "test", "call", "syslog"}
          /\ todo' = todo /\ got' = got /\ call' = call
      BY <1>1, <2>5 DEF Lock, Format, TestHandler, Goes
    <3> QED
      BY <1>2, <3>1, ReportKept DEF Pending
  <2>6. CASE Unlock(u)
    <3>1. /\ pc[u] = "unlock" /\ pc'[u] = "next" /\ todo' = todo /\ got' = got
      BY <1>1, <2>6 DEF Unlock, AfterLog, Goes
    <3> QED
      BY <1>2, <3>1, ReportKept DEF Pending
  <2>7. CASE CallHandler(u) \/ Syslog(u)
    <3>1. pc[u] \in {"call", "syslog"} /\ todo' = todo /\ call' = call
      BY <2>7 DEF CallHandler, Syslog
    <3>2. CASE got' = got /\ pc'[u] \in {"stuck", "crashed"}
      BY <1>2, <3>1, <3>2, ReportKept DEF Pending
    <3>3. CASE pc'[u] = "unlock" /\ (PutsOut(u, handler, ctx) \/ PutsOut(u, None, None))
      <4>1. CASE PutsOut(u, handler, ctx)
        BY <1>1, <1>2, <3>1, <3>3, <4>1, ReportPuts
      <4>2. CASE PutsOut(u, None, None)
        BY <1>1, <1>2, <3>1, <3>3, <4>2, ReportPuts
      <4> QED
        BY <3>3, <4>1, <4>2
    <3> QED
      BY <1>1, <2>7, <3>2, <3>3 DEF CallHandler, Syslog, Goes
  <2> QED
    BY <1>4, <2>1, <2>2, <2>3, <2>4, <2>5, <2>6, <2>7 DEF LogStep, Inside
<1> QED
  BY <1>3, <1>4

----------------------------------------------------------------------------
(* The invariant of the logger. *)

LEMMA LogInitInv == Init => LogInv
<1> SUFFICES ASSUME Init PROVE LogInv
  OBVIOUS
<1>1. ResInv
  BY ResInitInv
<1>2. /\ \A t \in Threads : pc[t] = "idle" /\ got[t] = <<>> /\ todo[t] = <<>>
      /\ pc = [t \in Threads |-> "idle"] /\ call = [t \in Threads |-> NoCall]
      /\ todo = [t \in Threads |-> <<>>] /\ got = [t \in Threads |-> <<>>]
      /\ {handler, ctx, installing} = {None} /\ owner = None
  BY DEF Init
<1>3. LogTypes
  <2>1. <<>> \in Seq(Kept) /\ <<>> \in Seq(Output) /\ <<>> \in Rest
    BY DEF Rest
  <2>2. NoCall \in Message
    BY <2>1 DEF NoCall, Message, Levels
  <2> QED
    BY <1>2, <2>1, <2>2 DEF LogTypes
<1>4. LockInv
  BY <1>2 DEF LockInv, Inner
<1>5. \A t \in Reporters : ReportInv(t)
  BY <1>2, SizeAssumption DEF ReportInv, Pending
<1> QED
  BY <1>1, <1>3, <1>4, <1>5 DEF LogInv

\* What a step can be: a thread's call goes on, a handler is installed
\* or taken away, or nothing happens in the logger.
LEMMA StepKinds ==
  ASSUME [Next]_vars
  PROVE  \/ UNCHANGED <<logVars, pc, call, todo, got>>
         \/ \E t \in Threads : LogStep(t)
         \/ InstallCtx \/ RemoveHandler \/ \E h \in Handlers : InstallHandler(h)
<1>1. CASE UNCHANGED vars
  BY <1>1 DEF vars
<1>2. ASSUME NEW t \in Threads, Inside(t) PROVE LogStep(t)
  BY <1>2 DEF LogStep
<1>3. ASSUME NEW t \in Threads, Begins(t)
      PROVE  LogStep(t) \/ UNCHANGED <<logVars, pc, call, todo, got>>
  <2>1. \A y \in Types, n \in Lengths : ResAdd(t, y, n) =>
          UNCHANGED <<logVars, pc, call, todo, got>>
    BY DEF ResAdd
  <2>2. ResClear(t) \/ ResInit(t) => UNCHANGED <<logVars, pc, call, todo, got>>
    BY DEF ResClear, ResInit, Clear
  <2> QED
    BY <1>3, <2>1, <2>2 DEF Begins, LogStep
<1> QED
  BY <1>1, <1>2, <1>3 DEF Next

\* The object of one thread is not the object of another.
LEMMA OwnObject ==
  ASSUME ResTypes, NEW t \in Reporters,
         \/ \E y \in Types, n \in Lengths : ResAdd(t, y, n)
         \/ ResClear(t) \/ ResInit(t)
  PROVE  \A u \in Reporters \ {t} : res'[u] = res[u]
BY DEF ResTypes, ResAdd, ResClear, ResInit, Clear

LEMMA LogStepInv == LogInv /\ [Next]_vars => LogInv'
<1> SUFFICES ASSUME LogInv, [Next]_vars PROVE LogInv'
  OBVIOUS
<1>1. /\ ResInv /\ LogTypes /\ LockInv /\ \A t \in Reporters : ReportInv(t)
      /\ ResTypes
  BY DEF LogInv, ResInv
<1>2. ResInv'
  BY <1>1, ResStepInv
<1>3. \A t \in Reporters : pc[t] = "reported" => todo[t] = <<>>
  BY <1>1 DEF ReportInv
<1>4. CASE UNCHANGED <<logVars, pc, call, todo, got>>
  <2>1. LogTypes'
    BY <1>1, <1>4 DEF LogTypes, logVars
  <2>2. LockInv'
    BY <1>1, <1>4 DEF LockInv, logVars
  <2>3. ASSUME NEW t \in Reporters, res'[t] = res[t] PROVE ReportInv(t)'
    <3>1. mask' = mask /\ pc' = pc /\ call' = call /\ todo' = todo /\ got' = got
      BY <1>4 DEF logVars
    <3> QED
      BY <1>1, <1>3, <2>3, <3>1, ReportKept
  <2>4. CASE UNCHANGED resVars
    BY <1>2, <2>1, <2>2, <2>3, <2>4 DEF LogInv, resVars
  <2>5. ASSUME NEW t \in Reporters, pc[t] = "idle",
               \/ \E y \in Types, n \in Lengths : ResAdd(t, y, n)
               \/ ResClear(t) \/ ResInit(t)
        PROVE  LogInv'
    <3>1. \A u \in Reporters \ {t} : ReportInv(u)'
      BY <1>1, <2>3, <2>5, OwnObject
    <3>2. ReportInv(t)'
      <4>1. pc'[t] = "idle" /\ got'[t] = <<>>
        BY <1>1, <1>4, <2>5 DEF ReportInv
      <4> QED
        BY <4>1 DEF ReportInv, Pending
    <3> QED
      BY <1>2, <2>1, <2>2, <3>1, <3>2 DEF LogInv
  <2>6. \/ UNCHANGED resVars
        \/ \E t \in Reporters :
             /\ pc[t] = "idle"
             /\ \/ \E y \in Types, n \in Lengths : ResAdd(t, y, n)
                \/ ResClear(t) \/ ResInit(t)
    BY OnlyOwnerChanges
  <2> QED
    BY <2>4, <2>5, <2>6
<1>5. ASSUME NEW t \in Threads, LogStep(t) PROVE LogInv'
  <2>1. LogTypes' /\ LockInv'
    BY <1>1, <1>5, LogStepTypes, LogStepLock
  <2>2. \A u \in Reporters : ReportInv(u)'
    BY <1>1, <1>5, LogStepReport
  <2> QED
    BY <1>2, <2>1, <2>2 DEF LogInv
<1>6. ASSUME InstallCtx \/ RemoveHandler \/ \E h \in Handlers : InstallHandler(h)
      PROVE  LogInv'
  <2>1. UNCHANGED <<resVars, mask, owner, buf, pc, call, todo, got>>
    BY <1>6 DEF InstallCtx, RemoveHandler, InstallHandler
  <2>2. {handler', ctx', installing'} \subseteq Handlers \cup {None}
    BY <1>1, <1>6 DEF InstallCtx, RemoveHandler, InstallHandler, LogTypes
  <2>3. LogTypes' /\ LockInv'
    BY <1>1, <2>1, <2>2 DEF LogTypes, LockInv
  <2>4. ASSUME NEW u \in Reporters PROVE ReportInv(u)'
    BY <1>1, <1>3, <2>1, ReportKept DEF resVars
  <2> QED
    BY <1>2, <2>3, <2>4 DEF LogInv
<1> QED
  BY <1>4, <1>5, <1>6, StepKinds

\* Whatever other threads log, add and install meanwhile, a report puts out
\* each type that has messages and is not masked once, in the order info,
\* warning, error, and with all of its messages if there was room for them.
THEOREM ReportsArriveWhole == Spec => []ReportArrives
<1>1. LogInv => ReportArrives
  <2> SUFFICES ASSUME LogInv, NEW t \in Reporters, pc[t] = "reported"
               PROVE  /\ InOrder(t)
                      /\ \A y \in Types :
                           Fits(t, y, LogRoom) /\ LogRoom < Size /\ ~RanOver(t, y - 1) =>
                             IF added[t][y] = <<>> \/ LevelOf[y] \notin mask
                             THEN Out(t, y) = {}
                             ELSE \E k \in Out(t, y) :
                                    /\ Out(t, y) = {k}
                                    /\ Ids(got[t][k].text) = Ids(added[t][y])
    BY DEF ReportArrives, InOrder, Out
  <2>1. todo[t] = <<>> /\ InOrder(t) /\ \A y \in Types : Handled(t, y) => PutOut(t, y)
    BY DEF LogInv, ReportInv
  <2>2. Len(todo[t]) = 0
    BY <2>1
  <2>3. \A y \in Types : Handled(t, y)
    BY <2>2 DEF Handled, Pending, Types, ERR, WARN, INFO
  <2> SUFFICES ASSUME NEW y \in Types, Fits(t, y, LogRoom), LogRoom < Size,
                      ~RanOver(t, y - 1)
               PROVE  IF added[t][y] = <<>> \/ LevelOf[y] \notin mask
                      THEN Out(t, y) = {}
                      ELSE \E k \in Out(t, y) :
                             /\ Out(t, y) = {k}
                             /\ Ids(got[t][k].text) = Ids(added[t][y])
    BY <2>1
  <2> DEFINE m == res[t].msg[y]
             a == added[t][y]
  <2>4. m \in Buffer /\ a \in Seq(Entry) /\ BufferInv(m, a, Adds(t))
    BY BufferOf DEF LogInv, ResInv
  <2>5. PutOut(t, y)
    BY <2>1, <2>3
  <2>6. Len(a) \in Nat /\ Len(a) < CountWidth /\ Total(a) <= LogRoom
    BY <2>4, LenProperties DEF Fits
  <2>7. CountWidth \in Nat /\ Size \in Nat /\ LogRoom \in Nat
    BY SizeAssumption
  <2>8. CASE a = <<>> \/ LevelOf[y] \notin mask
    <3>1. a = <<>> => m.count = 0
      <4>1. m.count \in 0..(CountWidth - 1) /\ m.count <= Len(a)
        BY <2>4 DEF BufferInv, Buffer
      <4> QED
        BY <2>7, <4>1
    <3> QED
      BY <2>5, <2>8, <3>1 DEF PutOut
  <2>9. CASE a # <<>> /\ LevelOf[y] \in mask
    <3>1. m.count # 0
      <4>1. ~(Len(a) >= CountWidth)
        BY <2>6, <2>7
      <4> QED
        BY <2>9, <4>1 DEF LogInv, ResInv, CountedIfAdded
    <3>2. m.text \in Seq(Kept) /\ m.head \in 0..Size
      BY <2>4 DEF Buffer
    <3>3. Total(a) \in Nat
      BY <2>4, TotalIsNat
    <3>4. Ids(m.text) = Ids(a) /\ m.head <= Total(a)
      BY <2>4, <2>6, <2>7, <3>3 DEF BufferInv
    <3>5. \A k \in DOMAIN m.text : m.text[k].end <= LogRoom
      <4> SUFFICES ASSUME NEW k \in DOMAIN m.text PROVE m.text[k].end <= LogRoom
        OBVIOUS
      <4>1. m.text[k] \in Kept
        BY <3>2, ElementOfSeq, LenProperties
      <4>2. m.text[k].end \in Nat
        BY <4>1 DEF Kept
      <4>3. m.text[k].end <= m.head
        BY <2>4 DEF BufferInv
      <4> QED
        BY <2>6, <2>7, <3>2, <3>3, <3>4, <4>2, <4>3
    <3>6. Cut(m.text) = m.text
      BY <3>2, <3>5, CutFacts
    <3> QED
      BY <2>5, <2>9, <3>1, <3>4, <3>6 DEF PutOut
  <2> QED
    BY <2>8, <2>9
<1> QED
  BY <1>1, LogInitInv, LogStepInv, PTL DEF Spec

\* The state stays within its types; no message in a text ends behind the head
\* of its buffer.
THEOREM LogTypesHold == Spec => []TypeOK
<1>1. LogInv => TypeOK
  <2> SUFFICES ASSUME LogInv PROVE TypeOK
    OBVIOUS
  <2>1. ASSUME NEW t \in Reporters, NEW y \in Types
        PROVE  LET m == res[t].msg[y]
               IN  /\ m.count \in 0..(CountWidth - 1) /\ m.head \in 0..Size
                   /\ \A k \in DOMAIN m.text : m.text[k].end \in 0..m.head
    <3> DEFINE m == res[t].msg[y]
    <3>1. m \in Buffer /\ BufferInv(m, added[t][y], Adds(t))
      BY BufferOf DEF LogInv, ResInv
    <3>2. m.count \in 0..(CountWidth - 1) /\ m.head \in 0..Size /\ m.text \in Seq(Kept)
      BY <3>1 DEF Buffer
    <3>3. ASSUME NEW k \in DOMAIN m.text PROVE m.text[k].end \in 0..m.head
      <4>1. m.text[k] \in Kept
        BY <3>2, ElementOfSeq, LenProperties
      <4>2. m.text[k].end \in Nat /\ m.text[k].end <= m.head
        BY <3>1, <4>1 DEF Kept, BufferInv
      <4> QED
        BY <3>2, <4>2
    <3> QED
      BY <3>2, <3>3
  <2> QED
    BY <2>1 DEF TypeOK, LogInv, LogTypes, Inner
<1> QED
  BY <1>1, LogInitInv, LogStepInv, PTL DEF Spec

=============================================================================
