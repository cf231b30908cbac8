-------------------------- MODULE SqlitePipeProofs --------------------------
(***************************************************************************)
(* What the queue of waiters is worth, for any number of requests, keys and   *)
(* failures: until the first timeout every sentinel settles the request it    *)
(* was printed for, and after any number of timeouts no waiter is left        *)
(* without one.                                                               *)
(*                                                                         *)
(* The sentinels still to come are slots: the lines of stdout, and after them *)
(* the requests of stdin.  The invariant places the waiters, in the order of  *)
(* the queue, in slots of their own (Embedded), and says that before the      *)
(* first timeout no slot is left over: the next sentinel is then that of the  *)
(* head of the queue.  The rest is what the lines carry (RowsIn, ReadIn) and  *)
(* how the counters in them add up (Counts).                                  *)
(***************************************************************************)
EXTENDS SqlitePipe, SequenceTheorems, SumTheorems

Line == [kind : {"row"}, key : Key, of : Request] \cup [kind : {"end"}, total : Nat, of : Request]

Outcomes ==
  {New, Waiting, TimedOut, Gone, Rejected, [state |-> "row not there"]}
    \cup [state : {"acknowledged"}, fresh : BOOLEAN, row : Key]

Types ==
  /\ table \subseteq Key /\ total \in Nat /\ lastTotal \in Nat
  /\ childUp \in BOOLEAN /\ alive \in BOOLEAN
  /\ stdin \in Seq(Request) /\ stdout \in Seq(Line)
  /\ q \in Seq(Request) /\ rows \in Seq(Line)
  /\ outcome \in [Request -> Outcomes]

-----------------------------------------------------------------------------
(* Waiters in slots.                                                        *)

\* The slots of what is still to be read.
Slots(out, inp) == 1..(Len(out) + Len(inp))

\* Slot k answers request r.
Slot(out, inp, k, r) ==
  IF k <= Len(out) THEN out[k].kind = "end" /\ out[k].of = r ELSE inp[k - Len(out)] = r

\* The first m waiters have slots of their own, in the order of the queue.
Fits(m, e, out, inp, w) ==
  /\ \A i, j \in 1..m : i < j => e[i] < e[j]
  /\ \A i \in 1..m : Slot(out, inp, e[i], w[i])

\* No slot but theirs will bring a sentinel.
Onto(m, e, out, inp) ==
  \A k \in Slots(out, inp) :
    k > Len(out) \/ out[k].kind = "end" => \E i \in 1..m : e[i] = k

\* While the child is up every waiter has its slot (up); before the first
\* timeout every slot has its waiter (prompt).
Placed(out, inp, w, up, prompt) ==
  \E m \in 0..Len(w) : \E e \in [1..m -> Slots(out, inp)] :
    /\ Fits(m, e, out, inp, w)
    /\ up => m = Len(w)
    /\ prompt => Onto(m, e, out, inp)

\* A new waiter takes the slot its SQL adds.
LEMMA PlacedByRun ==
  ASSUME NEW out \in Seq(Line), NEW inp \in Seq(Request), NEW w \in Seq(Request),
         NEW r \in Request, NEW prompt, Placed(out, inp, w, TRUE, prompt)
  PROVE  Placed(out, Append(inp, r), Append(w, r), TRUE, prompt)
<1>1. PICK e \in [1..Len(w) -> Slots(out, inp)] :
        Fits(Len(w), e, out, inp, w) /\ (prompt => Onto(Len(w), e, out, inp))
  BY DEF Placed
<1> DEFINE n == Len(w) + 1
           last == Len(out) + Len(inp) + 1
           e2 == [i \in 1..n |-> IF i = n THEN last ELSE e[i]]
<1>2. /\ Len(out) \in Nat /\ Len(inp) \in Nat /\ Len(w) \in Nat
      /\ Len(Append(inp, r)) = Len(inp) + 1 /\ Len(Append(w, r)) = n
      /\ \A k \in 1..Len(inp) : Append(inp, r)[k] = inp[k]
      /\ Append(inp, r)[Len(inp) + 1] = r
      /\ \A k \in 1..Len(w) : Append(w, r)[k] = w[k]
      /\ Append(w, r)[n] = r
  BY AppendProperties, LenProperties
<1>a. Slots(out, inp) = 1..(last - 1) /\ Slots(out, Append(inp, r)) = 1..last /\ last \in Nat
  BY <1>2 DEF Slots
<1>b. \A i \in 1..Len(w) : i < n /\ e[i] \in 1..(last - 1) /\ e2[i] = e[i]
  <2> SUFFICES ASSUME NEW i \in 1..Len(w)
               PROVE  i < n /\ e[i] \in 1..(last - 1) /\ e2[i] = e[i]
    OBVIOUS
  <2>1. i < n /\ i \in 1..n
    BY <1>2
  <2>2. e[i] \in 1..(last - 1)
    BY <1>a
  <2> QED BY <2>1, <2>2
<1>c. e2[n] = last /\ \A i \in 1..n : i = n \/ i \in 1..Len(w)
  BY <1>2
<1>3. e2 \in [1..n -> Slots(out, Append(inp, r))]
  BY <1>2 DEF Slots
<1>4. \A i, j \in 1..n : i < j => e2[i] < e2[j]
  <2> SUFFICES ASSUME NEW i \in 1..n, NEW j \in 1..n, i < j PROVE e2[i] < e2[j]
    OBVIOUS
  <2>1. i \in 1..Len(w)
    BY <1>2
  <2>2. CASE j = n
    <3>1. e2[i] = e[i] /\ e[i] \in 1..(last - 1)
      BY <1>b, <2>1
    <3>2. e2[j] = last
      BY <1>c, <2>2
    <3> HIDE DEF e2
    <3> QED BY <1>a, <3>1, <3>2
  <2>3. CASE j \in 1..Len(w)
    BY <1>1, <1>b, <2>1, <2>3 DEF Fits
  <2> QED BY <1>c, <2>2, <2>3
<1>5. ASSUME NEW i \in 1..n
      PROVE  Slot(out, Append(inp, r), e2[i], Append(w, r)[i])
  <2>1. CASE i = n
    BY <1>2, <2>1 DEF Slot
  <2>2. CASE i # n
    <3>1. i \in 1..Len(w) /\ e2[i] = e[i] /\ e[i] \in 1..(last - 1)
      BY <1>b, <1>c, <2>2
    <3>2. Slot(out, inp, e[i], w[i])
      BY <1>1, <3>1 DEF Fits
    <3> QED BY <1>2, <3>1, <3>2 DEF Slot
  <2> QED BY <2>1, <2>2
<1>6. ASSUME prompt
      PROVE  Onto(n, e2, out, Append(inp, r))
  <2> SUFFICES ASSUME NEW k \in Slots(out, Append(inp, r)), k > Len(out) \/ out[k].kind = "end"
               PROVE  \E i \in 1..n : e2[i] = k
    BY DEF Onto
  <2>1. CASE k = last
    BY <1>2, <2>1
  <2>2. CASE k # last
    <3>1. k \in Slots(out, inp)
      <4>1. k \in 1..last
        BY <1>a
      <4> QED BY <1>a, <2>2, <4>1
    <3>2. PICK i \in 1..Len(w) : e[i] = k
      BY <1>1, <1>6, <3>1 DEF Onto
    <3> QED BY <1>2, <1>b, <3>2
  <2> QED BY <2>1, <2>2
<1>7. Fits(n, e2, out, Append(inp, r), Append(w, r))
  BY <1>4, <1>5 DEF Fits
<1>8. n \in 0..Len(Append(w, r))
  BY <1>2
<1> HIDE DEF n, e2
<1> QED BY <1>2, <1>3, <1>6, <1>7, <1>8 DEF Placed

\* A waiter whose SQL reaches nobody takes none.
LEMMA PlacedByLateRun ==
  ASSUME NEW out \in Seq(Line), NEW inp \in Seq(Request), NEW w \in Seq(Request),
         NEW r \in Request, NEW prompt, Placed(out, inp, w, FALSE, prompt)
  PROVE  Placed(out, inp, Append(w, r), FALSE, prompt)
<1>0. PICK m \in 0..Len(w) : \E e \in [1..m -> Slots(out, inp)] :
        Fits(m, e, out, inp, w) /\ (prompt => Onto(m, e, out, inp))
  BY DEF Placed
<1>1. PICK e \in [1..m -> Slots(out, inp)] :
        Fits(m, e, out, inp, w) /\ (prompt => Onto(m, e, out, inp))
  BY <1>0
<1>2. /\ Len(w) \in Nat /\ Len(Append(w, r)) = Len(w) + 1
      /\ \A k \in 1..Len(w) : Append(w, r)[k] = w[k]
  BY AppendProperties, LenProperties
<1>3. m \in 0..Len(Append(w, r)) /\ \A i \in 1..m : Append(w, r)[i] = w[i]
  BY <1>2
<1>4. Fits(m, e, out, inp, Append(w, r))
  BY <1>1, <1>3 DEF Fits
<1> QED BY <1>1, <1>3, <1>4 DEF Placed

\* A waiter that leaves lets those behind it keep their slots.
LEMMA PlacedByTimeout ==
  ASSUME NEW out \in Seq(Line), NEW inp \in Seq(Request), NEW w \in Seq(Request),
         NEW v \in Seq(Request), NEW n \in 1..Len(w), NEW up, Len(v) = Len(w) - 1,
         \A j \in 1..Len(v) : v[j] = IF j < n THEN w[j] ELSE w[j + 1],
         Placed(out, inp, w, up, FALSE)
  PROVE  Placed(out, inp, v, up, FALSE)
<1>0. PICK m \in 0..Len(w) : \E e \in [1..m -> Slots(out, inp)] :
        Fits(m, e, out, inp, w) /\ (up => m = Len(w))
  BY DEF Placed
<1>1. PICK e \in [1..m -> Slots(out, inp)] :
        Fits(m, e, out, inp, w) /\ (up => m = Len(w))
  BY <1>0
<1> DEFINE l == IF n <= m THEN m - 1 ELSE m
           e2 == [i \in 1..l |-> IF i < n THEN e[i] ELSE e[i + 1]]
<1>2. Len(w) \in Nat /\ Len(v) \in Nat
  BY LenProperties
<1>3. l \in 0..Len(v) /\ (up => l = Len(v))
  BY <1>1, <1>2
<1>4. \A i \in 1..l : i \in 1..m /\ (i >= n => i + 1 \in 1..m)
  BY <1>2
<1>5. e2 \in [1..l -> Slots(out, inp)]
  BY <1>4
<1>6. \A i, j \in 1..l : i < j => e2[i] < e2[j]
  <2> SUFFICES ASSUME NEW i \in 1..l, NEW j \in 1..l, i < j PROVE e2[i] < e2[j]
    OBVIOUS
  <2>1. \A a, b \in 1..m : a < b => e[a] < e[b]
    BY <1>1 DEF Fits
  <2> QED BY <1>4, <2>1
<1>7. ASSUME NEW i \in 1..l
      PROVE  Slot(out, inp, e2[i], v[i])
  <2>1. i \in 1..Len(v)
    BY <1>2, <1>3
  <2>2. CASE i < n
    BY <1>1, <1>4, <2>1, <2>2 DEF Fits
  <2>3. CASE ~(i < n)
    <3>1. e2[i] = e[i + 1] /\ v[i] = w[i + 1] /\ i + 1 \in 1..m
      BY <1>4, <2>1, <2>3
    <3> QED BY <1>1, <3>1 DEF Fits
  <2> QED BY <2>2, <2>3
<1>8. Fits(l, e2, out, inp, v)
  BY <1>6, <1>7 DEF Fits
<1> HIDE DEF l, e2
<1> QED BY <1>3, <1>5, <1>8 DEF Placed

\* The lines one request adds to the output: a row, or not, and its sentinel.
Printed(out, new, r, n) ==
  /\ n \in {Len(out) + 1, Len(out) + 2} /\ Len(new) = n
  /\ \A k \in 1..Len(out) : new[k] = out[k]
  /\ new[n].kind = "end" /\ new[n].of = r
  /\ \A k \in 1..n :
       k > Len(out) /\ k # n => new[k].kind = "row" /\ new[k].of = r /\ new[k].key = KeyOf[r]

\* A request that is executed turns its slot of the input into a sentinel.
LEMMA PlacedByExecute ==
  ASSUME NEW out \in Seq(Line), NEW inp \in Seq(Request), NEW w \in Seq(Request),
         NEW new \in Seq(Line), NEW n, inp # <<>>, Printed(out, new, Head(inp), n),
         NEW up, NEW prompt, Placed(out, inp, w, up, prompt)
  PROVE  Placed(new, Tail(inp), w, up, prompt)
<1>0. PICK m \in 0..Len(w) : \E e \in [1..m -> Slots(out, inp)] :
        Fits(m, e, out, inp, w) /\ (up => m = Len(w)) /\ (prompt => Onto(m, e, out, inp))
  BY DEF Placed
<1>1. PICK e \in [1..m -> Slots(out, inp)] :
        Fits(m, e, out, inp, w) /\ (up => m = Len(w)) /\ (prompt => Onto(m, e, out, inp))
  BY <1>0
<1> DEFINE a == Len(out)
           b == Len(inp)
           Moved(k) == IF k <= a THEN k ELSE k + n - a - 1
           e2 == [i \in 1..m |-> Moved(e[i])]
<1>2. /\ a \in Nat /\ b \in Nat \ {0} /\ n \in Nat /\ n >= a + 1 /\ Len(w) \in Nat
      /\ Len(new) = n /\ Len(Tail(inp)) = b - 1 /\ Head(inp) = inp[1]
      /\ \A k \in 1..(b - 1) : Tail(inp)[k] = inp[k + 1]
  <2>1. Len(Tail(inp)) = b - 1 /\ \A k \in 1..Len(Tail(inp)) : Tail(inp)[k] = inp[k + 1]
    BY HeadTailProperties
  <2> QED BY <2>1, EmptySeq, LenProperties DEF Printed
<1>3. Slots(out, inp) = 1..(a + b) /\ Slots(new, Tail(inp)) = 1..(n + b - 1)
  BY <1>2 DEF Slots
<1>4. \A k \in 1..(a + b) : Moved(k) \in 1..(n + b - 1)
  BY <1>2
<1>5. \A k, l \in 1..(a + b) : k < l => Moved(k) < Moved(l)
  BY <1>2
<1>6. ASSUME NEW k \in 1..(a + b), NEW r, Slot(out, inp, k, r)
      PROVE  Slot(new, Tail(inp), Moved(k), r)
  <2>1. CASE k <= a
    BY <1>2, <1>6, <2>1 DEF Slot, Printed
  <2>2. CASE k = a + 1
    <3>1. Moved(k) = n
      BY <1>2, <2>2
    <3>2. inp[1] = r
      BY <1>2, <1>6, <2>2 DEF Slot
    <3>3. new[n].kind = "end" /\ new[n].of = r
      BY <1>2, <3>2 DEF Printed
    <3> HIDE DEF Moved
    <3> QED BY <1>2, <3>1, <3>3 DEF Slot
  <2>3. CASE k > a + 1
    <3>1. Moved(k) > n /\ Moved(k) - n = k - a - 1 /\ Moved(k) \in Nat
      BY <1>2, <2>3
    <3>2. k - a - 1 \in 1..(b - 1) /\ (k - a - 1) + 1 = k - a
      BY <1>2, <2>3
    <3>3. inp[k - a] = r
      BY <1>2, <1>6, <2>3 DEF Slot
    <3>4. Tail(inp)[k - a - 1] = r
      BY <1>2, <3>2, <3>3
    <3> HIDE DEF Moved
    <3> QED BY <1>2, <3>1, <3>4 DEF Slot
  <2> QED BY <1>2, <2>1, <2>2, <2>3
<1>7. ASSUME NEW k \in 1..(n + b - 1), k > n \/ new[k].kind = "end"
      PROVE  \E l \in 1..(a + b) : (l > a \/ out[l].kind = "end") /\ Moved(l) = k
  <2>1. CASE k <= a
    <3>1. k \in 1..a /\ k \in 1..(a + b) /\ Moved(k) = k /\ ~(k > n)
      BY <1>2, <2>1
    <3>2. out[k].kind = "end"
      BY <1>7, <3>1 DEF Printed
    <3> QED BY <3>1, <3>2
  <2>2. CASE k > a
    <3>1. k >= n
      BY <1>2, <1>7, <2>2 DEF Printed
    <3>2. k - n + a + 1 \in 1..(a + b) /\ k - n + a + 1 > a /\ Moved(k - n + a + 1) = k
      BY <1>2, <3>1
    <3> QED BY <3>2
  <2> QED BY <1>2, <2>1, <2>2
<1> HIDE DEF Moved
<1>8. e2 \in [1..m -> Slots(new, Tail(inp))]
  BY <1>3, <1>4
<1>9. Fits(m, e2, new, Tail(inp), w)
  <2>1. \A i \in 1..m : e[i] \in 1..(a + b) /\ e2[i] = Moved(e[i])
    BY <1>3
  <2>2. \A i, j \in 1..m : i < j => e2[i] < e2[j]
    BY <1>1, <1>5, <2>1 DEF Fits
  <2>3. \A i \in 1..m : Slot(new, Tail(inp), e2[i], w[i])
    BY <1>1, <1>6, <2>1 DEF Fits
  <2> QED BY <2>2, <2>3 DEF Fits
<1>10. ASSUME prompt
       PROVE  Onto(m, e2, new, Tail(inp))
  <2> SUFFICES ASSUME NEW k \in 1..(n + b - 1), k > n \/ new[k].kind = "end"
               PROVE  \E i \in 1..m : e2[i] = k
    BY <1>2, <1>3 DEF Onto
  <2>1. PICK l \in 1..(a + b) : (l > a \/ out[l].kind = "end") /\ Moved(l) = k
    BY <1>7
  <2>2. PICK i \in 1..m : e[i] = l
    BY <1>1, <1>3, <1>10, <2>1 DEF Onto
  <2> QED BY <2>1, <2>2
<1> HIDE DEF e2
<1> QED BY <1>1, <1>8, <1>9, <1>10 DEF Placed

\* A row is no slot.
LEMMA PlacedByRow ==
  ASSUME NEW out \in Seq(Line), NEW inp \in Seq(Request), NEW w \in Seq(Request),
         out # <<>>, out[1].kind = "row",
         NEW up, NEW prompt, Placed(out, inp, w, up, prompt)
  PROVE  Placed(Tail(out), inp, w, up, prompt)
<1>0. PICK m \in 0..Len(w) : \E e \in [1..m -> Slots(out, inp)] :
        Fits(m, e, out, inp, w) /\ (up => m = Len(w)) /\ (prompt => Onto(m, e, out, inp))
  BY DEF Placed
<1>1. PICK e \in [1..m -> Slots(out, inp)] :
        Fits(m, e, out, inp, w) /\ (up => m = Len(w)) /\ (prompt => Onto(m, e, out, inp))
  BY <1>0
<1> DEFINE a == Len(out)
           b == Len(inp)
           e2 == [i \in 1..m |-> e[i] - 1]
<1>2. /\ a \in Nat \ {0} /\ b \in Nat /\ Len(w) \in Nat /\ Len(Tail(out)) = a - 1
      /\ \A k \in 1..(a - 1) : Tail(out)[k] = out[k + 1]
  <2>1. Len(Tail(out)) = a - 1 /\ \A k \in 1..Len(Tail(out)) : Tail(out)[k] = out[k + 1]
    BY HeadTailProperties
  <2> QED BY <2>1, EmptySeq, LenProperties
<1>3. Slots(out, inp) = 1..(a + b) /\ Slots(Tail(out), inp) = 1..(a + b - 1)
  BY <1>2 DEF Slots
<1>4. ASSUME NEW k \in 1..(a + b), NEW r, Slot(out, inp, k, r)
      PROVE  k > 1 /\ Slot(Tail(out), inp, k - 1, r)
  <2>1. k # 1
    BY <1>2, <1>4 DEF Slot
  <2>2. CASE k <= a
    <3>1. k - 1 \in 1..(a - 1) /\ (k - 1) + 1 = k
      BY <1>2, <2>1, <2>2
    <3>2. Tail(out)[k - 1] = out[k]
      BY <1>2, <3>1
    <3> QED BY <1>2, <1>4, <2>1, <2>2, <3>2 DEF Slot
  <2>3. CASE k > a
    <3>1. k - 1 > a - 1 /\ (k - 1) - (a - 1) = k - a
      BY <1>2, <2>3
    <3> QED BY <1>2, <1>4, <2>1, <2>3, <3>1 DEF Slot
  <2> QED BY <1>2, <2>2, <2>3
<1>5. \A i \in 1..m : e[i] \in 1..(a + b) /\ e2[i] = e[i] - 1
  BY <1>3
<1>6. \A i \in 1..m : e[i] > 1 /\ Slot(Tail(out), inp, e2[i], w[i])
  BY <1>1, <1>4, <1>5 DEF Fits
<1>7. e2 \in [1..m -> Slots(Tail(out), inp)]
  <2>1. \A i \in 1..m : e[i] - 1 \in 1..(a + b - 1)
    BY <1>2, <1>5, <1>6
  <2> QED BY <1>3, <2>1
<1>8. Fits(m, e2, Tail(out), inp, w)
  <2>1. \A i, j \in 1..m : i < j => e2[i] < e2[j]
    <3> SUFFICES ASSUME NEW i \in 1..m, NEW j \in 1..m, i < j PROVE e2[i] < e2[j]
      OBVIOUS
    <3>1. e[i] < e[j]
      BY <1>1 DEF Fits
    <3>2. e[i] \in Int /\ e[j] \in Int /\ e2[i] = e[i] - 1 /\ e2[j] = e[j] - 1
      BY <1>2, <1>5
    <3> HIDE DEF e2
    <3> QED BY <3>1, <3>2
  <2> QED BY <1>6, <2>1 DEF Fits
<1>9. ASSUME prompt
      PROVE  Onto(m, e2, Tail(out), inp)
  <2> SUFFICES ASSUME NEW k \in 1..(a + b - 1), k > a - 1 \/ Tail(out)[k].kind = "end"
               PROVE  \E i \in 1..m : e2[i] = k
    BY <1>2, <1>3 DEF Onto
  <2>1. k + 1 \in 1..(a + b) /\ (k + 1 > a \/ out[k + 1].kind = "end")
    BY <1>2
  <2>2. PICK i \in 1..m : e[i] = k + 1
    BY <1>1, <1>3, <1>9, <2>1 DEF Onto
  <2> QED BY <1>5, <2>2
<1> HIDE DEF e2
<1> QED BY <1>1, <1>7, <1>8, <1>9 DEF Placed

\* The head of the queue leaves with the next sentinel: those behind it keep
\* their slots, the sentinel was its own or nobody's.
LEMMA PlacedBySentinel ==
  ASSUME NEW out \in Seq(Line), NEW inp \in Seq(Request), NEW w \in Seq(Request),
         out # <<>>, w # <<>>,
         NEW up, NEW prompt, Placed(out, inp, w, up, prompt),
         prompt => out[1].kind = "end"
  PROVE  Placed(Tail(out), inp, Tail(w), up, prompt)
<1>0. PICK m \in 0..Len(w) : \E e \in [1..m -> Slots(out, inp)] :
        Fits(m, e, out, inp, w) /\ (up => m = Len(w)) /\ (prompt => Onto(m, e, out, inp))
  BY DEF Placed
<1>1. PICK e \in [1..m -> Slots(out, inp)] :
        Fits(m, e, out, inp, w) /\ (up => m = Len(w)) /\ (prompt => Onto(m, e, out, inp))
  BY <1>0
<1> DEFINE a == Len(out)
           b == Len(inp)
<1>2. /\ a \in Nat \ {0} /\ b \in Nat /\ Len(w) \in Nat \ {0} /\ Len(Tail(out)) = a - 1
      /\ \A k \in 1..(a - 1) : Tail(out)[k] = out[k + 1]
      /\ Len(Tail(w)) = Len(w) - 1
      /\ \A k \in 1..(Len(w) - 1) : Tail(w)[k] = w[k + 1]
  <2>1. Len(Tail(out)) = a - 1 /\ \A k \in 1..Len(Tail(out)) : Tail(out)[k] = out[k + 1]
    BY HeadTailProperties
  <2>2. Len(Tail(w)) = Len(w) - 1 /\ \A k \in 1..Len(Tail(w)) : Tail(w)[k] = w[k + 1]
    BY HeadTailProperties
  <2> QED BY <2>1, <2>2, EmptySeq, LenProperties
<1>3. Slots(out, inp) = 1..(a + b) /\ Slots(Tail(out), inp) = 1..(a + b - 1)
  BY <1>2 DEF Slots
<1>a. Len(w) \in Nat /\ Len(w) >= 1 /\ m \in Nat /\ m <= Len(w)
  <2>1. Len(w) \in Nat /\ Len(w) # 0
    BY EmptySeq, LenProperties
  <2> QED BY <2>1
<1>b. up => m = Len(w)
  BY <1>1, Zenon
<1> DEFINE Rest(l) == (m = 0 => l = 0) /\ (m # 0 => l = m - 1)
<1>c. \E l \in 0..(Len(w) - 1) : Rest(l)
  <2>1. CASE m = 0
    BY <1>a, <2>1
  <2>2. CASE m # 0
    <3>1. m - 1 \in 0..(Len(w) - 1)
      BY <1>a, <2>2
    <3> QED BY <2>2, <3>1
  <2> QED BY <2>1, <2>2
<1>d. PICK l \in 0..(Len(w) - 1) : Rest(l)
  BY <1>c
<1>4. l \in Nat /\ l <= Len(w) - 1 /\ (m = Len(w) => l = Len(w) - 1)
  BY <1>a, <1>d
<1> DEFINE e2 == [i \in 1..l |-> e[i + 1] - 1]
<1>5. \A i \in 1..m : e[i] \in 1..(a + b)
  BY <1>3
<1>6. \A i \in 1..l : i + 1 \in 1..m /\ 1 \in 1..m /\ 1 < i + 1 /\ i \in 1..(Len(w) - 1)
  BY <1>a, <1>d, <1>4
<1>7. \A i \in 1..l : e[i + 1] \in 2..(a + b) /\ e2[i] = e[i + 1] - 1
  <2> SUFFICES ASSUME NEW i \in 1..l PROVE e[i + 1] \in 2..(a + b) /\ e2[i] = e[i + 1] - 1
    OBVIOUS
  <2>1. e[1] < e[i + 1]
    BY <1>1, <1>6 DEF Fits
  <2>2. e[1] \in 1..(a + b) /\ e[i + 1] \in 1..(a + b)
    BY <1>5, <1>6
  <2>3. e[i + 1] \in 2..(a + b)
    BY <1>2, <2>1, <2>2
  <2> QED BY <2>3
<1>8. e2 \in [1..l -> Slots(Tail(out), inp)]
  <2>1. ASSUME NEW i \in 1..l
        PROVE  e[i + 1] - 1 \in 1..(a + b - 1)
    <3>1. e[i + 1] \in 2..(a + b)
      BY <1>7
    <3> HIDE DEF e2
    <3> QED BY <1>2, <3>1
  <2> QED BY <1>3, <2>1
<1>9. ASSUME NEW k \in 2..(a + b), NEW r, Slot(out, inp, k, r)
      PROVE  Slot(Tail(out), inp, k - 1, r)
  <2>2. CASE k <= a
    <3>1. k - 1 \in 1..(a - 1) /\ (k - 1) + 1 = k
      BY <1>2, <2>2
    <3>2. Tail(out)[k - 1] = out[k]
      BY <1>2, <3>1
    <3> QED BY <1>2, <1>9, <2>2, <3>2 DEF Slot
  <2>3. CASE k > a
    <3>1. k - 1 > a - 1 /\ (k - 1) - (a - 1) = k - a
      BY <1>2, <2>3
    <3> QED BY <1>2, <1>9, <2>3, <3>1 DEF Slot
  <2> QED BY <1>2, <2>2, <2>3
<1>10. Fits(l, e2, Tail(out), inp, Tail(w))
  <2>1. \A i, j \in 1..l : i < j => e2[i] < e2[j]
    <3> SUFFICES ASSUME NEW i \in 1..l, NEW j \in 1..l, i < j PROVE e2[i] < e2[j]
      OBVIOUS
    <3>1. i + 1 < j + 1 /\ i + 1 \in 1..m /\ j + 1 \in 1..m
      BY <1>6
    <3>2. e[i + 1] < e[j + 1]
      BY <1>1, <3>1 DEF Fits
    <3>3. e2[i] = e[i + 1] - 1 /\ e2[j] = e[j + 1] - 1
      BY <1>7
    <3>4. e[i + 1] \in Int /\ e[j + 1] \in Int
      BY <1>2, <1>5, <3>1
    <3> HIDE DEF e2
    <3> QED BY <3>2, <3>3, <3>4
  <2>2. ASSUME NEW i \in 1..l
        PROVE  Slot(Tail(out), inp, e2[i], Tail(w)[i])
    <3>1. Slot(out, inp, e[i + 1], w[i + 1])
      BY <1>1, <1>6 DEF Fits
    <3>2. Slot(Tail(out), inp, e[i + 1] - 1, w[i + 1])
      BY <1>7, <1>9, <3>1
    <3>3. Tail(w)[i] = w[i + 1]
      <4>1. i \in 1..(Len(w) - 1)
        BY <1>6
      <4> QED BY <1>2, <4>1
    <3>4. e2[i] = e[i + 1] - 1
      BY <1>7
    <3> HIDE DEF e2
    <3> QED BY <3>2, <3>3, <3>4
  <2> QED BY <2>1, <2>2 DEF Fits
<1>11. ASSUME prompt
       PROVE  Onto(l, e2, Tail(out), inp)
  <2>1. PICK h \in 1..m : e[h] = 1
    <3>1. 1 \in 1..(a + b)
      BY <1>2
    <3> QED BY <1>1, <1>3, <1>11, <3>1 DEF Onto
  <2>2. h = 1
    <3>1. ~(1 < h)
      <4>1. 1 \in 1..m
        BY <1>2
      <4>2. e[1] >= 1 /\ e[1] \in Int
        BY <1>2, <1>5, <4>1
      <4>3. 1 < h => e[1] < e[h]
        BY <1>1, <4>1 DEF Fits
      <4> QED BY <2>1, <4>2, <4>3
    <3> QED BY <1>2, <3>1
  <2> SUFFICES ASSUME NEW k \in 1..(a + b - 1), k > a - 1 \/ Tail(out)[k].kind = "end"
               PROVE  \E i \in 1..l : e2[i] = k
    BY <1>2, <1>3 DEF Onto
  <2>3. k + 1 \in 1..(a + b) /\ (k + 1 > a \/ out[k + 1].kind = "end")
    BY <1>2
  <2>4. PICK i \in 1..m : e[i] = k + 1
    BY <1>1, <1>3, <1>11, <2>3 DEF Onto
  <2>5. i # 1
    BY <1>2, <2>1, <2>2, <2>4
  <2>6. i - 1 \in 1..l /\ (i - 1) + 1 = i
    BY <1>a, <1>d, <1>4, <2>5
  <2>7. e2[i - 1] = e[i] - 1
    BY <1>7, <2>6
  <2>8. e2[i - 1] = k
    <3> HIDE DEF e2
    <3> QED BY <1>2, <2>4, <2>7
  <2> HIDE DEF e2
  <2> QED BY <2>6, <2>8
<1>12. Len(Tail(w)) = Len(w) - 1
  BY <1>2
<1>13. l \in 0..Len(Tail(w)) /\ (m = Len(w) => l = Len(Tail(w)))
  BY <1>4, <1>12
<1> HIDE DEF e2
<1> QED BY <1>b, <1>13, <1>8, <1>10, <1>11 DEF Placed

\* Before the first timeout the next sentinel is that of the head of the queue.
LEMMA HeadIsAnswered ==
  ASSUME NEW out \in Seq(Line), NEW inp \in Seq(Request), NEW w \in Seq(Request),
         out # <<>>, out[1].kind = "end", NEW up, Placed(out, inp, w, up, TRUE)
  PROVE  w # <<>> /\ out[1].of = w[1]
<1>0. PICK m \in 0..Len(w) : \E e \in [1..m -> Slots(out, inp)] :
        Fits(m, e, out, inp, w) /\ Onto(m, e, out, inp)
  BY DEF Placed
<1>1. PICK e \in [1..m -> Slots(out, inp)] :
        Fits(m, e, out, inp, w) /\ Onto(m, e, out, inp)
  BY <1>0
<1>2. Len(out) \in Nat \ {0} /\ Len(inp) \in Nat /\ Len(w) \in Nat
  BY EmptySeq, LenProperties
<1>3. Slots(out, inp) = 1..(Len(out) + Len(inp)) /\ 1 \in Slots(out, inp)
  BY <1>2 DEF Slots
<1>4. PICK h \in 1..m : e[h] = 1
  BY <1>1, <1>3 DEF Onto
<1>5. 1 \in 1..m
  BY <1>2
<1>6. e[1] \in Int /\ e[1] >= 1
  BY <1>2, <1>3, <1>5
<1>7. e[1] = 1
  <2>1. 1 < h => e[1] < e[h]
    BY <1>1, <1>5 DEF Fits
  <2> QED BY <1>2, <1>4, <1>6, <2>1
<1>8. Slot(out, inp, 1, w[1])
  BY <1>1, <1>5, <1>7 DEF Fits
<1>9. Len(w) > 0
  BY <1>2, <1>5
<1> QED BY <1>2, <1>8, <1>9, EmptySeq DEF Slot

\* What the child had not executed is gone: those who waited for it wait for the
\* exit event.
LEMMA PlacedByDeath ==
  ASSUME NEW out \in Seq(Line), NEW inp \in Seq(Request), NEW w \in Seq(Request),
         NEW up, NEW prompt, Placed(out, inp, w, up, prompt)
  PROVE  Placed(out, <<>>, w, FALSE, prompt)
<1>0. PICK m \in 0..Len(w) : \E e \in [1..m -> Slots(out, inp)] :
        Fits(m, e, out, inp, w) /\ (prompt => Onto(m, e, out, inp))
  BY DEF Placed
<1>1. PICK e \in [1..m -> Slots(out, inp)] :
        Fits(m, e, out, inp, w) /\ (prompt => Onto(m, e, out, inp))
  BY <1>0
<1> DEFINE a == Len(out)
           T == {i \in 1..m : e[i] > a}
<1>2. a \in Nat /\ Len(inp) \in Nat /\ Len(w) \in Nat /\ Len(<<>>) = 0
  BY LenProperties, EmptySeq
<1>3. Slots(out, inp) = 1..(a + Len(inp)) /\ Slots(out, <<>>) = 1..a
  BY <1>2 DEF Slots
<1>4. \A i \in 1..m : e[i] \in 1..(a + Len(inp))
  BY <1>3
<1>5. \E l \in 0..m : \A i \in 1..m : i <= l <=> e[i] <= a
  <2>1. CASE T = {}
    <3>1. ASSUME NEW i \in 1..m
          PROVE  i <= m /\ e[i] <= a
      <4>1. ~(e[i] > a)
        BY <2>1
      <4>2. e[i] \in Int
        BY <1>2, <1>4
      <4> QED BY <1>2, <4>1, <4>2
    <3>2. m \in 0..m
      BY <1>2
    <3> QED BY <3>1, <3>2
  <2>2. CASE T # {}
    <3>1. T \in SUBSET Nat
      BY <1>2
    <3> HIDE DEF T
    <3>2. PICK t \in T : \A i \in T : t <= i
      BY <2>2, <3>1, LeastElement
    <3> USE DEF T
    <3>3. t \in 1..m /\ e[t] > a
      OBVIOUS
    <3>4. ASSUME NEW i \in 1..m
          PROVE  i <= t - 1 <=> e[i] <= a
      <4>1. CASE i < t
        <5>1. ~(i \in T)
          BY <1>2, <3>2, <3>3, <4>1
        <5> QED BY <1>2, <1>4, <3>3, <4>1, <5>1
      <4>2. CASE i = t
        BY <1>2, <1>4, <3>3, <4>2
      <4>3. CASE i > t
        <5>1. e[t] < e[i]
          BY <1>1, <3>3, <4>3 DEF Fits
        <5> QED BY <1>2, <1>4, <3>3, <4>3, <5>1
      <4> QED BY <1>2, <3>3, <4>1, <4>2, <4>3
    <3>5. t - 1 \in 0..m
      BY <1>2, <3>3
    <3> QED BY <3>4, <3>5
  <2> QED BY <2>1, <2>2
<1>6. PICK l \in 0..m : \A i \in 1..m : i <= l <=> e[i] <= a
  BY <1>5
<1> DEFINE e2 == [i \in 1..l |-> e[i]]
<1>7. \A i \in 1..l : i \in 1..m /\ e[i] \in 1..a /\ e2[i] = e[i]
  BY <1>2, <1>4, <1>6
<1>8. e2 \in [1..l -> Slots(out, <<>>)]
  BY <1>3, <1>7
<1>9. Fits(l, e2, out, <<>>, w)
  <2>1. \A i, j \in 1..l : i < j => e2[i] < e2[j]
    BY <1>1, <1>7 DEF Fits
  <2>2. \A i \in 1..l : Slot(out, inp, e[i], w[i])
    BY <1>1, <1>7 DEF Fits
  <2>3. \A i \in 1..l : Slot(out, <<>>, e2[i], w[i])
    BY <1>2, <1>7, <2>2 DEF Slot
  <2> QED BY <2>1, <2>3 DEF Fits
<1>10. ASSUME prompt
       PROVE  Onto(l, e2, out, <<>>)
  <2> SUFFICES ASSUME NEW k \in 1..a, k > a \/ out[k].kind = "end"
               PROVE  \E i \in 1..l : e2[i] = k
    BY <1>3 DEF Onto
  <2>1. k \in 1..(a + Len(inp))
    BY <1>2
  <2>2. PICK i \in 1..m : e[i] = k
    BY <1>1, <1>3, <1>10, <2>1 DEF Onto
  <2>3. i \in 1..l
    BY <1>2, <1>6, <2>2
  <2> QED BY <1>7, <2>2, <2>3
<1>11. l \in 0..Len(w)
  BY <1>2
<1> HIDE DEF e2
<1> QED BY <1>8, <1>9, <1>10, <1>11 DEF Placed

\* An empty queue asks for no slot.
LEMMA PlacedNone ==
  ASSUME NEW out \in Seq(Line), NEW inp \in Seq(Request), NEW prompt,
         prompt => Slots(out, inp) = {}, NEW up
  PROVE  Placed(out, inp, <<>>, up, prompt)
<1> DEFINE e == [i \in 1..0 |-> 0]
<1>1. Len(<<>>) = 0 /\ 0 \in 0..Len(<<>>) /\ \A i \in 1..0 : FALSE
  BY EmptySeq
<1>2. e \in [1..0 -> Slots(out, inp)]
  BY <1>1
<1>3. Fits(0, e, out, inp, <<>>)
  BY <1>1 DEF Fits
<1>4. prompt => Onto(0, e, out, inp)
  BY DEF Onto
<1> HIDE DEF e
<1> QED BY <1>1, <1>2, <1>3, <1>4 DEF Placed

-----------------------------------------------------------------------------
(* What the lines carry.                                                    *)

\* A row is that of its request and of the table, and its request's sentinel is
\* the next line.
RowsIn(out, tab) ==
  \A k \in 1..Len(out) : out[k].kind = "row" =>
    /\ k + 1 \in 1..Len(out) /\ out[k + 1].kind = "end" /\ out[k + 1].of = out[k].of
    /\ out[k].key = KeyOf[out[k].of] /\ out[k].key \in tab

\* The row that was read belongs to the sentinel that comes next.
ReadIn(read, out, tab) ==
  read # <<>> =>
    /\ out # <<>> /\ out[1].kind = "end"
    /\ read[1].key = KeyOf[out[1].of] /\ read[1].key \in tab

\* The counter in the sentinel before line k of the output.
BeforeIn(out, last, k) ==
  LET p == IF k > 1 /\ out[k - 1].kind = "row" THEN k - 2 ELSE k - 1
  IN  IF p = 0 THEN last ELSE out[p].total

\* The sentinel k will be read as that of a fresh insert.
FreshIn(out, last, k) == out[k].kind = "end" /\ out[k].total > BeforeIn(out, last, k)

\* The counters lead up to total_changes(), and a key in the table was fresh
\* once.
CountsIn(out, last, tot, tab) ==
  /\ tot = BeforeIn(out, last, Len(out) + 1)
  /\ \A k \in 1..Len(out) : FreshIn(out, last, k) => KeyOf[out[k].of] \in tab
  /\ \A k, l \in 1..Len(out) :
       FreshIn(out, last, k) /\ FreshIn(out, last, l) /\ KeyOf[out[k].of] = KeyOf[out[l].of] => k = l

\* A line has one of two kinds, with the fields of its kind.
LEMMA LineFields ==
  ASSUME NEW l \in Line
  PROVE  /\ l.of \in Request
         /\ \/ l.kind = "row" /\ l.key \in Key
            \/ l.kind = "end" /\ l.total \in Nat
BY DEF Line

\* Every line of an output has.
LEMMA LinesOf ==
  ASSUME NEW out \in Seq(Line)
  PROVE  \A k \in 1..Len(out) :
           /\ out[k].of \in Request
           /\ \/ out[k].kind = "row" /\ out[k].key \in Key
              \/ out[k].kind = "end" /\ out[k].total \in Nat
BY LineFields, ElementOfSeq

\* Lines that are added keep the order of rows and sentinels.
LEMMA RowsByExecute ==
  ASSUME NEW out \in Seq(Line), NEW new \in Seq(Line), NEW r \in Request, NEW n,
         Printed(out, new, r, n), NEW tab, NEW tab2, tab \subseteq tab2,
         n = Len(out) + 2 => KeyOf[r] \in tab2, RowsIn(out, tab)
  PROVE  RowsIn(new, tab2)
<1>1. Len(out) \in Nat /\ n \in Nat /\ Len(new) = n /\ n > Len(out)
  BY LenProperties DEF Printed
<1> SUFFICES ASSUME NEW k \in 1..n, new[k].kind = "row"
             PROVE  /\ k + 1 \in 1..n /\ new[k + 1].kind = "end" /\ new[k + 1].of = new[k].of
                    /\ new[k].key = KeyOf[new[k].of] /\ new[k].key \in tab2
  BY <1>1 DEF RowsIn
<1>2. CASE k <= Len(out)
  <2>1. k \in 1..Len(out) /\ new[k] = out[k]
    BY <1>1, <1>2 DEF Printed
  <2>2. /\ k + 1 \in 1..Len(out) /\ out[k + 1].kind = "end" /\ out[k + 1].of = out[k].of
        /\ out[k].key = KeyOf[out[k].of] /\ out[k].key \in tab
    BY <2>1 DEF RowsIn
  <2>3. new[k + 1] = out[k + 1] /\ k + 1 \in 1..n
    BY <1>1, <2>2 DEF Printed
  <2> QED BY <2>1, <2>2, <2>3
<1>3. CASE k > Len(out)
  <2>1. k # n
    BY DEF Printed
  <2>2. n = Len(out) + 2 /\ k = Len(out) + 1
    BY <1>1, <1>3, <2>1 DEF Printed
  <2>3. new[k].of = r /\ new[k].key = KeyOf[r] /\ new[n].kind = "end" /\ new[n].of = r /\ k + 1 = n
    BY <1>1, <1>3, <2>1, <2>2 DEF Printed
  <2> QED BY <1>1, <2>2, <2>3
<1> QED BY <1>1, <1>2, <1>3

\* Lines that are read leave the order of the others.
LEMMA RowsByRead ==
  ASSUME NEW out \in Seq(Line), out # <<>>, NEW tab, RowsIn(out, tab)
  PROVE  RowsIn(Tail(out), tab)
<1>1. Len(out) \in Nat /\ Len(Tail(out)) = Len(out) - 1
  BY LenProperties, HeadTailProperties
<1>2. \A k \in 1..(Len(out) - 1) : Tail(out)[k] = out[k + 1] /\ k + 1 \in 1..Len(out)
  BY <1>1, HeadTailProperties
<1> SUFFICES ASSUME NEW k \in 1..(Len(out) - 1), Tail(out)[k].kind = "row"
             PROVE  /\ k + 1 \in 1..(Len(out) - 1) /\ Tail(out)[k + 1].kind = "end"
                    /\ Tail(out)[k + 1].of = Tail(out)[k].of
                    /\ Tail(out)[k].key = KeyOf[Tail(out)[k].of] /\ Tail(out)[k].key \in tab
  BY <1>1 DEF RowsIn
<1>3. /\ (k + 1) + 1 \in 1..Len(out) /\ out[(k + 1) + 1].kind = "end"
      /\ out[(k + 1) + 1].of = out[k + 1].of
      /\ out[k + 1].key = KeyOf[out[k + 1].of] /\ out[k + 1].key \in tab
  BY <1>2 DEF RowsIn
<1>4. k + 1 \in 1..(Len(out) - 1)
  BY <1>1, <1>3
<1> QED BY <1>2, <1>3, <1>4

\* A request is counted when it adds its key.
Tallied(tot, t, tab, tab2, r) ==
  \/ t = tot /\ tab2 = tab
  \/ t = tot + 1 /\ KeyOf[r] \notin tab /\ tab2 = tab \cup {KeyOf[r]}

\* The counters of a request that is executed.
LEMMA CountsByExecute ==
  ASSUME NEW out \in Seq(Line), NEW new \in Seq(Line), NEW r \in Request, NEW n,
         Printed(out, new, r, n), NEW tab, NEW tab2, RowsIn(out, tab),
         NEW last \in Nat, NEW tot \in Nat, NEW t \in Nat, new[n].total = t,
         Tallied(tot, t, tab, tab2, r),
         CountsIn(out, last, tot, tab)
  PROVE  /\ CountsIn(new, last, t, tab2)
         /\ \A k \in 1..n : FreshIn(new, last, k) =>
              \/ k \in 1..Len(out) /\ FreshIn(out, last, k) /\ new[k] = out[k]
              \/ k = n /\ KeyOf[r] \notin tab
<1>1. Len(out) \in Nat /\ n \in Nat /\ Len(new) = n /\ n > Len(out)
  BY LenProperties DEF Printed
<1>2. \A k \in 1..Len(out) : k \in 1..n /\ new[k] = out[k]
  BY <1>1 DEF Printed
<1>3. ASSUME NEW k \in 1..(Len(out) + 1)
      PROVE  BeforeIn(new, last, k) = BeforeIn(out, last, k)
  <2>1. k > 1 => k - 1 \in 1..Len(out)
    BY <1>1
  <2>2. k > 2 => k - 2 \in 1..Len(out)
    BY <1>1
  <2>3. CASE k = 1
    BY <2>3 DEF BeforeIn
  <2>4. CASE k = 2
    BY <1>2, <2>1, <2>4 DEF BeforeIn
  <2>5. CASE k > 2
    BY <1>2, <2>1, <2>2, <2>5 DEF BeforeIn
  <2> QED BY <2>3, <2>4, <2>5
<1>4. BeforeIn(new, last, n) = tot
  <2>1. CASE n = Len(out) + 1
    BY <1>1, <1>3, <2>1 DEF CountsIn
  <2>2. CASE n = Len(out) + 2
    <3>1. new[n - 1].kind = "row"
      BY <1>1, <2>2 DEF Printed
    <3>2. BeforeIn(new, last, n) = IF Len(out) = 0 THEN last ELSE new[Len(out)].total
      BY <1>1, <2>2, <3>1 DEF BeforeIn
    <3>3. Len(out) > 0 => out[Len(out)].kind # "row"
      BY <1>1 DEF RowsIn
    <3>4. BeforeIn(out, last, Len(out) + 1) = IF Len(out) = 0 THEN last ELSE out[Len(out)].total
      BY <1>1, <3>3 DEF BeforeIn
    <3>5. Len(out) # 0 => new[Len(out)] = out[Len(out)]
      BY <1>1, <1>2
    <3> QED BY <3>2, <3>4, <3>5 DEF CountsIn
  <2> QED BY <2>1, <2>2 DEF Printed
<1>5. BeforeIn(new, last, n + 1) = t
  <2>1. new[n].kind # "row" /\ n + 1 > 1 /\ (n + 1) - 1 = n /\ n # 0
    BY <1>1 DEF Printed
  <2> QED BY <2>1 DEF BeforeIn
<1>6. ASSUME NEW k \in 1..n, FreshIn(new, last, k)
      PROVE  \/ k \in 1..Len(out) /\ FreshIn(out, last, k) /\ new[k] = out[k]
             \/ k = n /\ KeyOf[r] \notin tab
  <2>1. CASE k <= Len(out)
    <3>1. k \in 1..Len(out) /\ k \in 1..(Len(out) + 1)
      BY <1>1, <2>1
    <3> QED BY <1>2, <1>3, <1>6, <3>1 DEF FreshIn
  <2>2. CASE k > Len(out)
    <3>1. k = n
      BY <1>1, <1>6, <2>2 DEF Printed, FreshIn
    <3>2. t > tot
      BY <1>4, <1>6, <3>1 DEF FreshIn
    <3> QED BY <3>1, <3>2 DEF Tallied
  <2> QED BY <1>1, <2>1, <2>2
<1>7. new[n].of = r
  BY DEF Printed
<1>8. \A k \in 1..n : FreshIn(new, last, k) => KeyOf[new[k].of] \in tab2
  <2> SUFFICES ASSUME NEW k \in 1..n, FreshIn(new, last, k) PROVE KeyOf[new[k].of] \in tab2
    OBVIOUS
  <2>1. CASE k \in 1..Len(out) /\ FreshIn(out, last, k) /\ new[k] = out[k]
    BY <2>1 DEF CountsIn, Tallied
  <2>2. CASE k = n /\ KeyOf[r] \notin tab
    <3>1. t > tot
      BY <1>4, <2>2 DEF FreshIn
    <3> QED BY <1>7, <2>2, <3>1 DEF Tallied
  <2> QED BY <1>6, <2>1, <2>2
<1>9. ASSUME NEW k \in 1..n, NEW l \in 1..n, FreshIn(new, last, k), FreshIn(new, last, l),
             KeyOf[new[k].of] = KeyOf[new[l].of]
      PROVE  k = l
  <2>1. ASSUME NEW x \in 1..n, FreshIn(new, last, x)
        PROVE  \/ x \in 1..Len(out) /\ FreshIn(out, last, x) /\ new[x] = out[x]
                    /\ KeyOf[new[x].of] \in tab
               \/ x = n /\ KeyOf[new[x].of] \notin tab
    BY <1>6, <1>7, <2>1 DEF CountsIn
  <2> QED BY <1>9, <2>1 DEF CountsIn
<1> QED BY <1>1, <1>5, <1>6, <1>8, <1>9 DEF CountsIn

\* A row that is read leaves the counters before the lines that follow.
LEMMA BeforeByRow ==
  ASSUME NEW out \in Seq(Line), out # <<>>, out[1].kind = "row", NEW tab, RowsIn(out, tab),
         NEW last
  PROVE  \A k \in 1..Len(out) : BeforeIn(Tail(out), last, k) = BeforeIn(out, last, k + 1)
<1>1. Len(out) \in Nat \ {0} /\ Len(Tail(out)) = Len(out) - 1
  BY LenProperties, HeadTailProperties, EmptySeq
<1>2. \A k \in 1..(Len(out) - 1) : Tail(out)[k] = out[k + 1]
  BY <1>1, HeadTailProperties
<1>3. 2 \in 1..Len(out) /\ out[2].kind = "end"
  <2>1. 1 \in 1..Len(out)
    BY <1>1
  <2> QED BY <2>1 DEF RowsIn
<1> SUFFICES ASSUME NEW k \in 1..Len(out)
             PROVE  BeforeIn(Tail(out), last, k) = BeforeIn(out, last, k + 1)
  OBVIOUS
<1>4. CASE k = 1
  BY <1>4 DEF BeforeIn
<1>5. CASE k = 2
  <2>1. Tail(out)[1] = out[2] /\ Tail(out)[1].kind # "row"
    BY <1>1, <1>2, <1>3
  <2>2. BeforeIn(Tail(out), last, k) = Tail(out)[1].total
    <3> DEFINE s == Tail(out)
    <3>1. s[k - 1].kind # "row" /\ k - 1 = 1
      BY <1>5, <2>1
    <3> HIDE DEF s
    <3>2. BeforeIn(s, last, k) = s[1].total
      BY <3>1 DEF BeforeIn
    <3> QED BY <3>2 DEF s
  <2>3. BeforeIn(out, last, 3) = out[2].total
    BY <1>3 DEF BeforeIn
  <2> QED BY <1>5, <2>1, <2>2, <2>3
<1>6. CASE k > 2
  <2>1. Tail(out)[k - 1] = out[k] /\ Tail(out)[k - 2] = out[k - 1]
    BY <1>1, <1>2, <1>6
  <2>2. BeforeIn(Tail(out), last, k) =
          IF out[k].kind = "row" THEN out[k - 1].total ELSE out[k].total
    BY <1>1, <1>6, <2>1 DEF BeforeIn
  <2>3. BeforeIn(out, last, k + 1) =
          IF out[k].kind = "row" THEN out[k - 1].total ELSE out[k].total
    <3>1. k + 1 > 1 /\ (k + 1) - 1 = k /\ (k + 1) - 2 = k - 1 /\ k # 0 /\ k - 1 # 0
      BY <1>1, <1>6
    <3> QED BY <3>1 DEF BeforeIn
  <2> QED BY <2>2, <2>3
<1> QED BY <1>1, <1>4, <1>5, <1>6

\* A sentinel that is read leaves its counter in lastTotal.
LEMMA BeforeBySentinel ==
  ASSUME NEW out \in Seq(Line), out # <<>>, out[1].kind = "end", NEW last
  PROVE  \A k \in 1..Len(out) :
           BeforeIn(Tail(out), out[1].total, k) = BeforeIn(out, last, k + 1)
<1>1. Len(out) \in Nat \ {0} /\ Len(Tail(out)) = Len(out) - 1
  BY LenProperties, HeadTailProperties, EmptySeq
<1>2. \A k \in 1..(Len(out) - 1) : Tail(out)[k] = out[k + 1]
  BY <1>1, HeadTailProperties
<1> SUFFICES ASSUME NEW k \in 1..Len(out)
             PROVE  BeforeIn(Tail(out), out[1].total, k) = BeforeIn(out, last, k + 1)
  OBVIOUS
<1>4. CASE k = 1
  BY <1>4 DEF BeforeIn
<1>5. CASE k = 2
  <2>1. Tail(out)[1] = out[2]
    BY <1>1, <1>2, <1>5
  <2>2. BeforeIn(Tail(out), out[1].total, k) =
          IF out[2].kind = "row" THEN out[1].total ELSE out[2].total
    <3> DEFINE s == Tail(out)
    <3>1. s[k - 1] = out[2] /\ k - 1 = 1 /\ k - 2 = 0 /\ k > 1
      BY <1>5, <2>1
    <3> HIDE DEF s
    <3>2. BeforeIn(s, out[1].total, k) = IF out[2].kind = "row" THEN out[1].total ELSE out[2].total
      BY <3>1 DEF BeforeIn
    <3> QED BY <3>2 DEF s
  <2>3. BeforeIn(out, last, 3) = IF out[2].kind = "row" THEN out[1].total ELSE out[2].total
    BY DEF BeforeIn
  <2> QED BY <1>5, <2>2, <2>3
<1>6. CASE k > 2
  <2>1. Tail(out)[k - 1] = out[k] /\ Tail(out)[k - 2] = out[k - 1]
    BY <1>1, <1>2, <1>6
  <2>2. BeforeIn(Tail(out), out[1].total, k) =
          IF out[k].kind = "row" THEN out[k - 1].total ELSE out[k].total
    BY <1>1, <1>6, <2>1 DEF BeforeIn
  <2>3. BeforeIn(out, last, k + 1) =
          IF out[k].kind = "row" THEN out[k - 1].total ELSE out[k].total
    <3>1. k + 1 > 1 /\ (k + 1) - 1 = k /\ (k + 1) - 2 = k - 1 /\ k # 0 /\ k - 1 # 0
      BY <1>1, <1>6
    <3> QED BY <3>1 DEF BeforeIn
  <2> QED BY <2>2, <2>3
<1> QED BY <1>1, <1>4, <1>5, <1>6

\* So the lines that follow are as fresh as before.
LEMMA CountsByRead ==
  ASSUME NEW out \in Seq(Line), out # <<>>, NEW last, NEW last2, NEW tot, NEW tab,
         \A k \in 1..Len(out) : BeforeIn(Tail(out), last2, k) = BeforeIn(out, last, k + 1),
         CountsIn(out, last, tot, tab)
  PROVE  /\ CountsIn(Tail(out), last2, tot, tab)
         /\ \A k \in 1..Len(Tail(out)) :
              /\ k + 1 \in 2..Len(out) /\ Tail(out)[k] = out[k + 1]
              /\ FreshIn(Tail(out), last2, k) => FreshIn(out, last, k + 1)
<1>1. Len(out) \in Nat \ {0} /\ Len(Tail(out)) = Len(out) - 1
  BY LenProperties, HeadTailProperties, EmptySeq
<1>2. \A k \in 1..(Len(out) - 1) :
         Tail(out)[k] = out[k + 1] /\ k + 1 \in 1..Len(out) /\ k + 1 \in 2..Len(out) /\ k \in 1..Len(out)
  BY <1>1, HeadTailProperties
<1>3. \A k \in 1..(Len(out) - 1) : FreshIn(Tail(out), last2, k) <=> FreshIn(out, last, k + 1)
  BY <1>2 DEF FreshIn
<1>4. tot = BeforeIn(Tail(out), last2, Len(Tail(out)) + 1)
  <2>1. Len(Tail(out)) + 1 = Len(out) /\ Len(out) \in 1..Len(out)
    BY <1>1
  <2> QED BY <2>1 DEF CountsIn
<1>5. \A k \in 1..(Len(out) - 1) :
        FreshIn(Tail(out), last2, k) => KeyOf[Tail(out)[k].of] \in tab
  BY <1>2, <1>3 DEF CountsIn
<1>6. ASSUME NEW k \in 1..(Len(out) - 1), NEW l \in 1..(Len(out) - 1),
             FreshIn(Tail(out), last2, k), FreshIn(Tail(out), last2, l),
             KeyOf[Tail(out)[k].of] = KeyOf[Tail(out)[l].of]
      PROVE  k = l
  <2>1. k + 1 = l + 1
    BY <1>2, <1>3, <1>6 DEF CountsIn
  <2> QED BY <1>1, <2>1
<1> QED BY <1>1, <1>2, <1>3, <1>4, <1>5, <1>6 DEF CountsIn

-----------------------------------------------------------------------------
(* The invariant.                                                           *)

\* Before the first timeout, and before the exit.
Prompt == alive /\ NothingTimedOut

\* The queue holds requests whose promise is open, each of them once.
WaitersIn(w, oc) ==
  /\ \A i \in 1..Len(w) : oc[w[i]] = Waiting
  /\ \A i, j \in 1..Len(w) : w[i] = w[j] => i = j

Waiters == WaitersIn(q, outcome) /\ (childUp => alive) /\ (~alive => q = <<>>)

\* An acknowledged request read its own row, which is in the table.
AckedIn(oc, tab) ==
  \A r \in Request : oc[r].state = "acknowledged" => oc[r].row = KeyOf[r] /\ KeyOf[r] \in tab

\* A key was told to be fresh once at most.
FreshOnce(oc) ==
  \A r, s \in Request :
    /\ oc[r].state = "acknowledged" /\ oc[s].state = "acknowledged"
    /\ oc[r].fresh /\ oc[s].fresh /\ KeyOf[r] = KeyOf[s]
    => r = s

\* The output tells no key to be fresh that was told before.
FreshApart(out, last, oc) ==
  \A k \in 1..Len(out), r \in Request :
    FreshIn(out, last, k) /\ oc[r].state = "acknowledged" /\ oc[r].fresh =>
      KeyOf[r] # KeyOf[out[k].of]

Embedded == Placed(stdout, stdin, q, childUp, Prompt)

Lines == RowsIn(stdout, table) /\ ReadIn(rows, stdout, table)

Counts ==
  Prompt => CountsIn(stdout, lastTotal, total, table) /\ FreshApart(stdout, lastTotal, outcome)

Acks == NothingTimedOut => AckedIn(outcome, table) /\ FreshOnce(outcome)

Inv == Types /\ Waiters /\ Lines /\ Embedded /\ Counts /\ Acks

\* Fewer promises are easier to keep.
LEMMA PlacedLess ==
  ASSUME NEW out, NEW inp, NEW w, NEW up, NEW prompt, NEW up2, NEW prompt2,
         Placed(out, inp, w, up, prompt), up2 => up, prompt2 => prompt
  PROVE  Placed(out, inp, w, up2, prompt2)
BY Zenon DEF Placed

\* After a timeout, or the exit, a slot may be left over.
LEMMA PlacedLate ==
  ASSUME NEW out, NEW inp, NEW w, NEW up, NEW prompt, ~prompt,
         Placed(out, inp, w, up, FALSE)
  PROVE  Placed(out, inp, w, up, prompt)
BY Zenon DEF Placed

\* A step that acknowledges nobody.
NoneAcked(oc, oc2) == \A r \in Request : oc2[r].state = "acknowledged" => oc2[r] = oc[r]

\* It keeps what was told.
LEMMA TheSameAcks ==
  ASSUME NEW oc, NEW oc2, NoneAcked(oc, oc2), NEW tab, NEW tab2, tab \subseteq tab2
  PROVE  /\ AckedIn(oc, tab) => AckedIn(oc2, tab2)
         /\ FreshOnce(oc) => FreshOnce(oc2)
         /\ \A out, last : FreshApart(out, last, oc) => FreshApart(out, last, oc2)
<1>1. AckedIn(oc, tab) => AckedIn(oc2, tab2)
  BY DEF AckedIn, NoneAcked
<1>2. FreshOnce(oc) => FreshOnce(oc2)
  BY DEF FreshOnce, NoneAcked
<1>3. \A out, last : FreshApart(out, last, oc) => FreshApart(out, last, oc2)
  BY DEF FreshApart, NoneAcked
<1> QED BY <1>1, <1>2, <1>3

\* The outcomes are told apart by their states.
LEMMA OutcomesDiffer ==
  /\ New \in Outcomes /\ Waiting \in Outcomes /\ TimedOut \in Outcomes
  /\ Gone \in Outcomes /\ Rejected \in Outcomes
  /\ New # Waiting /\ New # TimedOut /\ Waiting # TimedOut /\ Gone # TimedOut
  /\ Gone # Waiting /\ Rejected # TimedOut
  /\ Waiting.state # "acknowledged" /\ Gone.state # "acknowledged"
  /\ TimedOut.state # "acknowledged" /\ Rejected.state # "acknowledged"
BY DEF New, Waiting, TimedOut, Gone, Rejected, Outcomes

\* What recordShare makes of the rows and the counters.
LEMMA ResolvedIs ==
  ASSUME NEW read \in Seq(Line), read # <<>> => read[1].key \in Key, NEW n \in Int
  PROVE  /\ Resolved(read, n) \in Outcomes /\ Resolved(read, n) # TimedOut
         /\ Resolved(read, n).state = "acknowledged" =>
              /\ read # <<>> /\ Resolved(read, n).row = read[1].key
              /\ Resolved(read, n).fresh <=> n > 0
<1>1. CASE read = <<>>
  BY <1>1 DEF Resolved, Outcomes, TimedOut
<1>2. CASE read # <<>>
  <2>1. Head(read) = read[1]
    BY <1>2, HeadTailProperties
  <2>2. Resolved(read, n) = [state |-> "acknowledged", fresh |-> n > 0, row |-> read[1].key]
    BY <1>2, <2>1 DEF Resolved
  <2>3. PICK x : x = Resolved(read, n)
    OBVIOUS
  <2>4. x.state = "acknowledged" /\ x.row = read[1].key
    BY <2>2, <2>3
  <2>5. x.fresh = (n > 0)
    BY <2>2, <2>3
  <2>6. x \in [state : {"acknowledged"}, fresh : BOOLEAN, row : Key]
    BY <1>2, <2>2, <2>3
  <2>7. x \in Outcomes
    BY <2>6, Zenon DEF Outcomes
  <2>8. x # TimedOut
    <3>1. TimedOut.state = "timed out"
      BY DEF TimedOut
    <3> QED BY <2>4, <3>1
  <2>9. x.fresh <=> n > 0
    BY <2>5
  <2> QED BY <1>2, <2>3, <2>4, <2>7, <2>8, <2>9
<1> QED BY <1>1, <1>2

\* The start.
LEMMA InitInv ==
  ASSUME PipeAssumption, Init
  PROVE  Inv
<1> USE DEF Init
<1>1. Types
  BY EmptySeq, OutcomesDiffer DEF Types
<1>2. Len(stdout) = 0 /\ Len(q) = 0 /\ Len(stdin) = 0 /\ \A i \in 1..0 : FALSE
  BY EmptySeq
<1>3. Waiters
  BY <1>2 DEF Waiters, WaitersIn
<1>4. Lines
  BY <1>2 DEF Lines, RowsIn, ReadIn
<1>5. Embedded
  <2>1. Slots(stdout, stdin) = {}
    BY <1>2 DEF Slots
  <2> QED BY <2>1, <1>1, PlacedNone DEF Embedded, Types
<1>6. \A r \in Request : outcome[r].state # "acknowledged"
  BY DEF New
<1>7. Counts
  <2>1. BeforeIn(stdout, lastTotal, 1) = 0
    BY DEF BeforeIn
  <2>2. CountsIn(stdout, lastTotal, total, table)
    BY <1>2, <2>1 DEF CountsIn
  <2> QED BY <1>2, <2>2 DEF Counts, FreshApart
<1>8. Acks
  BY <1>6 DEF Acks, AckedIn, FreshOnce
<1> QED BY <1>1, <1>3, <1>4, <1>5, <1>7, <1>8 DEF Inv

\* run().
LEMMA RunInv ==
  ASSUME PipeAssumption, Inv, NEW r \in Request, Run(r)
  PROVE  Inv'
<1> USE DEF Inv
<1>0. /\ outcome[r] = New /\ UNCHANGED <<table, total, childUp, stdout, alive, rows, lastTotal>>
      /\ outcome' \in {[outcome EXCEPT ![r] = Waiting], [outcome EXCEPT ![r] = Gone]}
  BY DEF Run
<1>1. NoneAcked(outcome, outcome') /\ (NothingTimedOut' => NothingTimedOut)
  BY <1>0, OutcomesDiffer DEF Types, NoneAcked, NothingTimedOut
<1>2. Prompt' => Prompt
  BY <1>0, <1>1 DEF Prompt
<1>3. Counts' /\ Acks' /\ Lines'
  BY <1>0, <1>1, <1>2, TheSameAcks DEF Counts, Acks, Lines
<1>4. CASE alive
  <2>1. /\ q' = Append(q, r) /\ outcome' = [outcome EXCEPT ![r] = Waiting]
        /\ stdin' = IF childUp THEN Append(stdin, r) ELSE stdin
    BY <1>4 DEF Run
  <2>2. /\ Len(q) \in Nat /\ Len(q') = Len(q) + 1 /\ q' \in Seq(Request) /\ q'[Len(q) + 1] = r
        /\ \A i \in 1..Len(q) : q'[i] = q[i] /\ q[i] \in Request
    BY <2>1, AppendProperties, LenProperties, ElementOfSeq DEF Types
  <2>3. Types'
    <3>1. stdin' \in Seq(Request)
      BY <2>1, AppendProperties DEF Types
    <3> QED BY <1>0, <2>1, <2>2, <3>1, OutcomesDiffer DEF Types
  <2>4. WaitersIn(q', outcome')
    <3>1. \A i \in 1..Len(q) : q[i] # r /\ outcome'[q[i]] = Waiting
      BY <1>0, <2>1, <2>2, OutcomesDiffer DEF Waiters, WaitersIn, Types
    <3>2. outcome'[r] = Waiting
      BY <2>1 DEF Types
    <3>3. \A i \in 1..(Len(q) + 1) : i \in 1..Len(q) \/ i = Len(q) + 1
      BY <2>2
    <3>4. \A i \in 1..(Len(q) + 1) : outcome'[q'[i]] = Waiting
      BY <2>2, <3>1, <3>2, <3>3
    <3>5. \A i, j \in 1..(Len(q) + 1) : q'[i] = q'[j] => i = j
      BY <2>2, <3>1, <3>3 DEF Waiters, WaitersIn
    <3> QED BY <2>2, <3>4, <3>5 DEF WaitersIn
  <2>5. Waiters'
    BY <1>0, <1>4, <2>4 DEF Waiters
  <2>6. Embedded'
    <3>1. CASE childUp
      <4>1. Placed(stdout, stdin, q, TRUE, Prompt)
        BY <3>1, PlacedLess DEF Embedded
      <4>2. Placed(stdout, Append(stdin, r), Append(q, r), TRUE, Prompt)
        BY <4>1, PlacedByRun DEF Types
      <4>3. Placed(stdout', stdin', q', TRUE, Prompt)
        BY <1>0, <2>1, <3>1, <4>2
      <4> QED BY <1>2, <4>3, PlacedLess DEF Embedded
    <3>2. CASE ~childUp
      <4>1. Placed(stdout, stdin, q, FALSE, Prompt)
        BY <3>2, PlacedLess DEF Embedded
      <4>2. Placed(stdout, stdin, Append(q, r), FALSE, Prompt)
        BY <4>1, PlacedByLateRun DEF Types
      <4>3. Placed(stdout', stdin', q', FALSE, Prompt)
        BY <1>0, <2>1, <3>2, <4>2
      <4>4. ~childUp'
        BY <1>0, <3>2
      <4> QED BY <1>2, <4>3, <4>4, PlacedLess DEF Embedded
    <3> QED BY <3>1, <3>2
  <2> QED BY <1>3, <2>3, <2>5, <2>6
<1>5. CASE ~alive
  <2>1. q' = q /\ stdin' = stdin /\ outcome' = [outcome EXCEPT ![r] = Gone]
    BY <1>5 DEF Run
  <2>2. Types'
    BY <1>0, <2>1, OutcomesDiffer DEF Types
  <2>3. Waiters'
    <3>1. \A i \in 1..Len(q) : FALSE
      BY <1>5, EmptySeq DEF Waiters
    <3> QED BY <1>0, <1>5, <2>1, <3>1 DEF Waiters, WaitersIn
  <2>4. Embedded'
    <3>1. Placed(stdout', stdin', q', childUp', Prompt)
      BY <1>0, <2>1 DEF Embedded
    <3> QED BY <1>2, <3>1, PlacedLess DEF Embedded
  <2> QED BY <1>3, <2>2, <2>3, <2>4
<1> QED BY <1>4, <1>5

\* A queue without its n-th waiter.
LEMMA SplicedIs ==
  ASSUME NEW w \in Seq(Request), NEW r \in Request
  PROVE  \/ Spliced(w, r) = w /\ \A i \in 1..Len(w) : w[i] # r
         \/ \E n \in 1..Len(w) :
              /\ w[n] = r /\ Spliced(w, r) \in Seq(Request) /\ Len(Spliced(w, r)) = Len(w) - 1
              /\ \A j \in 1..Len(Spliced(w, r)) :
                   Spliced(w, r)[j] = IF j < n THEN w[j] ELSE w[j + 1]
<1>1. Len(w) \in Nat /\ DOMAIN w = 1..Len(w) /\ \A i \in 1..Len(w) : w[i] \in Request
  BY LenProperties, ElementOfSeq
<1>2. CASE r \in Range(w)
  <2> DEFINE n == CHOOSE i \in DOMAIN w : w[i] = r
             s == SubSeq(w, 1, n - 1)
             t == SubSeq(w, n + 1, Len(w))
  <2>1. n \in 1..Len(w) /\ w[n] = r
    BY <1>1, <1>2 DEF Range
  <2>2. Spliced(w, r) = s \o t
    BY <1>2 DEF Spliced, RemoveAt
  <2> HIDE DEF n
  <2>3. /\ s \in Seq(Request) /\ Len(s) = n - 1
        /\ \A i \in 1..(n - 1) : s[i] = w[i]
    <3>1. n - 1 \in Int /\ 1 \in Int /\ \A i \in 1..(n - 1) : w[i] \in Request
      BY <1>1, <2>1
    <3>2. /\ s \in Seq(Request) /\ Len(s) = IF 1 <= n - 1 THEN (n - 1) - 1 + 1 ELSE 0
          /\ \A i \in 1..((n - 1) - 1 + 1) : s[i] = w[1 + i - 1]
      BY <3>1, SubSeqProperties
    <3> HIDE DEF s
    <3> QED BY <2>1, <3>2
  <2>4. /\ t \in Seq(Request) /\ Len(t) = Len(w) - n
        /\ \A i \in 1..(Len(w) - n) : t[i] = w[n + i]
    <3>1. n + 1 \in Int /\ Len(w) \in Int /\ \A i \in (n + 1)..Len(w) : w[i] \in Request
      BY <1>1, <2>1
    <3>2. /\ t \in Seq(Request) /\ Len(t) = IF n + 1 <= Len(w) THEN Len(w) - (n + 1) + 1 ELSE 0
          /\ \A i \in 1..(Len(w) - (n + 1) + 1) : t[i] = w[(n + 1) + i - 1]
      BY <3>1, SubSeqProperties
    <3>3. \A i \in 1..(Len(w) - n) : i \in 1..(Len(w) - (n + 1) + 1) /\ (n + 1) + i - 1 = n + i
      BY <1>1, <2>1
    <3> HIDE DEF t
    <3>4. Len(t) = Len(w) - n
      <4>1. CASE n + 1 <= Len(w)
        BY <1>1, <2>1, <3>2, <4>1
      <4>2. CASE ~(n + 1 <= Len(w))
        <5>1. n \in Int /\ n <= Len(w) /\ Len(w) \in Int
          BY <1>1, <2>1
        <5>2. Len(w) = n
          BY <4>2, <5>1
        <5> QED BY <1>1, <3>2, <4>2, <5>2
      <4> QED BY <4>1, <4>2
    <3>5. \A i \in 1..(Len(w) - n) : t[i] = w[n + i]
      BY <3>2, <3>3
    <3> QED BY <3>2, <3>4, <3>5
  <2> HIDE DEF s, t
  <2>5. /\ s \o t \in Seq(Request) /\ Len(s \o t) = Len(s) + Len(t)
        /\ \A i \in 1..(Len(s) + Len(t)) : (s \o t)[i] = IF i <= Len(s) THEN s[i] ELSE t[i - Len(s)]
    BY <2>3, <2>4, ConcatProperties
  <2>6. Len(s \o t) = Len(w) - 1
    BY <1>1, <2>1, <2>3, <2>4, <2>5
  <2>7. ASSUME NEW j \in 1..(Len(w) - 1)
        PROVE  (s \o t)[j] = IF j < n THEN w[j] ELSE w[j + 1]
    <3>1. j \in 1..(Len(s) + Len(t))
      BY <1>1, <2>1, <2>3, <2>4
    <3>2. CASE j < n
      <4>1. j <= Len(s) /\ j \in 1..(n - 1)
        BY <1>1, <2>1, <2>3, <3>2
      <4> QED BY <2>3, <2>5, <3>1, <3>2, <4>1
    <3>3. CASE ~(j < n)
      <4>1. ~(j <= Len(s)) /\ j - Len(s) \in 1..(Len(w) - n) /\ n + (j - Len(s)) = j + 1
        BY <1>1, <2>1, <2>3, <3>3
      <4>2. (s \o t)[j] = t[j - Len(s)]
        BY <2>5, <3>1, <4>1
      <4>3. t[j - Len(s)] = w[j + 1]
        BY <2>4, <4>1
      <4> QED BY <3>3, <4>2, <4>3
    <3> QED BY <3>2, <3>3
  <2> QED BY <2>1, <2>2, <2>5, <2>6, <2>7
<1>3. CASE r \notin Range(w)
  BY <1>1, <1>3 DEF Range, Spliced
<1> QED BY <1>2, <1>3

\* A waiter that leaves leaves the others in their order.
LEMMA WaitersBySplice ==
  ASSUME NEW w \in Seq(Request), NEW r \in Request, NEW oc \in [Request -> Outcomes],
         WaitersIn(w, oc)
  PROVE  WaitersIn(Spliced(w, r), [oc EXCEPT ![r] = TimedOut])
<1>1. \A i \in 1..Len(w) : w[i] \in Request /\ oc[w[i]] = Waiting
  BY ElementOfSeq DEF WaitersIn
<1>2. CASE Spliced(w, r) = w /\ \A i \in 1..Len(w) : w[i] # r
  BY <1>1, <1>2 DEF WaitersIn
<1>3. ASSUME NEW n \in 1..Len(w),
             /\ w[n] = r /\ Spliced(w, r) \in Seq(Request) /\ Len(Spliced(w, r)) = Len(w) - 1
             /\ \A j \in 1..Len(Spliced(w, r)) :
                  Spliced(w, r)[j] = IF j < n THEN w[j] ELSE w[j + 1]
      PROVE  WaitersIn(Spliced(w, r), [oc EXCEPT ![r] = TimedOut])
  <2> DEFINE v == Spliced(w, r)
             At(j) == IF j < n THEN j ELSE j + 1
  <2>0. Len(w) \in Nat
    BY LenProperties
  <2>1. \A j \in 1..Len(v) : At(j) \in 1..Len(w) /\ At(j) # n /\ v[j] = w[At(j)]
    BY <1>3, <2>0
  <2>2. \A i, j \in 1..Len(v) : At(i) = At(j) => i = j
    BY <1>3, <2>0
  <2> HIDE DEF v, At
  <2>3. \A i, j \in 1..Len(v) : v[i] = v[j] => i = j
    <3> SUFFICES ASSUME NEW i \in 1..Len(v), NEW j \in 1..Len(v), v[i] = v[j] PROVE i = j
      OBVIOUS
    <3>1. At(i) \in 1..Len(w) /\ At(j) \in 1..Len(w) /\ w[At(i)] = w[At(j)]
      BY <2>1
    <3>2. At(i) = At(j)
      BY <3>1 DEF WaitersIn
    <3> QED BY <2>2, <3>2
  <2>4. \A j \in 1..Len(v) : v[j] # r
    BY <1>3, <2>1 DEF WaitersIn
  <2>5. \A j \in 1..Len(v) : [oc EXCEPT ![r] = TimedOut][v[j]] = Waiting
    BY <1>1, <2>1, <2>4
  <2> QED BY <2>3, <2>5 DEF WaitersIn, v
<1> QED BY <1>2, <1>3, SplicedIs

\* The timer of run().
LEMMA TimeoutInv ==
  ASSUME Inv, NEW r \in Request, Timeout(r)
  PROVE  Inv'
<1> USE DEF Inv
<1>0. /\ q' = Spliced(q, r) /\ outcome' = [outcome EXCEPT ![r] = TimedOut]
      /\ UNCHANGED <<table, total, childUp, stdin, stdout, alive, rows, lastTotal>>
  BY DEF Timeout, child
<1>1. ~NothingTimedOut' /\ ~Prompt'
  BY <1>0 DEF Types, NothingTimedOut, Prompt
<1>2. q' \in Seq(Request) /\ Placed(stdout, stdin, q', childUp, FALSE)
  <2>1. Placed(stdout, stdin, q, childUp, FALSE)
    BY PlacedLess DEF Embedded
  <2>2. CASE Spliced(q, r) = q
    BY <1>0, <2>1, <2>2 DEF Types
  <2>3. ASSUME NEW n \in 1..Len(q),
             /\ q[n] = r /\ Spliced(q, r) \in Seq(Request) /\ Len(Spliced(q, r)) = Len(q) - 1
             /\ \A j \in 1..Len(Spliced(q, r)) :
                  Spliced(q, r)[j] = IF j < n THEN q[j] ELSE q[j + 1]
        PROVE  q' \in Seq(Request) /\ Placed(stdout, stdin, q', childUp, FALSE)
    <3>1. Placed(stdout, stdin, Spliced(q, r), childUp, FALSE)
      BY <2>1, <2>3, PlacedByTimeout DEF Types
    <3> QED BY <1>0, <2>3, <3>1
  <2>4. q \in Seq(Request)
    BY DEF Types
  <2> QED BY <2>2, <2>3, <2>4, SplicedIs
<1>3. Types'
  BY <1>0, <1>2, OutcomesDiffer DEF Types
<1>4. Waiters'
  <2>1. WaitersIn(q', outcome')
    BY <1>0, WaitersBySplice DEF Waiters, Types
  <2>2. q = <<>> => q' = <<>>
    <3>1. q = <<>> => Range(q) = {}
      BY DEF Range
    <3> QED BY <1>0, <3>1 DEF Spliced
  <2> QED BY <1>0, <2>1, <2>2 DEF Waiters
<1>5. Embedded'
  <2>1. Placed(stdout', stdin', q', childUp', FALSE)
    BY <1>0, <1>2
  <2> QED BY <1>1, <2>1, PlacedLate DEF Embedded
<1>6. Lines'
  BY <1>0 DEF Lines
<1> QED BY <1>1, <1>3, <1>4, <1>5, <1>6 DEF Counts, Acks

\* Two lines one after the other.
LEMMA ConcatPair ==
  ASSUME NEW a, NEW b
  PROVE  <<a>> \o <<b>> = <<a, b>>
<1> DEFINE S == {a, b}
<1>1. /\ <<a>> \in Seq(S) /\ <<b>> \in Seq(S) /\ <<a, b>> \in Seq(S)
      /\ Len(<<a>>) = 1 /\ Len(<<b>>) = 1 /\ Len(<<a, b>>) = 2
      /\ <<a>>[1] = a /\ <<b>>[1] = b /\ <<a, b>>[1] = a /\ <<a, b>>[2] = b
  OBVIOUS
<1>2. PICK s : s = <<a>> \o <<b>>
  OBVIOUS
<1>3. /\ s \in Seq(S) /\ Len(s) = 2
      /\ \A i \in 1..2 : s[i] = IF i <= 1 THEN <<a>>[i] ELSE <<b>>[i - 1]
  BY <1>1, <1>2, ConcatProperties
<1>4. \A i \in 1..2 : s[i] = <<a, b>>[i]
  <2>1. \A i \in 1..2 : i = 1 \/ i = 2
    OBVIOUS
  <2>2. s[1] = a /\ s[2] = b
    BY <1>1, <1>3
  <2> QED BY <1>1, <2>1, <2>2
<1>5. s = <<a, b>>
  BY <1>1, <1>3, <1>4, SeqEqual
<1> QED BY <1>2, <1>5

\* A sentinel with its row before it.
LEMMA PrintedWithRow ==
  ASSUME PipeAssumption, NEW out \in Seq(Line), NEW r \in Request, NEW t \in Nat
  PROVE  LET new == out \o <<Row(KeyOf[r], r), Sentinel(t, r)>>
         IN  /\ new \in Seq(Line) /\ Printed(out, new, r, Len(out) + 2)
             /\ new[Len(out) + 2].total = t
<1> DEFINE a == Row(KeyOf[r], r)
           b == Sentinel(t, r)
           new == out \o <<a, b>>
<1>1. /\ a.kind = "row" /\ a.of = r /\ a.key = KeyOf[r] /\ b.kind = "end" /\ b.of = r /\ b.total = t
      /\ a \in Line /\ b \in Line
  BY DEF Row, Sentinel, Line, PipeAssumption
<1> HIDE DEF a, b
<1>2. Len(out) \in Nat
  BY LenProperties
<1>3. <<a, b>> \in Seq(Line) /\ Len(<<a, b>>) = 2 /\ <<a, b>>[1] = a /\ <<a, b>>[2] = b
  BY <1>1
<1>4. /\ new \in Seq(Line) /\ Len(new) = Len(out) + 2
      /\ \A i \in 1..(Len(out) + 2) :
           new[i] = IF i <= Len(out) THEN out[i] ELSE <<a, b>>[i - Len(out)]
  BY <1>3, ConcatProperties
<1> HIDE DEF new
<1>5. new[Len(out) + 1] = a /\ new[Len(out) + 2] = b
  <2>1. /\ Len(out) + 1 \in 1..(Len(out) + 2) /\ Len(out) + 2 \in 1..(Len(out) + 2)
        /\ ~(Len(out) + 1 <= Len(out)) /\ ~(Len(out) + 2 <= Len(out))
        /\ Len(out) + 1 - Len(out) = 1 /\ Len(out) + 2 - Len(out) = 2
    BY <1>2
  <2> QED BY <1>3, <1>4, <2>1
<1>6. Printed(out, new, r, Len(out) + 2)
  <2>1. \A k \in 1..Len(out) : new[k] = out[k]
    BY <1>2, <1>4
  <2>2. \A k \in 1..(Len(out) + 2) : k > Len(out) /\ k # Len(out) + 2 => k = Len(out) + 1
    BY <1>2
  <2> QED BY <1>1, <1>4, <1>5, <2>1, <2>2 DEF Printed
<1> QED BY <1>1, <1>4, <1>5, <1>6 DEF new, a, b

\* A sentinel alone.
LEMMA PrintedAlone ==
  ASSUME NEW out \in Seq(Line), NEW r \in Request, NEW t \in Nat
  PROVE  LET new == out \o <<Sentinel(t, r)>>
         IN  /\ new \in Seq(Line) /\ Printed(out, new, r, Len(out) + 1)
             /\ new[Len(out) + 1].total = t
<1> DEFINE b == Sentinel(t, r)
           new == out \o <<b>>
<1>1. b.kind = "end" /\ b.of = r /\ b.total = t /\ b \in Line
  BY DEF Sentinel, Line
<1> HIDE DEF b
<1>2. Len(out) \in Nat
  BY LenProperties
<1>3. <<b>> \in Seq(Line) /\ Len(<<b>>) = 1 /\ <<b>>[1] = b
  BY <1>1
<1>4. /\ new \in Seq(Line) /\ Len(new) = Len(out) + 1
      /\ \A i \in 1..(Len(out) + 1) :
           new[i] = IF i <= Len(out) THEN out[i] ELSE <<b>>[i - Len(out)]
  BY <1>3, ConcatProperties
<1> HIDE DEF new
<1>5. new[Len(out) + 1] = b
  <2>1. /\ Len(out) + 1 \in 1..(Len(out) + 1) /\ ~(Len(out) + 1 <= Len(out))
        /\ Len(out) + 1 - Len(out) = 1
    BY <1>2
  <2> QED BY <1>3, <1>4, <2>1
<1>6. Printed(out, new, r, Len(out) + 1)
  <2>1. \A k \in 1..Len(out) : new[k] = out[k]
    BY <1>2, <1>4
  <2>2. \A k \in 1..(Len(out) + 1) : ~(k > Len(out) /\ k # Len(out) + 1)
    BY <1>2
  <2> QED BY <1>1, <1>4, <1>5, <2>1, <2>2 DEF Printed
<1> QED BY <1>1, <1>4, <1>5, <1>6 DEF new, b

\* What a request that is executed does to the invariant, whether its insert
\* worked or not.
LEMMA PrintedInv ==
  ASSUME Inv, NEW n, stdin # <<>>, stdin' = Tail(stdin),
         stdout' \in Seq(Line), Printed(stdout, stdout', Head(stdin), n),
         stdout'[n].total = total', total' \in Nat,
         Tallied(total, total', table, table', Head(stdin)),
         table' \subseteq Key, n = Len(stdout) + 2 => KeyOf[Head(stdin)] \in table',
         UNCHANGED <<childUp, alive, q, rows, lastTotal, outcome>>
  PROVE  Inv'
<1> USE DEF Inv
<1>0. /\ stdin \in Seq(Request) /\ stdout \in Seq(Line) /\ q \in Seq(Request)
      /\ lastTotal \in Nat /\ total \in Nat
      /\ Head(stdin) \in Request /\ Tail(stdin) \in Seq(Request) /\ table \subseteq table'
  BY HeadTailProperties DEF Types, Tallied
<1>1. PICK r \in Request : r = Head(stdin)
  BY <1>0
<1>2. Types'
  BY <1>0 DEF Types
<1>3. Waiters'
  BY DEF Waiters
<1>4. Prompt' <=> Prompt
  BY DEF Prompt, NothingTimedOut
<1>5. RowsIn(stdout', table')
  <2>1. RowsIn(stdout, table)
    BY DEF Lines
  <2> QED BY <1>0, <2>1, RowsByExecute
<1>6. ReadIn(rows', stdout', table')
  <2>1. stdout # <<>> => stdout' # <<>> /\ stdout'[1] = stdout[1]
    <3>1. stdout # <<>> => Len(stdout) \in Nat \ {0}
      BY <1>0, EmptySeq
    <3>2. n > Len(stdout) /\ Len(stdout') = n /\ Len(stdout) \in Nat
      BY <1>0, LenProperties DEF Printed
    <3>3. stdout # <<>> => 1 \in 1..Len(stdout)
      BY <3>1
    <3>4. stdout' # <<>>
      BY <3>2, EmptySeq DEF Printed
    <3> QED BY <3>3, <3>4 DEF Printed
  <2> QED BY <1>0, <2>1 DEF Lines, ReadIn
<1>7. Embedded'
  <2>1. Placed(stdout', Tail(stdin), q, childUp, Prompt)
    BY <1>0, PlacedByExecute DEF Embedded
  <2>2. Placed(stdout', stdin', q', childUp', Prompt)
    BY <2>1
  <2> QED BY <1>4, <2>2, PlacedLess DEF Embedded
<1>8. Counts'
  <2> SUFFICES ASSUME Prompt
               PROVE  CountsIn(stdout', lastTotal', total', table')
                        /\ FreshApart(stdout', lastTotal', outcome')
    BY <1>4 DEF Counts
  <2>1. CountsIn(stdout, lastTotal, total, table) /\ FreshApart(stdout, lastTotal, outcome)
    BY DEF Counts
  <2>2. RowsIn(stdout, table)
    BY DEF Lines
  <2>3. /\ CountsIn(stdout', lastTotal, total', table')
        /\ \A k \in 1..n : FreshIn(stdout', lastTotal, k) =>
             \/ k \in 1..Len(stdout) /\ FreshIn(stdout, lastTotal, k) /\ stdout'[k] = stdout[k]
             \/ k = n /\ KeyOf[r] \notin table
    <3>1. /\ Printed(stdout, stdout', r, n) /\ stdout'[n].total = total'
          /\ Tallied(total, total', table, table', r)
      BY <1>1
    <3>2. stdout \in Seq(Line) /\ stdout' \in Seq(Line) /\ lastTotal \in Nat /\ total \in Nat
      BY <1>0
    <3> HIDE DEF Inv
    <3> QED BY <2>1, <2>2, <3>1, <3>2, CountsByExecute
  <2>4. FreshApart(stdout', lastTotal, outcome)
    <3> SUFFICES ASSUME NEW k \in 1..Len(stdout'), NEW s \in Request, FreshIn(stdout', lastTotal, k),
                        outcome[s].state = "acknowledged", outcome[s].fresh
                 PROVE  KeyOf[s] # KeyOf[stdout'[k].of]
      BY DEF FreshApart
    <3>1. k \in 1..n /\ stdout'[n].of = r
      BY <1>1 DEF Printed
    <3>2. CASE k \in 1..Len(stdout) /\ FreshIn(stdout, lastTotal, k) /\ stdout'[k] = stdout[k]
      BY <2>1, <3>2 DEF FreshApart
    <3>3. CASE k = n /\ KeyOf[r] \notin table
      <4>1. KeyOf[s] \in table
        BY DEF Acks, AckedIn, Prompt
      <4> QED BY <3>1, <3>3, <4>1
    <3> QED BY <2>3, <3>1, <3>2, <3>3
  <2> QED BY <2>3, <2>4
<1>9. Acks'
  <2>1. NothingTimedOut' <=> NothingTimedOut
    BY DEF NothingTimedOut
  <2>2. AckedIn(outcome, table) => AckedIn(outcome, table')
    BY <1>0 DEF AckedIn
  <2> QED BY <2>1, <2>2 DEF Acks
<1> QED BY <1>2, <1>3, <1>5, <1>6, <1>7, <1>8, <1>9 DEF Lines

\* The child executes a request.
LEMMA ExecuteInv ==
  ASSUME PipeAssumption, Inv, Execute
  PROVE  Inv'
<1>0. /\ stdin \in Seq(Request) /\ stdout \in Seq(Line) /\ total \in Nat /\ table \subseteq Key
      /\ stdin # <<>> /\ stdin' = Tail(stdin)
      /\ UNCHANGED <<childUp, alive, q, rows, lastTotal, outcome>>
  BY DEF Inv, Types, Execute, parent
<1>1. PICK r \in Request : r = Head(stdin)
  BY <1>0, HeadTailProperties
<1>2. /\ total' = IF KeyOf[r] \in table THEN total ELSE total + 1
      /\ table' = table \cup {KeyOf[r]}
      /\ stdout' = stdout \o <<Row(KeyOf[r], r), Sentinel(total', r)>>
  BY <1>1 DEF Execute
<1>3. KeyOf[r] \in Key
  BY DEF PipeAssumption
<1>4. /\ Tallied(total, total', table, table', r)
      /\ total' \in Nat /\ table' \subseteq Key /\ KeyOf[r] \in table'
  BY <1>0, <1>2, <1>3 DEF Tallied
<1>5. /\ stdout' \in Seq(Line) /\ Printed(stdout, stdout', r, Len(stdout) + 2)
      /\ stdout'[Len(stdout) + 2].total = total'
  BY <1>0, <1>2, <1>4, PrintedWithRow
<1> QED BY <1>0, <1>1, <1>4, <1>5, PrintedInv

\* The child executes a request whose insert fails.
LEMMA ExecuteFailsInv ==
  ASSUME PipeAssumption, Inv, ExecuteFails
  PROVE  Inv'
<1>0. /\ stdin \in Seq(Request) /\ stdout \in Seq(Line) /\ total \in Nat /\ table \subseteq Key
      /\ stdin # <<>> /\ stdin' = Tail(stdin) /\ total' = total /\ table' = table
      /\ UNCHANGED <<childUp, alive, q, rows, lastTotal, outcome>>
  BY DEF Inv, Types, ExecuteFails, parent
<1>1. PICK r \in Request : r = Head(stdin)
  BY <1>0, HeadTailProperties
<1>2. stdout' = stdout \o (IF KeyOf[r] \in table THEN <<Row(KeyOf[r], r)>> ELSE <<>>)
                  \o <<Sentinel(total, r)>>
  BY <1>1 DEF ExecuteFails
<1>a. Tallied(total, total', table, table', r)
  BY <1>0 DEF Tallied
<1>3. CASE KeyOf[r] \in table
  <2>1. stdout' = stdout \o <<Row(KeyOf[r], r), Sentinel(total, r)>>
    <3>1. <<Row(KeyOf[r], r)>> \in Seq(Line) /\ <<Sentinel(total, r)>> \in Seq(Line)
      <4>1. Row(KeyOf[r], r) \in Line /\ Sentinel(total, r) \in Line
        BY <1>0 DEF Row, Sentinel, Line, PipeAssumption
      <4> QED BY <4>1
    <3>2. <<Row(KeyOf[r], r)>> \o <<Sentinel(total, r)>> = <<Row(KeyOf[r], r), Sentinel(total, r)>>
      BY ConcatPair
    <3>3. stdout' = (stdout \o <<Row(KeyOf[r], r)>>) \o <<Sentinel(total, r)>>
      BY <1>2, <1>3
    <3> QED BY <1>0, <3>1, <3>2, <3>3, ConcatAssociative
  <2>2. /\ stdout' \in Seq(Line) /\ Printed(stdout, stdout', r, Len(stdout) + 2)
        /\ stdout'[Len(stdout) + 2].total = total
    BY <1>0, <2>1, PrintedWithRow
  <2> QED BY <1>0, <1>1, <1>a, <1>3, <2>2, PrintedInv
<1>4. CASE KeyOf[r] \notin table
  <2>1. stdout' = stdout \o <<Sentinel(total, r)>>
    BY <1>0, <1>2, <1>4, ConcatEmptySeq
  <2>2. /\ stdout' \in Seq(Line) /\ Printed(stdout, stdout', r, Len(stdout) + 1)
        /\ stdout'[Len(stdout) + 1].total = total
    BY <1>0, <2>1, PrintedAlone
  <2>3. Len(stdout) + 1 # Len(stdout) + 2
    BY <1>0, LenProperties
  <2> QED BY <1>0, <1>1, <1>a, <2>2, <2>3, PrintedInv
<1> QED BY <1>3, <1>4

\* A row is read.
LEMMA ReadRowInv ==
  ASSUME PipeAssumption, Inv, ReadRow
  PROVE  Inv'
<1> USE DEF Inv
<1>0. /\ stdin \in Seq(Request) /\ stdout \in Seq(Line) /\ q \in Seq(Request) /\ rows \in Seq(Line)
      /\ stdout # <<>> /\ stdout' = Tail(stdout) /\ rows' = Append(rows, Head(stdout))
      /\ UNCHANGED <<table, total, childUp, stdin, alive, q, lastTotal, outcome>>
  BY DEF Types, ReadRow, child
<1>1. /\ Head(stdout) = stdout[1] /\ stdout[1].kind = "row" /\ Head(stdout) \in Line
      /\ Tail(stdout) \in Seq(Line) /\ Len(Tail(stdout)) = Len(stdout) - 1
      /\ \A k \in 1..Len(Tail(stdout)) : Tail(stdout)[k] = stdout[k + 1]
      /\ Len(stdout) \in Nat \ {0}
  BY <1>0, HeadTailProperties, EmptySeq DEF ReadRow
<1>2. Types'
  <2>1. rows' \in Seq(Line)
    BY <1>0, <1>1, AppendProperties
  <2> QED BY <1>0, <1>1, <2>1 DEF Types
<1>3. Waiters' /\ Acks'
  BY <1>0 DEF Waiters, Acks, NothingTimedOut
<1>4. Prompt' <=> Prompt
  BY <1>0 DEF Prompt, NothingTimedOut
<1>5. RowsIn(stdout, table) /\ RowsIn(stdout', table')
  BY <1>0, RowsByRead DEF Lines
<1>6. ReadIn(rows', stdout', table')
  <2>1. rows = <<>>
    BY <1>1 DEF Lines, ReadIn
  <2>2. rows'[1] = stdout[1]
    BY <1>0, <1>1, <2>1, AppendProperties, EmptySeq
  <2>3. /\ 2 \in 1..Len(stdout) /\ stdout[2].kind = "end" /\ stdout[2].of = stdout[1].of
        /\ stdout[1].key = KeyOf[stdout[1].of] /\ stdout[1].key \in table
    <3>1. 1 \in 1..Len(stdout) /\ 1 + 1 = 2
      BY <1>1
    <3> QED BY <1>1, <1>5, <3>1 DEF RowsIn
  <2>4. stdout' # <<>> /\ stdout'[1] = stdout[2]
    <3>1. 1 \in 1..Len(Tail(stdout)) /\ 1 + 1 = 2 /\ Len(Tail(stdout)) # 0
      BY <1>1, <2>3
    <3> QED BY <1>0, <1>1, <3>1, EmptySeq
  <2> QED BY <1>0, <2>2, <2>3, <2>4 DEF ReadIn
<1>7. Embedded'
  <2>1. Placed(Tail(stdout), stdin, q, childUp, Prompt)
    BY <1>0, <1>1, PlacedByRow DEF Embedded
  <2>2. Placed(stdout', stdin', q', childUp', Prompt)
    BY <1>0, <2>1
  <2> QED BY <1>4, <2>2, PlacedLess DEF Embedded
<1>8. Counts'
  <2> SUFFICES ASSUME Prompt
               PROVE  CountsIn(stdout', lastTotal', total', table')
                        /\ FreshApart(stdout', lastTotal', outcome')
    BY <1>4 DEF Counts
  <2>1. CountsIn(stdout, lastTotal, total, table) /\ FreshApart(stdout, lastTotal, outcome)
    BY DEF Counts
  <2>2. \A k \in 1..Len(stdout) :
          BeforeIn(Tail(stdout), lastTotal, k) = BeforeIn(stdout, lastTotal, k + 1)
    BY <1>0, <1>1, <1>5, BeforeByRow
  <2>3. /\ CountsIn(Tail(stdout), lastTotal, total, table)
        /\ \A k \in 1..Len(Tail(stdout)) :
             /\ k + 1 \in 2..Len(stdout) /\ Tail(stdout)[k] = stdout[k + 1]
             /\ FreshIn(Tail(stdout), lastTotal, k) => FreshIn(stdout, lastTotal, k + 1)
    <3> HIDE DEF Inv
    <3> QED BY <1>0, <2>1, <2>2, CountsByRead
  <2>4. \A k \in 1..Len(Tail(stdout)) : k + 1 \in 1..Len(stdout)
    BY <1>1
  <2>5. FreshApart(Tail(stdout), lastTotal, outcome)
    BY <2>1, <2>3, <2>4 DEF FreshApart
  <2> QED BY <1>0, <2>3, <2>5
<1> QED BY <1>2, <1>3, <1>5, <1>6, <1>7, <1>8 DEF Lines

\* A sentinel that finds the queue empty is dropped.
LEMMA DroppedInv ==
  ASSUME Inv, ReadSentinel, q = <<>>
  PROVE  Inv'
<1> USE DEF Inv
<1>0. /\ stdin \in Seq(Request) /\ stdout \in Seq(Line) /\ q \in Seq(Request)
      /\ stdout # <<>> /\ stdout' = Tail(stdout) /\ rows' = <<>>
      /\ UNCHANGED <<table, total, childUp, stdin, alive, q, lastTotal, outcome>>
  BY DEF Types, ReadSentinel, child
<1>1. Head(stdout) = stdout[1] /\ stdout[1].kind = "end" /\ Tail(stdout) \in Seq(Line)
  BY <1>0, HeadTailProperties DEF ReadSentinel
<1>2. Types'
  BY <1>0, <1>1, EmptySeq DEF Types
<1>3. Waiters' /\ Acks'
  BY <1>0 DEF Waiters, Acks, NothingTimedOut
<1>4. ~Prompt
  <2> SUFFICES ASSUME Prompt PROVE FALSE
    OBVIOUS
  <2>1. Placed(stdout, stdin, q, childUp, TRUE)
    BY PlacedLess DEF Embedded
  <2> QED BY <1>0, <1>1, <2>1, HeadIsAnswered
<1>5. ~Prompt'
  BY <1>0, <1>4 DEF Prompt, NothingTimedOut
<1>6. Lines'
  BY <1>0, RowsByRead DEF Lines, ReadIn
<1>7. Embedded'
  <2>1. Placed(stdout', stdin', <<>>, childUp', FALSE)
    BY <1>0, <1>1, PlacedNone
  <2>2. Placed(stdout', stdin', q', childUp', FALSE)
    BY <1>0, <2>1
  <2> QED BY <1>5, <2>2, PlacedLate DEF Embedded
<1> QED BY <1>2, <1>3, <1>5, <1>6, <1>7 DEF Counts

\* A waiter that leaves the head of the queue leaves the others in their order.
LEMMA WaitersByTail ==
  ASSUME NEW w \in Seq(Request), w # <<>>, NEW oc \in [Request -> Outcomes], NEW x,
         WaitersIn(w, oc)
  PROVE  WaitersIn(Tail(w), [oc EXCEPT ![w[1]] = x])
<1>1. Len(w) \in Nat \ {0} /\ Len(Tail(w)) = Len(w) - 1
  BY EmptySeq, HeadTailProperties
<1>2. \A k \in 1..(Len(w) - 1) : Tail(w)[k] = w[k + 1]
  BY <1>1, HeadTailProperties
<1>3. \A k \in 1..(Len(w) - 1) : k + 1 \in 1..Len(w) /\ 1 \in 1..Len(w) /\ k + 1 # 1
  BY <1>1
<1>4. \A k \in 1..(Len(w) - 1) : w[k + 1] # w[1] /\ w[k + 1] \in Request /\ oc[w[k + 1]] = Waiting
  BY <1>3, ElementOfSeq DEF WaitersIn
<1>5. \A k \in 1..(Len(w) - 1) : [oc EXCEPT ![w[1]] = x][Tail(w)[k]] = Waiting
  BY <1>2, <1>4
<1>6. ASSUME NEW i \in 1..(Len(w) - 1), NEW j \in 1..(Len(w) - 1), Tail(w)[i] = Tail(w)[j]
      PROVE  i = j
  <2>1. i + 1 = j + 1
    BY <1>2, <1>3, <1>6 DEF WaitersIn
  <2> QED BY <1>1, <2>1
<1> QED BY <1>1, <1>5, <1>6 DEF WaitersIn

\* A sentinel settles the head of the queue.
LEMMA SettledInv ==
  ASSUME PipeAssumption, Inv, ReadSentinel, q # <<>>
  PROVE  Inv'
<1> USE DEF Inv
<1>0. /\ stdin \in Seq(Request) /\ stdout \in Seq(Line) /\ q \in Seq(Request) /\ rows \in Seq(Line)
      /\ lastTotal \in Nat /\ outcome \in [Request -> Outcomes] /\ total \in Nat
      /\ stdout # <<>> /\ stdout' = Tail(stdout) /\ rows' = <<>> /\ q' = Tail(q)
      /\ UNCHANGED <<table, total, childUp, stdin, alive>>
  BY DEF Types, ReadSentinel, child
<1>1. /\ Head(stdout) = stdout[1] /\ stdout[1].kind = "end" /\ Tail(stdout) \in Seq(Line)
      /\ Len(stdout) \in Nat \ {0}
      /\ Head(q) = q[1] /\ Tail(q) \in Seq(Request) /\ Head(q) \in Request /\ Len(q) \in Nat \ {0}
  BY <1>0, HeadTailProperties, EmptySeq DEF ReadSentinel
<1>2. stdout[1].total \in Nat /\ stdout[1].of \in Request
  <2>1. 1 \in 1..Len(stdout)
    BY <1>1
  <2> QED BY <1>0, <1>1, <2>1, LinesOf
<1>3. PICK r \in Request : r = q[1]
  BY <1>1
<1>4. PICK x : x = IF errBuf # <<>> THEN Rejected ELSE Resolved(rows, stdout[1].total - lastTotal)
  OBVIOUS
<1>5. outcome' = [outcome EXCEPT ![r] = x] /\ lastTotal' = stdout[1].total
  BY <1>1, <1>3, <1>4 DEF ReadSentinel
<1>6. rows # <<>> => rows[1].key = KeyOf[stdout[1].of] /\ rows[1].key \in table /\ rows[1].key \in Key
  BY <1>2 DEF Lines, ReadIn, PipeAssumption
<1>7. /\ x \in Outcomes /\ x # TimedOut
      /\ x.state = "acknowledged" =>
           /\ rows # <<>> /\ x.row = rows[1].key
           /\ x.fresh <=> stdout[1].total > lastTotal
  <2>1. CASE errBuf # <<>>
    BY <1>4, <2>1, OutcomesDiffer
  <2>2. CASE errBuf = <<>>
    <3>1. stdout[1].total - lastTotal \in Int
      BY <1>0, <1>2
    <3>2. x = Resolved(rows, stdout[1].total - lastTotal)
      BY <1>4, <2>2
    <3>3. /\ x \in Outcomes /\ x # TimedOut
          /\ x.state = "acknowledged" =>
               /\ rows # <<>> /\ x.row = rows[1].key
               /\ x.fresh <=> stdout[1].total - lastTotal > 0
      BY <1>0, <1>6, <3>1, <3>2, ResolvedIs
    <3>4. stdout[1].total - lastTotal > 0 <=> stdout[1].total > lastTotal
      BY <1>0, <1>2
    <3> QED BY <3>3, <3>4
  <2> QED BY <2>1, <2>2
<1>8. outcome'[r] = x /\ \A s \in Request : s # r => outcome'[s] = outcome[s]
  BY <1>0, <1>5
<1>9. Types'
  <2>1. outcome' \in [Request -> Outcomes]
    BY <1>0, <1>5, <1>7
  <2> QED BY <1>0, <1>1, <1>2, <1>5, <2>1, EmptySeq DEF Types
<1>10. Waiters'
  <2>1. WaitersIn(q', outcome')
    <3>1. WaitersIn(q, outcome)
      BY DEF Waiters
    <3> QED BY <1>0, <1>3, <1>5, <3>1, WaitersByTail
  <2> QED BY <1>0, <2>1 DEF Waiters
<1>11. outcome[r] = Waiting
  <2>1. 1 \in 1..Len(q)
    BY <1>1
  <2> QED BY <1>3, <2>1 DEF Waiters, WaitersIn
<1>12. (NothingTimedOut' => NothingTimedOut) /\ (Prompt' => Prompt)
  <2>1. NothingTimedOut' => NothingTimedOut
    BY <1>8, <1>11, OutcomesDiffer DEF NothingTimedOut
  <2> QED BY <1>0, <2>1 DEF Prompt
<1>13. alive
  BY DEF Waiters
<1>14. Lines'
  BY <1>0, RowsByRead DEF Lines, ReadIn
<1>15. Embedded'
  <2>1. Placed(Tail(stdout), stdin, Tail(q), childUp, Prompt)
    BY <1>0, <1>1, PlacedBySentinel DEF Embedded
  <2>2. Placed(stdout', stdin', q', childUp', Prompt)
    BY <1>0, <2>1
  <2> QED BY <1>12, <2>2, PlacedLess DEF Embedded
<1>16. NothingTimedOut => stdout[1].of = r
  <2> SUFFICES ASSUME NothingTimedOut PROVE stdout[1].of = r
    OBVIOUS
  <2>1. Placed(stdout, stdin, q, childUp, TRUE)
    BY <1>13, PlacedLess DEF Embedded, Prompt
  <2> QED BY <1>0, <1>1, <1>3, <2>1, HeadIsAnswered
<1>17. Prompt => (x.state = "acknowledged" /\ x.fresh => FreshIn(stdout, lastTotal, 1))
  <2>1. BeforeIn(stdout, lastTotal, 1) = lastTotal
    BY DEF BeforeIn
  <2> QED BY <1>1, <1>7, <2>1 DEF FreshIn
<1>18. NothingTimedOut => Prompt
  BY <1>13 DEF Prompt
<1>19. 1 \in 1..Len(stdout)
  BY <1>1
<1>20. Acks'
  <2> SUFFICES ASSUME NothingTimedOut
               PROVE  AckedIn(outcome', table') /\ FreshOnce(outcome')
    BY <1>12 DEF Acks
  <2>1. AckedIn(outcome, table) /\ FreshOnce(outcome) /\ FreshApart(stdout, lastTotal, outcome)
    BY <1>18 DEF Acks, Counts
  <2>2. x.state = "acknowledged" => x.row = KeyOf[r] /\ KeyOf[r] \in table
    BY <1>6, <1>7, <1>16
  <2>3. AckedIn(outcome', table)
    BY <1>8, <2>1, <2>2 DEF AckedIn
  <2>4. ASSUME NEW s \in Request, s # r, outcome'[s].state = "acknowledged", outcome'[s].fresh,
               x.state = "acknowledged", x.fresh
        PROVE  KeyOf[s] # KeyOf[r]
    <3>1. outcome[s].state = "acknowledged" /\ outcome[s].fresh
      BY <1>8, <2>4
    <3>2. FreshIn(stdout, lastTotal, 1)
      BY <1>17, <1>18, <2>4
    <3> QED BY <1>16, <1>19, <2>1, <3>1, <3>2 DEF FreshApart
  <2>5. FreshOnce(outcome')
    <3> SUFFICES ASSUME NEW s \in Request, NEW t \in Request,
                        outcome'[s].state = "acknowledged", outcome'[t].state = "acknowledged",
                        outcome'[s].fresh, outcome'[t].fresh, KeyOf[s] = KeyOf[t]
                 PROVE  s = t
      BY DEF FreshOnce
    <3>1. CASE s = r
      BY <1>8, <2>4, <3>1
    <3>2. CASE t = r
      BY <1>8, <2>4, <3>2
    <3>3. CASE s # r /\ t # r
      BY <1>8, <2>1, <3>3 DEF FreshOnce
    <3> QED BY <3>1, <3>2, <3>3
  <2> QED BY <1>0, <2>3, <2>5
<1>21. Counts'
  <2> SUFFICES ASSUME Prompt
               PROVE  CountsIn(stdout', lastTotal', total', table')
                        /\ FreshApart(stdout', lastTotal', outcome')
    BY <1>12 DEF Counts
  <2>1. CountsIn(stdout, lastTotal, total, table) /\ FreshApart(stdout, lastTotal, outcome)
    BY DEF Counts
  <2>2. \A k \in 1..Len(stdout) :
          BeforeIn(Tail(stdout), stdout[1].total, k) = BeforeIn(stdout, lastTotal, k + 1)
    BY <1>0, <1>1, BeforeBySentinel
  <2>3. /\ CountsIn(Tail(stdout), stdout[1].total, total, table)
        /\ \A k \in 1..Len(Tail(stdout)) :
             /\ k + 1 \in 2..Len(stdout) /\ Tail(stdout)[k] = stdout[k + 1]
             /\ FreshIn(Tail(stdout), stdout[1].total, k) => FreshIn(stdout, lastTotal, k + 1)
    <3> HIDE DEF Inv
    <3> QED BY <1>0, <2>1, <2>2, CountsByRead
  <2>4. \A k \in 1..Len(Tail(stdout)) : k + 1 \in 1..Len(stdout) /\ k + 1 # 1
    BY <1>1, <2>3
  <2>5. stdout[1].of = r
    BY <1>16 DEF Prompt
  <2>6. FreshApart(Tail(stdout), stdout[1].total, outcome')
    <3> SUFFICES ASSUME NEW k \in 1..Len(Tail(stdout)), NEW s \in Request,
                        FreshIn(Tail(stdout), stdout[1].total, k),
                        outcome'[s].state = "acknowledged", outcome'[s].fresh
                 PROVE  KeyOf[s] # KeyOf[Tail(stdout)[k].of]
      BY DEF FreshApart
    <3>1. FreshIn(stdout, lastTotal, k + 1) /\ Tail(stdout)[k] = stdout[k + 1]
      BY <2>3
    <3>2. CASE s # r
      BY <1>8, <2>1, <2>4, <3>1, <3>2 DEF FreshApart
    <3>3. CASE s = r
      <4>1. FreshIn(stdout, lastTotal, 1)
        BY <1>8, <1>17, <3>3
      <4> QED BY <1>19, <2>1, <2>4, <2>5, <3>1, <3>3, <4>1 DEF CountsIn
    <3> QED BY <3>2, <3>3
  <2> QED BY <1>0, <1>5, <2>3, <2>6
<1> QED BY <1>9, <1>10, <1>14, <1>15, <1>20, <1>21

\* The child dies.
LEMMA ChildDiesInv ==
  ASSUME Inv, ChildDies
  PROVE  Inv'
<1> USE DEF Inv
<1>0. /\ stdin \in Seq(Request) /\ stdout \in Seq(Line) /\ q \in Seq(Request)
      /\ childUp' = FALSE /\ stdin' = <<>>
      /\ UNCHANGED <<table, total, stdout, alive, q, rows, lastTotal, outcome>>
  BY DEF Types, ChildDies, parent
<1>1. Types'
  BY <1>0, EmptySeq DEF Types
<1>2. Waiters' /\ Acks' /\ Lines' /\ (Prompt' <=> Prompt)
  BY <1>0 DEF Waiters, Acks, Lines, Prompt, NothingTimedOut
<1>3. Counts'
  BY <1>0, <1>2 DEF Counts
<1>4. Embedded'
  <2>1. Placed(stdout, <<>>, q, FALSE, Prompt)
    BY <1>0, PlacedByDeath DEF Embedded
  <2>2. Placed(stdout', stdin', q', childUp', Prompt)
    BY <1>0, <2>1
  <2> QED BY <1>2, <2>2, PlacedLess DEF Embedded
<1> QED BY <1>1, <1>2, <1>3, <1>4

\* The exit event.
LEMMA ExitEventInv ==
  ASSUME Inv, ExitEvent
  PROVE  Inv'
<1> USE DEF Inv
<1>0. /\ stdin \in Seq(Request) /\ stdout \in Seq(Line)
      /\ ~childUp /\ alive' = FALSE /\ q' = <<>>
      /\ outcome' = [r \in Request |-> IF outcome[r] = Waiting THEN Gone ELSE outcome[r]]
      /\ UNCHANGED <<table, total, childUp, stdin, stdout, rows, lastTotal>>
  BY DEF Types, ExitEvent, child
<1>1. Types'
  BY <1>0, EmptySeq, OutcomesDiffer DEF Types
<1>2. ~Prompt'
  BY <1>0 DEF Prompt
<1>3. Waiters' /\ Lines'
  BY <1>0, EmptySeq DEF Waiters, WaitersIn, Lines
<1>4. NoneAcked(outcome, outcome') /\ (NothingTimedOut' => NothingTimedOut)
  BY <1>0, OutcomesDiffer DEF NoneAcked, NothingTimedOut
<1>5. Acks'
  BY <1>0, <1>4, TheSameAcks DEF Acks
<1>6. Embedded'
  <2>1. Placed(stdout', stdin', <<>>, childUp', FALSE)
    BY <1>0, PlacedNone
  <2>2. Placed(stdout', stdin', q', childUp', FALSE)
    BY <1>0, <2>1
  <2> QED BY <1>2, <2>2, PlacedLate DEF Embedded
<1> QED BY <1>1, <1>2, <1>3, <1>5, <1>6 DEF Counts

\* An error is read, or nothing happens.
LEMMA QuietInv ==
  ASSUME Inv, UNCHANGED <<table, total, childUp, stdin, stdout, alive, q, rows, lastTotal, outcome>>
  PROVE  Inv'
BY DEF Inv, Types, Waiters, Lines, Embedded, Counts, Acks, Prompt, NothingTimedOut

\* Every step keeps the invariant.
LEMMA StepInv ==
  ASSUME PipeAssumption, Inv, [Next]_vars
  PROVE  Inv'
<1>1. ASSUME NEW r \in Request, Run(r) PROVE Inv'
  BY <1>1, RunInv
<1>2. ASSUME NEW r \in Request, Timeout(r) PROVE Inv'
  BY <1>2, TimeoutInv
<1>3. CASE Execute
  BY <1>3, ExecuteInv
<1>4. CASE ExecuteFails
  BY <1>4, ExecuteFailsInv
<1>5. CASE ChildDies
  BY <1>5, ChildDiesInv
<1>6. CASE ReadRow
  BY <1>6, ReadRowInv
<1>7. CASE ReadSentinel
  BY <1>7, DroppedInv, SettledInv
<1>8. CASE ReadError
  BY <1>8, QuietInv DEF ReadError, child
<1>9. CASE ExitEvent
  BY <1>9, ExitEventInv
<1>10. CASE UNCHANGED vars
  BY <1>10, QuietInv DEF vars
<1> QED BY <1>1, <1>2, <1>3, <1>4, <1>5, <1>6, <1>7, <1>8, <1>9, <1>10 DEF Next

\* The invariant holds in every state.
LEMMA Invariant == Spec => []Inv
<1>1. Init => Inv
  BY InitInv, PipeAssumption
<1>2. Inv /\ [Next]_vars => Inv'
  BY StepInv, PipeAssumption
<1> QED BY <1>1, <1>2, PTL DEF Spec

\* As many slots as waiters.
LEMMA SlotsAreEnough ==
  ASSUME NEW m \in Nat, NEW S, IsFiniteSet(S), NEW e,
         \A i \in 1..m : e[i] \in S,
         \A i, j \in 1..m : e[i] = e[j] => i = j
  PROVE  m <= Cardinality(S)
<1> DEFINE f == [i \in 1..m |-> e[i]]
<1>1. f \in Injection(1..m, S)
  BY DEF Injection, IsInjective
<1>2. Cardinality(1..m) <= Cardinality(S)
  BY <1>1, FS_Injection
<1>3. Cardinality(1..m) = m
  <2>1. Cardinality(1..m) = IF 1 > m THEN 0 ELSE m - 1 + 1
    BY FS_Interval
  <2> QED BY <2>1
<1> QED BY <1>2, <1>3

\* Placed waiters are covered: by the sentinels of the output up to theirs, and
\* then by the requests of the input up to theirs.
LEMMA PlacedIsCovered ==
  ASSUME NEW out \in Seq(Line), NEW inp \in Seq(Request), NEW w \in Seq(Request),
         Placed(out, inp, w, TRUE, FALSE)
  PROVE  LET ends == {k \in DOMAIN out : out[k].kind = "end"}
         IN  /\ Len(w) <= Cardinality(ends) + Len(inp)
             /\ \A i \in DOMAIN w :
                  \/ \E k \in ends : out[k].of = w[i] /\ i <= Cardinality({j \in ends : j <= k})
                  \/ \E k \in DOMAIN inp : inp[k] = w[i] /\ i <= Cardinality(ends) + k
<1> DEFINE ends == {k \in DOMAIN out : out[k].kind = "end"}
           a == Len(out)
           b == Len(inp)
           Upto(n) == ends \cup (a + 1)..(a + n)
<1>0. PICK e \in [1..Len(w) -> Slots(out, inp)] : Fits(Len(w), e, out, inp, w)
  BY DEF Placed
<1>1. /\ a \in Nat /\ b \in Nat /\ Len(w) \in Nat
      /\ DOMAIN out = 1..a /\ DOMAIN inp = 1..b /\ DOMAIN w = 1..Len(w)
  BY LenProperties
<1>2. \A i \in 1..Len(w) : e[i] \in 1..(a + b) /\ Slot(out, inp, e[i], w[i])
  BY <1>0, <1>1 DEF Fits, Slots
<1>3. \A i, j \in 1..Len(w) : (i < j => e[i] < e[j]) /\ (e[i] = e[j] => i = j)
  <2> SUFFICES ASSUME NEW i \in 1..Len(w), NEW j \in 1..Len(w)
               PROVE  (i < j => e[i] < e[j]) /\ (e[i] = e[j] => i = j)
    OBVIOUS
  <2>1. (i < j => e[i] < e[j]) /\ (j < i => e[j] < e[i])
    BY <1>0 DEF Fits
  <2>2. e[i] \in Int /\ e[j] \in Int
    BY <1>1, <1>2
  <2> QED BY <1>1, <2>1, <2>2
<1>4. IsFiniteSet(ends) /\ Cardinality(ends) \in Nat
  <2>1. IsFiniteSet(1..a)
    BY <1>1, FS_Interval
  <2>2. ends \subseteq 1..a
    BY <1>1
  <2> HIDE DEF ends
  <2>3. IsFiniteSet(ends)
    BY <2>1, <2>2, FS_Subset
  <2> QED BY <2>3, FS_CardinalityType
<1>5. ASSUME NEW n \in Nat
      PROVE  IsFiniteSet(Upto(n)) /\ Cardinality(Upto(n)) = Cardinality(ends) + n
  <2>1. /\ IsFiniteSet((a + 1)..(a + n))
        /\ Cardinality((a + 1)..(a + n)) = IF a + 1 > a + n THEN 0 ELSE (a + n) - (a + 1) + 1
    <3>1. a + 1 \in Int /\ a + n \in Int
      BY <1>1
    <3> QED BY <3>1, FS_Interval
  <2>2. Cardinality((a + 1)..(a + n)) = n
    BY <1>1, <2>1
  <2>3. ends \cap (a + 1)..(a + n) = {}
    BY <1>1
  <2>4. Cardinality({}) = 0
    BY FS_EmptySet
  <2>5. PICK T : T = (a + 1)..(a + n)
    OBVIOUS
  <2> HIDE DEF ends
  <2>6. /\ IsFiniteSet(ends \cup T)
        /\ Cardinality(ends \cup T) = Cardinality(ends) + Cardinality(T) - Cardinality(ends \cap T)
    BY <1>4, <2>1, <2>5, FS_Union
  <2>7. Cardinality(T) = n /\ Cardinality(ends \cap T) = 0 /\ Upto(n) = ends \cup T
    BY <2>2, <2>3, <2>4, <2>5
  <2>8. Cardinality(ends \cup T) = Cardinality(ends) + n
    BY <1>4, <2>6, <2>7
  <2> QED BY <2>6, <2>7, <2>8
<1>6. \A k \in 1..a : \A r : Slot(out, inp, k, r) => k \in ends /\ out[k].of = r
  BY <1>1 DEF Slot
<1>7. \A k \in (a + 1)..(a + b) : \A r : Slot(out, inp, k, r) => inp[k - a] = r
  BY <1>1 DEF Slot
<1> HIDE DEF ends
<1>8. ASSUME NEW m \in 0..Len(w), NEW n \in 0..b, \A i \in 1..m : e[i] <= a + n
      PROVE  m <= Cardinality(ends) + n
  <2>1. ASSUME NEW i \in 1..m
        PROVE  e[i] \in Upto(n)
    <3>1. i \in 1..Len(w)
      BY <1>1
    <3>2. CASE e[i] <= a
      <4>1. e[i] \in 1..a
        BY <1>1, <1>2, <3>1, <3>2
      <4> QED BY <1>2, <1>6, <3>1, <4>1
    <3>3. CASE ~(e[i] <= a)
      <4>1. e[i] \in (a + 1)..(a + n)
        BY <1>1, <1>2, <1>8, <3>1, <3>3
      <4> QED BY <4>1
    <3> QED BY <3>2, <3>3
  <2>2. \A i, j \in 1..m : e[i] = e[j] => i = j
    BY <1>1, <1>3
  <2>3. m \in Nat /\ n \in Nat
    BY <1>1
  <2>4. IsFiniteSet(Upto(n)) /\ Cardinality(Upto(n)) = Cardinality(ends) + n
    BY <1>5, <2>3
  <2> HIDE DEF Upto
  <2>5. m <= Cardinality(Upto(n))
    BY <2>1, <2>2, <2>3, <2>4, SlotsAreEnough
  <2> QED BY <2>4, <2>5
<1>9. Len(w) <= Cardinality(ends) + b
  <2>1. Len(w) \in 0..Len(w) /\ b \in 0..b /\ \A i \in 1..Len(w) : e[i] <= a + b
    BY <1>1, <1>2
  <2> QED BY <1>8, <2>1
<1>10. ASSUME NEW i \in 1..Len(w)
       PROVE  \/ \E k \in ends : out[k].of = w[i] /\ i <= Cardinality({j \in ends : j <= k})
              \/ \E k \in 1..b : inp[k] = w[i] /\ i <= Cardinality(ends) + k
  <2>1. /\ i \in Nat /\ i \in 0..Len(w) /\ i \in 1..i
        /\ \A j \in 1..i : j \in 1..Len(w) /\ (j < i \/ j = i)
    BY <1>1
  <2>2. \A j \in 1..i : e[j] \in 1..(a + b) /\ e[j] <= e[i] /\ e[i] \in 1..(a + b)
    <3> SUFFICES ASSUME NEW j \in 1..i
                 PROVE  e[j] \in 1..(a + b) /\ e[j] <= e[i] /\ e[i] \in 1..(a + b)
      OBVIOUS
    <3>1. e[j] \in 1..(a + b) /\ e[i] \in 1..(a + b) /\ (j < i => e[j] < e[i])
      BY <1>2, <1>3, <2>1
    <3> QED BY <1>1, <2>1, <3>1
  <2>3. CASE e[i] <= a
    <3> DEFINE S == {j \in ends : j <= e[i]}
    <3>1. \A j \in 1..i : e[j] \in 1..a
      BY <1>1, <2>2, <2>3
    <3>2. \A j \in 1..i : e[j] \in ends /\ out[e[j]].of = w[j]
      BY <1>2, <1>6, <2>1, <3>1
    <3>3. \A j \in 1..i : e[j] \in S
      BY <2>2, <3>2
    <3>4. \A j, l \in 1..i : e[j] = e[l] => j = l
      BY <1>3, <2>1
    <3>5. IsFiniteSet(S)
      <4>1. S \subseteq ends
        OBVIOUS
      <4> HIDE DEF S
      <4> QED BY <1>4, <4>1, FS_Subset
    <3>6. i <= Cardinality(S)
      <4> HIDE DEF S
      <4> QED BY <2>1, <3>3, <3>4, <3>5, SlotsAreEnough
    <3> QED BY <2>1, <3>2, <3>6
  <2>4. CASE ~(e[i] <= a)
    <3>1. e[i] \in (a + 1)..(a + b) /\ e[i] - a \in 1..b /\ e[i] - a \in 0..b /\ a + (e[i] - a) = e[i]
      BY <1>1, <2>1, <2>2, <2>4
    <3>2. inp[e[i] - a] = w[i]
      BY <1>2, <1>7, <3>1
    <3>3. \A j \in 1..i : e[j] <= a + (e[i] - a)
      BY <2>2, <3>1
    <3>4. i <= Cardinality(ends) + (e[i] - a)
      BY <1>8, <2>1, <3>1, <3>3
    <3> QED BY <3>1, <3>2, <3>4
  <2> QED BY <2>3, <2>4
<1> QED BY <1>1, <1>9, <1>10 DEF ends

\* A share is acknowledged only after it is durable, until the first timeout.
THEOREM PromptAcksAreDurable == Spec => []PromptAcksAreRecorded
<1>1. Inv => PromptAcksAreRecorded
  BY DEF Inv, Acks, AckedIn, PromptAcksAreRecorded
<1> QED BY <1>1, Invariant, PTL

\* Until the first timeout a promise is settled by its own sentinel: the row is
\* the request's, and one request per key is told that it was fresh.
THEOREM PromptAnswersAreOwn == Spec => []AnsweredByOwnRow
<1>1. Inv => AnsweredByOwnRow
  BY DEF Inv, Acks, AckedIn, FreshOnce, AnsweredByOwnRow
<1> QED BY <1>1, Invariant, PTL

\* While the child lives every waiter has a sentinel coming, however many
\* requests have timed out before it.
THEOREM NoWaiterIsStranded == Spec => []WaitersAreCovered
<1>1. ASSUME Inv PROVE WaitersAreCovered
  <2> SUFFICES ASSUME childUp PROVE WaitersAreCovered
    BY DEF WaitersAreCovered
  <2>1. stdout \in Seq(Line) /\ stdin \in Seq(Request) /\ q \in Seq(Request)
    BY <1>1 DEF Inv, Types
  <2>2. Placed(stdout, stdin, q, TRUE, FALSE)
    BY <1>1, PlacedLess DEF Inv, Embedded
  <2> QED BY <2>1, <2>2, PlacedIsCovered DEF WaitersAreCovered
<1>2. Inv => WaitersAreCovered
  BY <1>1
<1> QED BY <1>2, Invariant, PTL
=============================================================================
