----------------------------- MODULE BlockProofs -----------------------------
(***************************************************************************)
(* Theorems of ManagedBlock for files of any length, any number of agents  *)
(* and of keys, and whatever people do to the file between two commands.   *)
(* A rewrite works on the file it read, so all that matters of what         *)
(* happened since is that the file it read was clear.  What is in front of *)
(* its block and behind it then holds no begin marker, and neither do the  *)
(* lines put between them (Framed): the result has one block, a reader     *)
(* finds the lines in it (OneBlock), and what he finds outside are the two  *)
(* parts that were outside before (OutsideBlock, Rewritten).               *)
(***************************************************************************)
EXTENDS ManagedBlock, FiniteSetTheorems, SequenceTheorems, TLAPS

\* The sets that the variables are in.
WellShaped ==
  /\ file \in Text
  /\ linked \in BOOLEAN
  /\ job \in [Agent -> [pc : {"idle"}]
                         \union [pc : {"writing"}, order : Order, seen : Text]
                         \union [pc : {"done"}, order : Order]]

\* What a rewrite goes by between its two commands.
Sane(j) == j.pc = "writing" => ~Unclear(j.seen) /\ ~Unsafe(j.order)

Inv == WellShaped /\ \A a \in Agent : Sane(job[a])

-----------------------------------------------------------------------------
\* The least of some positions exists.
LEMMA LeastOf ==
  ASSUME NEW S \in SUBSET Nat, S # {}
  PROVE  Min(S) \in S /\ \A y \in S : Min(S) =< y
<1>1. \E x \in S : \A y \in S : ~ (<<y, x>> \in OpToRel(<, Nat))
  BY WFMin, NatLessThanWellFounded, Zenon
<1>2. PICK x \in S : \A y \in S : ~ (<<y, x>> \in OpToRel(<, Nat))
  BY <1>1
<1>3. ASSUME NEW y \in S  PROVE ~ (y < x)
  BY <1>2, Zenon DEF OpToRel
<1>4. \A y \in S : x =< y
  BY <1>3
<1> QED  BY <1>4 DEF Min

\* Sequences put one after the other.
LEMMA Joined ==
  ASSUME NEW S, NEW s \in Seq(S), NEW t \in Seq(S)
  PROVE  /\ s \o t \in Seq(S) /\ Len(s \o t) = Len(s) + Len(t)
         /\ \A i \in 1..Len(s) + Len(t) : (s \o t)[i] = IF i =< Len(s) THEN s[i] ELSE t[i - Len(s)]
OBVIOUS

\* A sequence of one line.
LEMMA Single ==
  ASSUME NEW S, NEW x \in S
  PROVE  <<x>> \in Seq(S) /\ Len(<<x>>) = 1 /\ <<x>>[1] = x
OBVIOUS

\* A slice, which is empty when n is m - 1.
LEMMA Slice ==
  ASSUME NEW S, NEW s \in Seq(S), NEW m \in Nat, NEW n \in Nat, m >= 1, n =< Len(s), m =< n + 1
  PROVE  /\ SubSeq(s, m, n) \in Seq(S) /\ Len(SubSeq(s, m, n)) = n - m + 1
         /\ \A i \in 1..n - m + 1 : SubSeq(s, m, n)[i] = s[m + i - 1]
OBVIOUS

\* The n-th of some places is the one with n of them up to it.
LEMMA Places ==
  ASSUME NEW f, NEW at \in SUBSET Nat, IsFiniteSet(at), NEW i \in at, NEW n \in 1..Cardinality(at),
         Cardinality({k \in at : k =< i}) = n
  PROVE  LinesAt(f, at)[n] = f.lines[i]
<1> DEFINE Upto(j) == {k \in at : k =< j}
<1>1. ASSUME NEW x \in at, NEW y \in at, x < y
      PROVE  Cardinality(Upto(x)) # Cardinality(Upto(y))
  <2>1. x \in Nat /\ y \in Nat /\ \A k \in at : k \in Nat
    OBVIOUS
  <2>2. \A k \in at : k =< x => k =< y
    BY <1>1, <2>1
  <2>3. y =< y /\ ~(y =< x)
    BY <1>1, <2>1
  <2>4. Upto(x) \in SUBSET Upto(y) /\ y \in Upto(y) /\ y \notin Upto(x)
    BY <2>2, <2>3, Zenon
  <2>5. IsFiniteSet(Upto(y))
    BY FS_Subset
  <2> HIDE DEF Upto
  <2> QED  BY <2>4, <2>5, FS_Subset
<1>2. \A j \in at : Cardinality(Upto(j)) = n => j = i
  <2>1. \A j \in at : j \in Nat /\ (j = i \/ j < i \/ i < j)
    OBVIOUS
  <2>2. Cardinality(Upto(i)) = n
    OBVIOUS
  <2> HIDE DEF Upto
  <2> QED  BY <1>1, <2>1, <2>2
<1>3. LinesAt(f, at)[n] = f.lines[CHOOSE j \in at : Cardinality(Upto(j)) = n]
  BY DEF LinesAt
<1>4. (CHOOSE j \in at : Cardinality(Upto(j)) = n) = i
  <2>1. Cardinality(Upto(i)) = n
    OBVIOUS
  <2> HIDE DEF Upto
  <2> QED  BY <1>2, <2>1, Zenon
<1> HIDE DEF Upto
<1> QED  BY <1>3, <1>4

\* Some lines are a function.
LEMMA LinesFunction ==
  ASSUME NEW f, NEW at
  PROVE  LinesAt(f, at) = [n \in DOMAIN LinesAt(f, at) |-> LinesAt(f, at)[n]]
BY DEF LinesAt

Around(L, b, e) == (1..L) \ (b..e)

\* out is the lines of f without those from b on to e.
Spared(out, f, L, b, e) ==
  /\ DOMAIN out = 1..L - (e - b + 1)
  /\ \A n \in 1..L - (e - b + 1) : /\ n < b => out[n] = f.lines[n]
                                   /\ n >= b => out[n] = f.lines[n + (e - b + 1)]

\* The lines outside some successive ones.
LEMMA LinesAround ==
  ASSUME NEW f, NEW at, NEW L \in Nat, NEW b \in Nat, NEW e \in Nat, 1 =< b, b =< e + 1, e =< L,
         at = Around(L, b, e)
  PROVE  Spared(LinesAt(f, at), f, L, b, e)
<1> DEFINE gap == e - b + 1
<1>0. at = (1..L) \ (b..e)
  BY DEF Around
<1>1. gap \in Nat /\ Cardinality(b..e) = gap /\ IsFiniteSet(b..e)
  <2>1. IsFiniteSet(b..e) /\ Cardinality(b..e) = IF b > e THEN 0 ELSE e - b + 1
    BY FS_Interval
  <2> QED  BY <2>1
<1>2. ASSUME NEW i \in 0..L, i < b \/ i >= e
      PROVE  /\ IsFiniteSet((1..i) \ (b..e))
             /\ Cardinality((1..i) \ (b..e)) = IF i < b THEN i ELSE i - gap
  <2> DEFINE rest == (1..i) \ (b..e)
             cut == (1..i) \cap (b..e)
  <2>1. i \in Nat /\ IsFiniteSet(1..i) /\ Cardinality(1..i) = i
    BY FS_Interval
  <2>2. IsFiniteSet(rest) /\ Cardinality(rest) = i - Cardinality(cut)
    BY <2>1, FS_Difference
  <2>3. CASE i < b
    <3>1. cut = {}
      BY <2>3
    <3>2. Cardinality(cut) = 0
      BY <3>1, FS_EmptySet
    <3> HIDE DEF cut, rest
    <3>3. IsFiniteSet(rest) /\ Cardinality(rest) = IF i < b THEN i ELSE i - gap
      BY <2>1, <2>2, <2>3, <3>2
    <3> QED  BY <3>3 DEF rest
  <2>4. CASE i >= b
    <3>1. i >= e
      BY <1>2, <2>4
    <3>2. cut = b..e
      BY <2>1, <3>1
    <3>3. Cardinality(cut) = gap
      BY <1>1, <3>2
    <3> HIDE DEF cut, rest, gap
    <3>4. IsFiniteSet(rest) /\ Cardinality(rest) = IF i < b THEN i ELSE i - gap
      BY <2>1, <2>2, <2>4, <3>3
    <3> QED  BY <3>4 DEF rest
  <2> QED  BY <2>3, <2>4
<1>3. IsFiniteSet(at) /\ Cardinality(at) = L - gap /\ at \in SUBSET Nat
  <2>1. L \in 0..L /\ L >= e
    OBVIOUS
  <2>2. IsFiniteSet(at) /\ Cardinality(at) = IF L < b THEN L ELSE L - gap
    BY <1>0, <1>2, <2>1
  <2>3. L < b => gap = 0
    OBVIOUS
  <2> QED  BY <1>0, <2>2, <2>3
<1>4. ASSUME NEW n \in 1..L - gap
      PROVE  /\ n < b => LinesAt(f, at)[n] = f.lines[n]
             /\ n >= b => LinesAt(f, at)[n] = f.lines[n + gap]
  <2>1. PICK i : i = IF n < b THEN n ELSE n + gap
    OBVIOUS
  <2>2. i \in at /\ i \in 0..L /\ (i < b \/ i >= e) /\ (IF i < b THEN i ELSE i - gap) = n
    BY <1>0, <2>1
  <2>3. {k \in at : k =< i} = (1..i) \ (b..e)
    BY <1>0, <2>2
  <2>4. Cardinality({k \in at : k =< i}) = n
    BY <1>2, <2>2, <2>3
  <2>5. n \in 1..Cardinality(at)
    BY <1>3
  <2>6. LinesAt(f, at)[n] = f.lines[i]
    BY <1>3, <2>2, <2>4, <2>5, Places
  <2> QED  BY <2>1, <2>6
<1>5. DOMAIN LinesAt(f, at) = 1..L - gap
  BY <1>3 DEF LinesAt
<1> QED  BY <1>4, <1>5 DEF Spared

\* Successive lines.
LEMMA LinesBetween ==
  ASSUME NEW f, NEW at, NEW b \in Nat, NEW e \in Nat, 1 =< b, b =< e, at = b..e
  PROVE  /\ DOMAIN LinesAt(f, at) = 1..e - b + 1
         /\ \A n \in 1..e - b + 1 : LinesAt(f, at)[n] = f.lines[b + n - 1]
<1>1. IsFiniteSet(at) /\ Cardinality(at) = e - b + 1 /\ at \in SUBSET Nat
  BY FS_Interval
<1>2. ASSUME NEW n \in 1..e - b + 1
      PROVE  LinesAt(f, at)[n] = f.lines[b + n - 1]
  <2>1. PICK i : i = b + n - 1
    OBVIOUS
  <2>2. i \in at /\ {k \in at : k =< i} = b..i /\ n \in 1..Cardinality(at)
    BY <1>1, <2>1
  <2>3. Cardinality(b..i) = n
    BY <2>1, FS_Interval
  <2>4. LinesAt(f, at)[n] = f.lines[i]
    BY <1>1, <2>2, <2>3, Places
  <2> QED  BY <2>1, <2>4
<1>3. DOMAIN LinesAt(f, at) = 1..e - b + 1
  BY <1>1 DEF LinesAt
<1> QED  BY <1>2, <1>3

\* The block that holds lines.
Block(lines) == <<Begin>> \o lines \o <<End>>

\* Only its first line is a begin marker, and only its last one an end marker.
LEMMA BlockShape ==
  ASSUME NEW lines \in Seq(Key)
  PROVE  /\ Block(lines) \in Seq(Line) /\ Len(Block(lines)) = Len(lines) + 2
         /\ Block(lines)[1] = Begin /\ Block(lines)[Len(lines) + 2] = End
         /\ \A i \in 2..Len(lines) + 2 : Block(lines)[i] # Begin
         /\ \A i \in 1..Len(lines) + 1 : Block(lines)[i] # End
<1>1. lines \in Seq(Line) /\ Begin \in Line /\ End \in Line /\ Begin # End
  BY BlockAssumption DEF Line
<1>2. \A i \in 1..Len(lines) : lines[i] # Begin /\ lines[i] # End
  BY BlockAssumption
<1>3. /\ <<Begin>> \o lines \in Seq(Line) /\ Len(<<Begin>> \o lines) = 1 + Len(lines)
      /\ \A i \in 1..1 + Len(lines) : (<<Begin>> \o lines)[i] = IF i =< 1 THEN <<Begin>>[i] ELSE lines[i - 1]
  BY <1>1, Joined, Single
<1> QED  BY <1>1, <1>2, <1>3, Joined, Single DEF Block

\* Lines with a block between them, one line at a time.
LEMMA Layout ==
  ASSUME NEW S, NEW pre \in Seq(S), NEW post \in Seq(S), NEW block \in Seq(S)
  PROVE  LET all == pre \o block \o post IN
         /\ all \in Seq(S) /\ Len(all) = Len(pre) + Len(block) + Len(post)
         /\ \A i \in 1..Len(pre) : all[i] = pre[i]
         /\ \A i \in 1..Len(block) : all[Len(pre) + i] = block[i]
         /\ \A i \in 1..Len(post) : all[Len(pre) + Len(block) + i] = post[i]
<1> DEFINE left == pre \o block
<1>1. /\ left \in Seq(S) /\ Len(left) = Len(pre) + Len(block)
      /\ \A i \in 1..Len(pre) : left[i] = pre[i]
      /\ \A i \in 1..Len(block) : left[Len(pre) + i] = block[i]
  OBVIOUS
<1> HIDE DEF left
<1> DEFINE all == left \o post
<1>2. /\ all \in Seq(S) /\ Len(all) = Len(left) + Len(post)
      /\ \A i \in 1..Len(left) : all[i] = left[i]
      /\ \A i \in 1..Len(post) : all[Len(left) + i] = post[i]
  <2>1. left \in Seq(S)
    BY <1>1
  <2> QED  BY <2>1
<1> HIDE DEF all
<1>3. ASSUME NEW i \in 1..Len(pre)  PROVE all[i] = pre[i]
  BY <1>1, <1>2
<1>4. ASSUME NEW i \in 1..Len(block)  PROVE all[Len(pre) + i] = block[i]
  BY <1>1, <1>2
<1>5. ASSUME NEW i \in 1..Len(post)  PROVE all[Len(pre) + Len(block) + i] = post[i]
  BY <1>1, <1>2
<1> QED  BY <1>1, <1>2, <1>3, <1>4, <1>5 DEF all, left

\* A place counts from the start of its part.
LEMMA Parts ==
  ASSUME NEW x \in Nat, NEW y \in Nat, NEW k \in Nat, k >= 2
  PROVE  /\ \A i \in 1..x + k + y :
              /\ i > x /\ i =< x + k => i - x \in 1..k /\ x + (i - x) = i
              /\ i > x + k => i - (x + k) \in 1..y /\ x + k + (i - (x + k)) = i
         /\ \A n \in 1..x + y : n > x => n - x \in 1..y /\ x + k + (n - x) = n + k
         /\ x + k + y - (x + k - (x + 1) + 1) = x + y
         /\ x + k - (x + 1) + 1 = k
         /\ \A n \in 1..k : x + 1 + n - 1 = x + n
         /\ x + k + y \in Nat /\ x + 1 \in Nat /\ x + k \in Nat
         /\ 1 =< x + 1 /\ x + 1 =< x + k /\ x + 1 =< x + k + 1 /\ x + k =< x + k + y
OBVIOUS

\* A block of k lines between x lines and y lines that are no begin marker.
Lone(new, x, k, y) ==
  /\ DOMAIN new.lines = 1..x + k + y
  /\ new.lines[x + 1] = Begin /\ new.lines[x + k] = End
  /\ \A i \in 1..x : new.lines[i] # Begin
  /\ \A i \in 2..k : new.lines[x + i] # Begin
  /\ \A i \in 1..k - 1 : new.lines[x + i] # End
  /\ \A i \in 1..y : new.lines[x + k + i] # Begin

\* It is the only one, and a reader takes it for managed and nothing else.
LEMMA OneBlock ==
  ASSUME NEW new, NEW x \in Nat, NEW y \in Nat, NEW k \in Nat, k >= 2, Lone(new, x, k, y)
  PROVE  ~Unclear(new) /\ Begins(new) = {x + 1} /\ Managed(new) = x + 1..x + k
<1>0. PICK f : f = new.lines
  OBVIOUS
<1>1. /\ f = new.lines /\ DOMAIN f = 1..x + k + y
      /\ f[x + 1] = Begin /\ f[x + k] = End
      /\ \A i \in 1..x : f[i] # Begin
      /\ \A i \in 2..k : f[x + i] # Begin
      /\ \A i \in 1..k - 1 : f[x + i] # End
      /\ \A i \in 1..y : f[x + k + i] # Begin
  BY <1>0 DEF Lone
<1>2. ASSUME NEW i \in 1..x + k + y, i # x + 1  PROVE f[i] # Begin
  <2>1. CASE i =< x
    BY <1>1, <2>1
  <2>2. CASE i > x /\ i =< x + k
    <3>1. i - x \in 2..k /\ x + (i - x) = i
      BY <1>2, <2>2
    <3> QED  BY <1>1, <3>1
  <2>3. CASE i > x + k
    <3>1. i - (x + k) \in 1..y /\ x + k + (i - (x + k)) = i
      BY <2>3, Parts
    <3> QED  BY <1>1, <3>1
  <2> QED  BY <2>1, <2>2, <2>3
<1>3. Begins(new) = {x + 1}
  <2>1. \A i \in DOMAIN f : f[i] = Begin <=> i = x + 1
    BY <1>1, <1>2
  <2>2. x + 1 \in DOMAIN f
    BY <1>1
  <2> QED  BY <1>1, <2>1, <2>2, Zenon DEF Begins
<1>4. x + k \in Ends(new)
  <2>1. x + k \in DOMAIN f /\ x + 1 < x + k
    BY <1>1
  <2>2. \E i \in Begins(new) : i < x + k
    BY <1>3, <2>1, Zenon
  <2>3. new.lines[x + k] = End /\ x + k \in DOMAIN new.lines
    BY <1>1, <2>1, Zenon
  <2> QED  BY <2>2, <2>3, Zenon DEF Ends
<1>5. ~Unclear(new)
  <2>1. Cardinality(Begins(new)) = 1
    BY <1>3, FS_Singleton
  <2>2. ~(Cardinality(Begins(new)) > 1)
    BY <2>1
  <2> QED  BY <1>4, <2>2, Zenon DEF Unclear
\* Behind the block, its end marker is between any line and its begin.
<1>6. ASSUME NEW i \in 1..x + k + y, NEW b \in 1..i, f[b] = Begin, \A n \in b..i - 1 : f[n] # End
      PROVE  i \in x + 1..x + k
  <2>1. b = x + 1
    <3>1. b \in 1..x + k + y
      OBVIOUS
    <3> QED  BY <1>2, <1>6, <3>1
  <2>2. ~(x + k \in b..i - 1)
    BY <1>1, <1>6
  <2> QED  BY <2>1, <2>2
<1>7. ASSUME NEW i \in x + 1..x + k
      PROVE  i \in 1..x + k + y /\ x + 1 \in 1..i /\ \A n \in x + 1..i - 1 : f[n] # End
  <2>1. ASSUME NEW n \in x + 1..i - 1  PROVE f[n] # End
    <3>1. n - x \in 1..k - 1 /\ x + (n - x) = n
      OBVIOUS
    <3> QED  BY <1>1, <3>1
  <2> QED  BY <2>1
<1>8. Managed(new) = x + 1..x + k
  <2>1. Managed(new) = {i \in 1..x + k + y : \E b \in 1..i : /\ f[b] = Begin
                                                               /\ \A n \in b..i - 1 : f[n] # End}
    BY <1>1 DEF Managed
  <2>2. \A i \in Managed(new) : i \in x + 1..x + k
    BY <1>6, <2>1
  <2>3. \A i \in x + 1..x + k : i \in Managed(new)
    BY <1>1, <1>7, <2>1
  <2> QED  BY <2>2, <2>3
<1> QED  BY <1>3, <1>5, <1>8

\* Lines made of three parts, of which the second is managed.
Framing(new, pre, block, post, x, k, y) ==
  /\ DOMAIN new.lines = 1..x + k + y
  /\ Managed(new) = x + 1..x + k
  /\ \A i \in 1..x : new.lines[i] = pre[i]
  /\ \A i \in 1..k : new.lines[x + i] = block[i]
  /\ \A i \in 1..y : new.lines[x + k + i] = post[i]

\* Two parts, and what they make when nothing is between them.
Meets(out, pre, post, x, y) ==
  /\ DOMAIN out = 1..x + y
  /\ \A n \in 1..x + y : /\ n =< x => out[n] = pre[n]
                         /\ n > x => out[n] = post[n - x]

\* The lines of a part.
Copies(out, block, k) == DOMAIN out = 1..k /\ \A n \in 1..k : out[n] = block[n]

\* The other two are what is outside.
LEMMA OutsideBlock ==
  ASSUME NEW new, NEW pre, NEW post, NEW block, NEW x \in Nat, NEW y \in Nat, NEW k \in Nat, k >= 2,
         Framing(new, pre, block, post, x, k, y)
  PROVE  Copies(LinesAt(new, Managed(new)), block, k) /\ Meets(Outside(new), pre, post, x, y)
<1>0. PICK b \in Nat, e \in Nat, L \in Nat : b = x + 1 /\ e = x + k /\ L = x + k + y
  BY Parts
<1>1. 1 =< b /\ b =< e /\ b =< e + 1 /\ e =< L
  BY <1>0, Parts
<1>2. /\ e - b + 1 = k /\ L - (e - b + 1) = x + y
      /\ Managed(new) = b..e /\ DOMAIN new.lines = 1..L
  BY <1>0, Parts DEF Framing
<1>3. /\ DOMAIN LinesAt(new, Managed(new)) = 1..k
      /\ \A n \in 1..k : LinesAt(new, Managed(new))[n] = block[n]
  <2>1. /\ DOMAIN LinesAt(new, Managed(new)) = 1..e - b + 1
        /\ \A n \in 1..e - b + 1 : LinesAt(new, Managed(new))[n] = new.lines[b + n - 1]
    BY <1>1, <1>2, LinesBetween
  <2>2. \A n \in 1..k : b + n - 1 = x + n
    BY <1>0, Parts
  <2>3. \A n \in 1..k : new.lines[b + n - 1] = block[n]
    BY <2>2 DEF Framing
  <2> QED  BY <1>2, <2>1, <2>3
<1>4. /\ DOMAIN Outside(new) = 1..x + y
      /\ \A n \in 1..x + y : /\ n =< x => Outside(new)[n] = pre[n]
                             /\ n > x => Outside(new)[n] = post[n - x]
  <2>1. PICK at : at = DOMAIN new.lines \ Managed(new)
    OBVIOUS
  <2>2. at = Around(L, b, e) /\ Outside(new) = LinesAt(new, at)
    BY <1>2, <2>1 DEF Outside, Around
  <2>3. Spared(LinesAt(new, at), new, L, b, e)
    BY <1>1, <2>2, LinesAround
  <2>4. /\ DOMAIN Outside(new) = 1..x + y
        /\ \A n \in 1..x + y : /\ n < b => Outside(new)[n] = new.lines[n]
                               /\ n >= b => Outside(new)[n] = new.lines[n + k]
    BY <1>2, <2>2, <2>3 DEF Spared
  <2>5. ASSUME NEW n \in 1..x + y, n =< x
        PROVE  Outside(new)[n] = pre[n]
    <3>1. n < b /\ n \in 1..x
      BY <1>0, <2>5
    <3> QED  BY <2>4, <3>1 DEF Framing
  <2>6. ASSUME NEW n \in 1..x + y, n > x
        PROVE  Outside(new)[n] = post[n - x]
    <3>1. n - x \in 1..y /\ x + k + (n - x) = n + k /\ n >= b
      BY <1>0, <2>6, Parts
    <3>2. new.lines[x + k + (n - x)] = post[n - x]
      BY <3>1 DEF Framing
    <3> QED  BY <2>4, <3>1, <3>2
  <2> QED  BY <2>4, <2>5, <2>6
<1> QED  BY <1>3, <1>4 DEF Copies, Meets

\* The same lines twice.
LEMMA SameLines ==
  ASSUME NEW f, NEW g, NEW at, NEW pre, NEW post, NEW x \in Nat, NEW y \in Nat,
         Meets(LinesAt(f, at), pre, post, x, y), Meets(Outside(g), pre, post, x, y)
  PROVE  LinesAt(f, at) = Outside(g)
<1>1. PICK to : to = DOMAIN g.lines \ Managed(g)
  OBVIOUS
<1>2. Outside(g) = LinesAt(g, to)
  BY <1>1 DEF Outside
<1>3. ASSUME NEW n \in 1..x + y  PROVE LinesAt(f, at)[n] = Outside(g)[n]
  BY DEF Meets
<1>4. DOMAIN LinesAt(f, at) = 1..x + y /\ DOMAIN Outside(g) = 1..x + y
  BY DEF Meets
<1>5. LinesAt(f, at) = [n \in 1..x + y |-> LinesAt(f, at)[n]]
  BY <1>4, LinesFunction
<1>6. Outside(g) = [n \in 1..x + y |-> Outside(g)[n]]
  BY <1>2, <1>4, LinesFunction
<1> QED  BY <1>3, <1>5, <1>6

\* A text that holds lines in its only block, between pre and post.
Frames(new, pre, post, lines) ==
  /\ new \in Text /\ ~Unclear(new) /\ Begins(new) = {Len(pre) + 1}
  /\ LinesAt(new, Managed(new)) = Block(lines)
  /\ Meets(Outside(new), pre, post, Len(pre), Len(post))

\* So is one put between such lines, and they are what is outside it.
LEMMA Framed ==
  ASSUME NEW pre \in Seq(Line), NEW post \in Seq(Line), NEW lines \in Seq(Key), NEW final \in BOOLEAN,
         \A i \in 1..Len(pre) : pre[i] # Begin,
         \A i \in 1..Len(post) : post[i] # Begin,
         NEW new, new = [lines |-> pre \o Block(lines) \o post, final |-> final]
  PROVE  Frames(new, pre, post, lines)
<1>1. PICK block : block = Block(lines)
  OBVIOUS
<1>2. PICK all : all = pre \o block \o post
  OBVIOUS
<1>3. PICK k \in Nat : k = Len(lines) + 2
  OBVIOUS
<1>4. /\ block \in Seq(Line) /\ Len(block) = k /\ k >= 2
      /\ block[1] = Begin /\ block[k] = End
      /\ \A i \in 2..k : block[i] # Begin
      /\ \A i \in 1..k - 1 : block[i] # End
  BY <1>1, <1>3, BlockShape
<1>5. /\ all \in Seq(Line) /\ Len(all) = Len(pre) + k + Len(post)
      /\ \A i \in 1..Len(pre) : all[i] = pre[i]
      /\ \A i \in 1..k : all[Len(pre) + i] = block[i]
      /\ \A i \in 1..Len(post) : all[Len(pre) + k + i] = post[i]
  <2>1. block \in Seq(Line)
    BY <1>4
  <2>2. /\ all \in Seq(Line) /\ Len(all) = Len(pre) + Len(block) + Len(post)
        /\ \A i \in 1..Len(pre) : all[i] = pre[i]
        /\ \A i \in 1..Len(block) : all[Len(pre) + i] = block[i]
        /\ \A i \in 1..Len(post) : all[Len(pre) + Len(block) + i] = post[i]
    BY <1>2, <2>1, Layout
  <2> QED  BY <1>4, <2>2
<1>6. new = [lines |-> all, final |-> final]
  BY <1>1, <1>2
<1>7. new.lines = all /\ new.final = final
  BY <1>6
<1>8. new \in File
  <2>1. all \in Seq(Line)
    BY <1>5
  <2>2. [lines |-> all, final |-> final] \in [lines : Seq(Line), final : BOOLEAN]
    BY <2>1
  <2> QED  BY <1>6, <2>2, Zenon DEF File
<1>9. Len(pre) \in Nat /\ Len(post) \in Nat
  OBVIOUS
<1>10. DOMAIN all = 1..Len(pre) + k + Len(post) /\ all # <<>>
  BY <1>4, <1>5, <1>9
<1>11. /\ all[Len(pre) + 1] = Begin /\ all[Len(pre) + k] = End
       /\ \A i \in 1..Len(pre) : all[i] # Begin
       /\ \A i \in 2..k : all[Len(pre) + i] # Begin
       /\ \A i \in 1..k - 1 : all[Len(pre) + i] # End
       /\ \A i \in 1..Len(post) : all[Len(pre) + k + i] # Begin
  <2>1. 1 \in 1..k /\ k \in 1..k /\ (\A i \in 2..k : i \in 1..k) /\ (\A i \in 1..k - 1 : i \in 1..k)
    BY <1>4
  <2>2. /\ all[Len(pre) + 1] = block[1] /\ all[Len(pre) + k] = block[k]
        /\ \A i \in 2..k : all[Len(pre) + i] = block[i]
        /\ \A i \in 1..k - 1 : all[Len(pre) + i] = block[i]
    BY <1>5, <2>1, Zenon
  <2>3. all[Len(pre) + 1] = Begin /\ all[Len(pre) + k] = End
    BY <1>4, <2>2, Zenon
  <2>4. \A i \in 2..k : all[Len(pre) + i] # Begin
    BY <1>4, <2>2, Zenon
  <2>5. \A i \in 1..Len(pre) : all[i] # Begin
    BY <1>5, Zenon
  <2>6. \A i \in 1..Len(post) : all[Len(pre) + k + i] # Begin
    BY <1>5, Zenon
  <2>7. \A i \in 1..k - 1 : all[Len(pre) + i] # End
    BY <1>4, <2>2, Zenon
  <2> QED  BY <2>3, <2>4, <2>5, <2>6, <2>7
<1>12. ~Unclear(new) /\ Begins(new) = {Len(pre) + 1} /\ Managed(new) = Len(pre) + 1..Len(pre) + k
  <2>1. k \in Nat /\ k >= 2 /\ DOMAIN new.lines = 1..Len(pre) + k + Len(post)
    BY <1>3, <1>4, <1>7, <1>10
  <2>2. PICK x \in Nat, y \in Nat : x = Len(pre) /\ y = Len(post)
    BY <1>9
  <2>3. Lone(new, x, k, y)
    BY <1>7, <1>11, <2>1, <2>2, Zenon DEF Lone
  <2>4. k \in Nat /\ k >= 2
    BY <2>1
  <2>5. ~Unclear(new) /\ Begins(new) = {x + 1} /\ Managed(new) = x + 1..x + k
    BY <2>3, <2>4, OneBlock, Zenon
  <2> QED  BY <2>2, <2>5
<1>13. new \in Text
  BY <1>7, <1>8, <1>10 DEF Text
<1>14. block = [n \in 1..k |-> block[n]]
  BY <1>4
<1>15. PICK x \in Nat, y \in Nat : x = Len(pre) /\ y = Len(post)
  BY <1>9
<1>16. x \in Nat /\ y \in Nat /\ k \in Nat /\ k >= 2 /\ Framing(new, pre, block, post, x, k, y)
  BY <1>3, <1>4, <1>5, <1>7, <1>10, <1>12, <1>15 DEF Framing
<1>17. Copies(LinesAt(new, Managed(new)), block, k) /\ Meets(Outside(new), pre, post, x, y)
  BY <1>16, OutsideBlock, Zenon
<1>18. LinesAt(new, Managed(new)) = block
  <2>1. PICK at : at = Managed(new)
    OBVIOUS
  <2>2. LinesAt(new, at) = [n \in DOMAIN LinesAt(new, at) |-> LinesAt(new, at)[n]]
    BY LinesFunction
  <2> QED  BY <1>14, <1>17, <2>1, <2>2 DEF Copies
<1>19. Meets(Outside(new), pre, post, Len(pre), Len(post))
  BY <1>15, <1>17, Zenon
<1> QED  BY <1>1, <1>12, <1>13, <1>18, <1>19, Zenon DEF Frames

\* A text with lines in its only block, and outside it what f has outside.
Rewrites(new, f, lines) ==
  /\ new \in Text /\ ~Unclear(new) /\ Cardinality(Begins(new)) = 1
  /\ LinesAt(new, Managed(new)) = Block(lines)
  /\ Outside(new) = Outside(f)

\* Between what f has outside, they make such a text.
LEMMA FramedRewrites ==
  ASSUME NEW f, NEW new, NEW pre \in Seq(Line), NEW post \in Seq(Line), NEW lines,
         Frames(new, pre, post, lines), Meets(Outside(f), pre, post, Len(pre), Len(post))
  PROVE  Rewrites(new, f, lines)
<1>1. PICK x \in Nat, y \in Nat : x = Len(pre) /\ y = Len(post)
  OBVIOUS
<1>2. Meets(Outside(new), pre, post, x, y) /\ Meets(Outside(f), pre, post, x, y)
  BY <1>1, Zenon DEF Frames
<1>3. PICK at : at = DOMAIN new.lines \ Managed(new)
  OBVIOUS
<1>4. Outside(new) = LinesAt(new, at)
  BY <1>3 DEF Outside
<1>5. LinesAt(new, at) = Outside(f)
  BY <1>2, <1>4, SameLines, Zenon
<1>6. Cardinality({Len(pre) + 1}) = 1
  BY FS_Singleton
<1> QED  BY <1>4, <1>5, <1>6, Zenon DEF Frames, Rewrites

\* Without a block, everything is outside.
LEMMA NoBlock ==
  ASSUME NEW f \in Text, Begins(f) = {}
  PROVE  Managed(f) = {} /\ Meets(Outside(f), f.lines, <<>>, Len(f.lines), Len(<<>>))
<1>1. f.lines \in Seq(Line)
  BY DEF Text, File
<1>2. PICK L \in Nat : L = Len(f.lines) /\ DOMAIN f.lines = 1..L
  BY <1>1
<1>3. Managed(f) = {}
  <2>1. \A i \in 1..L : f.lines[i] # Begin
    BY <1>2 DEF Begins
  <2>2. \A i \in 1..L : \A k \in 1..i : k \in 1..L
    OBVIOUS
  <2> QED  BY <1>2, <2>1, <2>2 DEF Managed
<1>4. PICK at : at = DOMAIN f.lines \ Managed(f)
  OBVIOUS
<1>5. at = Around(L, 1, 0)
  BY <1>2, <1>3, <1>4 DEF Around
<1>6. Outside(f) = LinesAt(f, at)
  BY <1>4 DEF Outside
<1>7. Spared(LinesAt(f, at), f, L, 1, 0)
  BY <1>5, LinesAround
<1>8. Meets(Outside(f), f.lines, <<>>, L, 0)
  BY <1>6, <1>7 DEF Spared, Meets
<1>9. Len(<<>>) = 0
  OBVIOUS
<1> QED  BY <1>2, <1>3, <1>8, <1>9, Zenon

\* ReplaceBlock of a file without a block.
LEMMA Appended ==
  ASSUME NEW f \in Text, Begins(f) = {}, NEW lines \in Seq(Key)
  PROVE  Rewrites(ReplaceBlock(f, lines), f, lines)
<1>1. PICK pre \in Seq(Line), post \in Seq(Line) : pre = f.lines /\ post = <<>>
  <2>1. f.lines \in Seq(Line)
    BY DEF Text, File
  <2>2. <<>> \in Seq(Line)
    OBVIOUS
  <2> QED  BY <2>1, <2>2, Zenon
<1>2. PICK new : new = ReplaceBlock(f, lines)
  OBVIOUS
<1>3. \A i \in 1..Len(pre) : pre[i] # Begin
  BY <1>1 DEF Begins
<1>4. \A i \in 1..Len(post) : post[i] # Begin
  BY <1>1
<1>5. pre \o Block(lines) = pre \o Block(lines) \o post
  <2>1. pre \o Block(lines) \in Seq(Line)
    BY BlockShape, Joined
  <2> QED  BY <1>1, <2>1, ConcatEmptySeq, Zenon
<1>6. new = [lines |-> pre \o Block(lines) \o post, final |-> TRUE]
  BY <1>1, <1>2, <1>5, Zenon DEF ReplaceBlock, Block
<1>7. Frames(new, pre, post, lines)
  BY <1>3, <1>4, <1>6, Framed
<1>8. Meets(Outside(f), pre, post, Len(pre), Len(post))
  BY <1>1, NoBlock, Zenon
<1> QED  BY <1>2, <1>7, <1>8, FramedRewrites, Zenon

\* ReplaceBlock of a file with one block that ends.
LEMMA Replaced ==
  ASSUME NEW f \in Text, ~Unclear(f), Begins(f) # {}, NEW lines \in Seq(Key)
  PROVE  /\ Rewrites(ReplaceBlock(f, lines), f, lines)
         /\ Len(f.lines) \notin Managed(f) => ReplaceBlock(f, lines).final = f.final
<1>1. f.lines \in Seq(Line) /\ f.final \in BOOLEAN
  BY DEF Text, File
<1>2. PICK L \in Nat : L = Len(f.lines) /\ DOMAIN f.lines = 1..L
  BY <1>1
<1>3. PICK b : b = Min(Begins(f))
  OBVIOUS
<1>4. PICK e : e = Min(Ends(f))
  OBVIOUS
<1>5. IsFiniteSet(Begins(f)) /\ Begins(f) \in SUBSET Nat
  <2>1. Begins(f) \in SUBSET (1..L) /\ IsFiniteSet(1..L)
    BY <1>2, FS_Interval DEF Begins
  <2> QED  BY <2>1, FS_Subset
<1>6. Begins(f) = {b}
  <2>1. Cardinality(Begins(f)) \in Nat /\ Cardinality(Begins(f)) # 0
    BY <1>5, FS_CardinalityType, FS_EmptySet, Zenon
  <2>2. Cardinality(Begins(f)) = 1
    BY <2>1 DEF Unclear
  <2>3. PICK x : Begins(f) = {x}
    BY <1>5, <2>2, FS_Singleton, Zenon
  <2> QED  BY <1>3, <1>5, <2>3, LeastOf
<1>7. e \in Ends(f) /\ \A j \in Ends(f) : e =< j
  <2>1. Ends(f) \in SUBSET Nat /\ Ends(f) # {}
    BY <1>2 DEF Unclear, Ends
  <2> QED  BY <1>4, <2>1, LeastOf
<1>8. /\ b \in 1..L /\ e \in 1..L /\ b < e
      /\ f.lines[b] = Begin /\ f.lines[e] = End
      /\ \A i \in 1..L : f.lines[i] = Begin => i = b
  BY <1>2, <1>6, <1>7 DEF Begins, Ends
<1>9. \A j \in 1..L : b < j /\ j < e => f.lines[j] # End
  <2>1. ASSUME NEW j \in 1..L, b < j, j < e, f.lines[j] = End  PROVE FALSE
    <3>1. j \in Ends(f)
      BY <1>2, <1>6, <2>1 DEF Ends
    <3> QED  BY <1>7, <1>8, <2>1, <3>1
  <2> QED  BY <2>1
<1>10. PICK x \in Nat, k \in Nat, y \in Nat : x = b - 1 /\ k = e - b + 1 /\ y = L - e
  BY <1>8
<1>11. k >= 2 /\ x + 1 = b /\ x + k = e /\ x + k + y = L
  BY <1>8, <1>10
<1>12. Lone(f, x, k, y)
  <2>0. /\ b \in 1..L /\ e \in 1..L /\ b < e
        /\ \A i \in 1..L : i # b => f.lines[i] # Begin
    BY <1>8, Zenon
  <2>1. ASSUME NEW i \in 1..x  PROVE f.lines[i] # Begin
    <3>1. i \in 1..L /\ i # b
      BY <1>10, <2>0
    <3> QED  BY <2>0, <3>1, Zenon
  <2>2. ASSUME NEW i \in 2..k  PROVE f.lines[x + i] # Begin
    <3>1. x + i \in 1..L /\ x + i # b
      BY <1>10, <2>0
    <3> QED  BY <2>0, <3>1, Zenon
  <2>3. ASSUME NEW i \in 1..k - 1  PROVE f.lines[x + i] # End
    <3>1. CASE i = 1
      <4>1. Begin # End
        BY BlockAssumption
      <4> QED  BY <1>8, <1>11, <3>1, <4>1
    <3>2. CASE i # 1
      BY <1>8, <1>9, <1>10, <3>2
    <3> QED  BY <3>1, <3>2
  <2>4. ASSUME NEW i \in 1..y  PROVE f.lines[x + k + i] # Begin
    <3>1. x + k + i \in 1..L /\ x + k + i # b
      BY <1>10, <2>0
    <3> QED  BY <2>0, <3>1, Zenon
  <2> QED  BY <1>2, <1>8, <1>11, <2>1, <2>2, <2>3, <2>4 DEF Lone
<1>13. Managed(f) = x + 1..x + k
  BY <1>11, <1>12, OneBlock, Zenon
<1>14. PICK pre : pre = SubSeq(f.lines, 1, b - 1)
  OBVIOUS
<1>15. PICK post : post = SubSeq(f.lines, e + 1, L)
  OBVIOUS
<1>16. PICK mid : mid = [i \in 1..k |-> f.lines[x + i]]
  OBVIOUS
<1>17. /\ pre \in Seq(Line) /\ Len(pre) = x
       /\ \A i \in 1..x : pre[i] = f.lines[i]
  BY <1>1, <1>2, <1>8, <1>10, <1>14, Slice
<1>18. /\ post \in Seq(Line) /\ Len(post) = y
       /\ \A i \in 1..y : post[i] = f.lines[e + i]
  <2>1. e + 1 \in Nat /\ e + 1 >= 1 /\ L =< Len(f.lines) /\ e + 1 =< L + 1
        /\ L - (e + 1) + 1 = y
    BY <1>2, <1>8, <1>10
  <2>2. /\ post \in Seq(Line) /\ Len(post) = y
        /\ \A i \in 1..y : post[i] = f.lines[e + 1 + i - 1]
    BY <1>1, <1>15, <2>1, Slice
  <2>3. \A i \in 1..y : e + 1 + i - 1 = e + i
    BY <1>8
  <2> QED  BY <2>2, <2>3
<1>19. Framing(f, pre, mid, post, x, k, y)
  BY <1>2, <1>11, <1>13, <1>16, <1>17, <1>18 DEF Framing
<1>20. Meets(Outside(f), pre, post, Len(pre), Len(post))
  <2>1. Meets(Outside(f), pre, post, x, y)
    BY <1>11, <1>19, OutsideBlock, Zenon
  <2> QED  BY <1>17, <1>18, <2>1, Zenon
<1>21. PICK new : new = ReplaceBlock(f, lines)
  OBVIOUS
<1>22. PICK final \in BOOLEAN : final = (f.final \/ e = L)
  OBVIOUS
<1>23. new = [lines |-> pre \o Block(lines) \o post, final |-> final]
  BY <1>2, <1>3, <1>4, <1>14, <1>15, <1>21, <1>22, Zenon DEF ReplaceBlock, Block
<1>24. (\A i \in 1..Len(pre) : pre[i] # Begin) /\ (\A i \in 1..Len(post) : post[i] # Begin)
  <2>1. (\A i \in 1..x : f.lines[i] # Begin) /\ (\A i \in 1..y : f.lines[e + i] # Begin)
    BY <1>11, <1>12 DEF Lone
  <2> QED  BY <1>17, <1>18, <2>1
<1>25. Frames(new, pre, post, lines)
  BY <1>17, <1>18, <1>23, <1>24, Framed
<1>26. Rewrites(new, f, lines)
  BY <1>17, <1>18, <1>20, <1>25, FramedRewrites, Zenon
\* The last line is managed where the end marker is the last.
<1>27. L \notin Managed(f) => new.final = f.final
  <2>1. SUFFICES ASSUME L \notin Managed(f)  PROVE new.final = f.final
    OBVIOUS
  <2>2. e # L
    BY <1>8, <1>11, <1>13, <2>1
  <2>3. final = f.final
    BY <1>1, <1>22, <2>2
  <2> QED  BY <1>23, <2>3
<1> QED  BY <1>2, <1>21, <1>26, <1>27, Zenon

\* ReplaceBlock of a file it does not refuse and of keys.
LEMMA Rewritten ==
  ASSUME NEW f \in Text, ~Unclear(f), NEW lines \in Seq(Key)
  PROVE  /\ Rewrites(ReplaceBlock(f, lines), f, lines)
         /\ (Managed(f) # {} /\ Len(f.lines) \notin Managed(f)) => ReplaceBlock(f, lines).final = f.final
<1>1. CASE Begins(f) = {}
  BY <1>1, Appended, NoBlock, Zenon
<1>2. CASE Begins(f) # {}
  BY <1>2, Replaced, Zenon
<1> QED  BY <1>1, <1>2

-----------------------------------------------------------------------------
\* An order that an agent follows is made of keys.
LEMMA Followed ==
  ASSUME NEW order \in Order, ~Unsafe(order)
  PROVE  order.lines \in Seq(Key)
<1>1. order.lines \in Seq(Line) /\ \A i \in DOMAIN order.lines : order.lines[i] \in Key
  BY BlockAssumption DEF Unsafe, SafeLine
<1> QED  BY <1>1

\* A job that a step of a gives to a keeps the invariant of the others.
LEMMA JobStep ==
  ASSUME Inv, NEW a \in Agent, NEW j, job' = [job EXCEPT ![a] = j],
         file' \in Text, linked' \in BOOLEAN, Sane(j),
         j \in [pc : {"idle"}] \union [pc : {"writing"}, order : Order, seen : Text]
                 \union [pc : {"done"}, order : Order]
  PROVE  Inv'
BY DEF Inv, WellShaped, Sane

\* Every step of an agent keeps the invariant, and what it writes is clear.
LEMMA AgentKeeps ==
  ASSUME Inv, NEW a \in Agent, AgentStep(a)
  PROVE  Inv' /\ (file' # file => ~Unclear(file'))
<1> DEFINE Jobs == [pc : {"idle"}] \union [pc : {"writing"}, order : Order, seen : Text]
                     \union [pc : {"done"}, order : Order]
<1>1. file \in Text /\ linked \in BOOLEAN /\ job[a] \in Jobs /\ Sane(job[a])
  BY DEF Inv, WellShaped
<1>2. [pc |-> "idle"] \in Jobs /\ Sane([pc |-> "idle"])
  BY DEF Sane
<1>3. ASSUME NEW order \in Order
      PROVE  [pc |-> "done", order |-> order] \in Jobs /\ Sane([pc |-> "done", order |-> order])
  BY DEF Sane
<1>4. ASSUME NEW order \in Order, Refuse(a, order)  PROVE Inv' /\ file' = file
  BY <1>1, <1>2, <1>4, JobStep DEF Refuse, Fails
<1>5. ASSUME NEW order \in Order, NothingToDo(a, order)  PROVE Inv' /\ file' = file
  BY <1>1, <1>3, <1>5, JobStep DEF NothingToDo, Succeeds
<1>6. ASSUME NEW order \in Order, Read(a, order)  PROVE Inv' /\ file' = file
  <2> DEFINE j == [pc |-> "writing", order |-> order, seen |-> file]
  <2>1. j \in Jobs /\ Sane(j)
    BY <1>1, <1>6 DEF Read, Sane
  <2> QED  BY <1>1, <1>6, <2>1, JobStep DEF Read
<1>7. ASSUME Write(a)  PROVE Inv' /\ ~Unclear(file')
  <2>1. /\ job[a].order \in Order /\ job[a].seen \in Text
        /\ ~Unclear(job[a].seen) /\ ~Unsafe(job[a].order)
    BY <1>1, <1>7 DEF Write, Sane
  <2>2. file' \in Text /\ ~Unclear(file')
    BY <1>7, <2>1, Followed, Rewritten DEF Write, Rewrites
  <2>3. linked' \in BOOLEAN
    BY <1>1, <1>7 DEF Write
  <2>4. CASE Succeeds(a, job[a].order)
    BY <1>3, <2>1, <2>2, <2>3, <2>4, JobStep DEF Succeeds
  <2>5. CASE Fails(a)
    BY <1>2, <2>2, <2>3, <2>5, JobStep DEF Fails
  <2> QED  BY <1>7, <2>2, <2>4, <2>5 DEF Write
<1>8. ASSUME WriteFails(a) \/ ReadFails(a)  PROVE Inv' /\ file' = file
  BY <1>1, <1>2, <1>8, JobStep DEF WriteFails, ReadFails, Fails
<1> QED  BY <1>4, <1>5, <1>6, <1>7, <1>8 DEF AgentStep

\* What people do to the file leaves a text, and no job changes.
LEMMA HandKeeps ==
  ASSUME Inv, HandStep
  PROVE  Inv' /\ job' = job
<1>1. file \in Text /\ file.lines \in Seq(Line) /\ file.final \in BOOLEAN /\ linked \in BOOLEAN
  BY DEF Inv, WellShaped, Text, File
<1>2. ASSUME NEW lines \in Seq(Line)  PROVE [lines |-> lines, final |-> TRUE] \in Text
  BY DEF Text, File
<1>3. ASSUME NEW line \in Line, InsertByHand(line)  PROVE file' \in Text /\ UNCHANGED <<linked, job>>
  <2>1. PICK i \in 1..Len(file.lines) + 1 : file' = [lines |-> InsertAt(file.lines, i, line), final |-> TRUE]
    BY <1>3 DEF InsertByHand
  <2>2. SubSeq(file.lines, 1, i - 1) \in Seq(Line) /\ SubSeq(file.lines, i, Len(file.lines)) \in Seq(Line)
    BY <1>1
  <2>3. InsertAt(file.lines, i, line) \in Seq(Line)
    BY <2>2 DEF InsertAt
  <2> QED  BY <1>2, <1>3, <2>1, <2>3 DEF InsertByHand
<1>4. ASSUME RemoveByHand  PROVE file' \in Text /\ UNCHANGED <<linked, job>>
  <2>1. PICK i \in DOMAIN file.lines : file' = [lines |-> RemoveAt(file.lines, i), final |-> TRUE]
    BY <1>4 DEF RemoveByHand
  <2>2. SubSeq(file.lines, 1, i - 1) \in Seq(Line) /\ SubSeq(file.lines, i + 1, Len(file.lines)) \in Seq(Line)
    BY <1>1
  <2>3. RemoveAt(file.lines, i) \in Seq(Line)
    BY <2>2 DEF RemoveAt
  <2> QED  BY <1>2, <1>4, <2>1, <2>3 DEF RemoveByHand
<1>5. ASSUME DropLineBreak  PROVE file' \in Text /\ UNCHANGED <<linked, job>>
  BY <1>1, <1>5 DEF DropLineBreak, Text, File
<1>6. ASSUME Link  PROVE file' \in Text /\ linked' \in BOOLEAN /\ job' = job
  BY <1>1, <1>6 DEF Link
<1>7. file' \in Text /\ linked' \in BOOLEAN /\ job' = job
  BY <1>1, <1>3, <1>4, <1>5, <1>6 DEF HandStep
<1> QED  BY <1>7 DEF Inv, WellShaped, Sane

\* The inductive invariant: the file is a text, and every job goes by a clear one.
LEMMA Invariance == BlockSpec => []Inv
<1>1. BlockInit(Text) => Inv
  <2>1. SUFFICES ASSUME BlockInit(Text)  PROVE Inv
    OBVIOUS
  <2>2. file \in Text /\ linked \in BOOLEAN
    BY <2>1 DEF BlockInit
  <2>3. job = [a \in Agent |-> [pc |-> "idle"]]
    BY <2>1 DEF BlockInit
  <2> QED  BY <2>2, <2>3 DEF Inv, WellShaped, Sane
<1>2. Inv /\ [BlockNext]_blockVars => Inv'
  <2>1. Inv /\ UNCHANGED blockVars => Inv'
    BY DEF blockVars, Inv, WellShaped, Sane
  <2> QED  BY <2>1, AgentKeeps, HandKeeps DEF BlockNext
<1> QED  BY <1>1, <1>2, PTL DEF BlockSpec

(* Whatever people and agents do to it, the file stays a text as            *)
(* ReplaceBlock expects it, and a rewrite goes by a file that was clear.    *)
THEOREM BlockTyped == BlockSpec => []BlockTypeOK
<1>1. Inv => BlockTypeOK
  BY DEF Inv, WellShaped, Sane, BlockTypeOK
<1> QED  BY <1>1, Invariance, PTL

(* No write makes a file that the next order would refuse (ErrBrokenBlock,  *)
(* ErrDuplicateBlock), whatever was done to it since it was read.           *)
THEOREM StaysReadable == BlockSpec => WritesStayReadable
<1>1. Inv /\ [BlockNext]_blockVars => [job' # job /\ file' # file => ~Unclear(file')]_blockVars
  <2>1. SUFFICES ASSUME Inv, BlockNext, job' # job, file' # file  PROVE ~Unclear(file')
    OBVIOUS
  <2> QED  BY <2>1, AgentKeeps, HandKeeps DEF BlockNext
<1> QED  BY <1>1, Invariance, PTL DEF BlockSpec, WritesStayReadable

\* No step of an agent changes the job of another one.
LEMMA OneAgent ==
  ASSUME Inv, NEW a \in Agent, AgentStep(a), NEW c \in Agent, c # a
  PROVE  job'[c] = job[c]
<1>1. job \in [Agent -> [pc : {"idle"}] \union [pc : {"writing"}, order : Order, seen : Text]
                          \union [pc : {"done"}, order : Order]]
  BY DEF Inv, WellShaped
<1> QED  BY <1>1 DEF AgentStep, Refuse, NothingToDo, Read, ReadFails, Write, WriteFails, Succeeds, Fails

\* Only Write changes the file.
LEMMA OnlyWrites ==
  ASSUME NEW a \in Agent, AgentStep(a), file' # file
  PROVE  Write(a)
BY DEF AgentStep, Refuse, NothingToDo, Read, ReadFails, WriteFails

\* What Write makes of the file that was read.
LEMMA WriteRewrites ==
  ASSUME Inv, NEW a \in Agent, Write(a)
  PROVE  /\ job[a].order \in Order
         /\ Rewrites(file', job[a].seen, job[a].order.lines)
         /\ (Managed(job[a].seen) # {} /\ Len(job[a].seen.lines) \notin Managed(job[a].seen))
              => file'.final = job[a].seen.final
<1>1. /\ job[a] \in [pc : {"idle"}] \union [pc : {"writing"}, order : Order, seen : Text]
                      \union [pc : {"done"}, order : Order]
      /\ Sane(job[a]) /\ job[a].pc = "writing"
      /\ file' = ReplaceBlock(job[a].seen, job[a].order.lines)
  BY DEF Inv, WellShaped, Write
<1>2. PICK seen \in Text, order \in Order : seen = job[a].seen /\ order = job[a].order
  BY <1>1
<1>3. ~Unclear(seen) /\ ~Unsafe(order) /\ file' = ReplaceBlock(seen, order.lines)
  BY <1>1, <1>2 DEF Sane
<1>4. order.lines \in Seq(Key)
  BY <1>3, Followed
<1>5. /\ Rewrites(file', seen, order.lines)
      /\ (Managed(seen) # {} /\ Len(seen.lines) \notin Managed(seen)) => file'.final = seen.final
  BY <1>3, <1>4, Rewritten, Zenon
<1> QED  BY <1>2, <1>5

(* A rewrite keeps every line that was outside the block when the agent     *)
(* read the file, and the end of the last one (ReplaceBlock, findBlock).    *)
THEOREM OutsideKept == BlockSpec => OutsideIsKept
<1> DEFINE A == \A a \in Agent : job[a].pc = "writing" /\ job'[a] # job[a] /\ file' # file =>
                  LET seen == job[a].seen IN
                    /\ Outside(file') = Outside(seen)
                    /\ (Managed(seen) # {} /\ Len(seen.lines) \notin Managed(seen))
                         => file'.final = seen.final
<1>1. Inv /\ [BlockNext]_blockVars => [A]_blockVars
  <2>1. SUFFICES ASSUME Inv, BlockNext, NEW a \in Agent, job'[a] # job[a], file' # file
                 PROVE  LET seen == job[a].seen IN
                          /\ Outside(file') = Outside(seen)
                          /\ (Managed(seen) # {} /\ Len(seen.lines) \notin Managed(seen))
                               => file'.final = seen.final
    BY Zenon
  <2>2. PICK c \in Agent : AgentStep(c)
    BY <2>1, HandKeeps DEF BlockNext
  <2>3. c = a
    BY <2>1, <2>2, OneAgent
  <2>4. Write(a)
    BY <2>1, <2>2, <2>3, OnlyWrites
  <2> QED  BY <2>1, <2>4, WriteRewrites, Zenon DEF Rewrites
<1> QED  BY <1>1, Invariance, PTL DEF BlockSpec, OutsideIsKept

\* A clear that finds no marker finds no block.
LEMMA UntouchedIsBare ==
  ASSUME NEW order, Untouched(order)
  PROVE  order.clear /\ Begins(file) = {}
BY DEF Untouched, MentionsMarker, Begins

(* What an agent reports as applied is in the file, in one block, and what  *)
(* it reports as cleared is not (Apply, rewrite).                           *)
THEOREM AnswersTrue == BlockSpec => AnswersAreTrue
<1> DEFINE True(a) == \/ job'[a].order.clear /\ Begins(file') = {}
                      \/ /\ Cardinality(Begins(file')) = 1
                         /\ LinesAt(file', Managed(file')) = <<Begin>> \o job'[a].order.lines \o <<End>>
           A == \A a \in Agent : job'[a] # job[a] /\ job'[a].pc = "done" => True(a)
<1>1. Inv /\ [BlockNext]_blockVars => [A]_blockVars
  <2>1. SUFFICES ASSUME Inv, BlockNext, NEW a \in Agent, job'[a] # job[a], job'[a].pc = "done"
                 PROVE  True(a)
    BY Zenon
  <2>2. PICK c \in Agent : AgentStep(c)
    BY <2>1, HandKeeps DEF BlockNext
  <2>3. AgentStep(a)
    BY <2>1, <2>2, OneAgent
  <2>4. job \in [Agent -> [pc : {"idle"}] \union [pc : {"writing"}, order : Order, seen : Text]
                            \union [pc : {"done"}, order : Order]]
    BY <2>1 DEF Inv, WellShaped
  <2>5. ~Fails(a)
    BY <2>1, <2>4 DEF Fails
  <2>6. ASSUME NEW order \in Order, Read(a, order)  PROVE FALSE
    BY <2>1, <2>4, <2>6 DEF Read
  <2>7. ASSUME NEW order \in Order, NothingToDo(a, order)  PROVE True(a)
    <3>1. job'[a].order = order /\ file' = file /\ ~Unsafe(order)
      BY <2>4, <2>7 DEF NothingToDo, Succeeds
    <3>2. CASE Untouched(order)
      BY <3>1, <3>2, UntouchedIsBare
    <3>3. CASE ~Unclear(file) /\ ReplaceBlock(file, order.lines) = file
      <4>1. file \in Text /\ order.lines \in Seq(Key)
        BY <2>1, <3>1, Followed DEF Inv, WellShaped
      <4>2. Rewrites(file, file, order.lines)
        BY <3>3, <4>1, Rewritten
      <4> QED  BY <3>1, <4>2 DEF Rewrites, Block
    <3> QED  BY <2>7, <3>2, <3>3 DEF NothingToDo
  <2>8. ASSUME Write(a)  PROVE True(a)
    <3>1. Rewrites(file', job[a].seen, job[a].order.lines)
      BY <2>1, <2>8, WriteRewrites
    <3>2. Succeeds(a, job[a].order)
      BY <2>5, <2>8 DEF Write
    <3>3. job'[a].order = job[a].order
      BY <2>4, <3>2 DEF Succeeds
    <3> QED  BY <3>1, <3>3 DEF Rewrites, Block
  <2> QED  BY <2>3, <2>5, <2>6, <2>7, <2>8 DEF AgentStep, Refuse, ReadFails, WriteFails
<1> QED  BY <1>1, Invariance, PTL DEF BlockSpec, AnswersAreTrue
=============================================================================
